------------------------ MODULE IndexAndSearchProofs ------------------------
(***************************************************************************)
(* Proofs about the selection of evidence; about searches among            *)
(* publications, withdrawals and the migration of the index; about that    *)
(* migration; and about the scripts that migrate the schema of MongoDB.    *)
(***************************************************************************)
EXTENDS GovernedSearch, SchemaMigration, FiniteSetTheorems, TLAPS

GovernedSpec == GovernedInit /\ [][GovernedNext]_<<indexVars, searchVars>>

-----------------------------------------------------------------------------
(* The selection of evidence *)

LEMMA FirstOf ==
    ASSUME NEW S, NEW n
    PROVE  First(S, n) \subseteq S
BY DEF First

LEMMA RetainedOf ==
    ASSUME NEW c, NEW kept, NEW eligible
    PROVE  /\ RetainProtected(c, kept, eligible) \subseteq kept \cup eligible
           /\ Protected(c, eligible) \subseteq RetainProtected(c, kept, eligible)
<1> DEFINE n == MaxEvidence - Cardinality(Protected(c, eligible))
           rest == kept \ Protected(c, eligible)
<1>1. First(rest, n) \subseteq rest
  BY FirstOf
<1>2. Protected(c, eligible) \subseteq eligible
  BY DEF Protected
<1>3. RetainProtected(c, kept, eligible) = Protected(c, eligible) \cup First(rest, n)
  BY Zenon DEF RetainProtected
<1> QED
  BY <1>1, <1>2, <1>3

\* What is selected is among the candidates, and all the protected evidence among the
\* candidates is selected, whatever their scores (_select_candidates).
THEOREM SelectionKeepsProtected ==
    ASSUME NEW c, NEW topK, NEW reranked \in BOOLEAN
    PROVE  /\ Selected(c, topK, reranked) \subseteq DOMAIN c
           /\ Protected(c, DOMAIN c) \subseteq Selected(c, topK, reranked)
<1> DEFINE eligible == Eligible(c, reranked)
           n == Smaller(topK, MaxEvidence)
           taken == RetainProtected(c, First(eligible, n), eligible)
           cliffs == Cliffs(c, taken)
           before == {i \in taken : i < Least(cliffs)}
<1>1. eligible \subseteq DOMAIN c
  BY DEF Eligible
<1>2. Protected(c, DOMAIN c) \subseteq Protected(c, eligible)
  BY DEF Protected, Eligible
<1>3. taken \subseteq eligible /\ Protected(c, eligible) \subseteq taken
  <2>1. First(eligible, n) \subseteq eligible
    BY FirstOf
  <2>2. /\ taken \subseteq First(eligible, n) \cup eligible
        /\ Protected(c, eligible) \subseteq taken
    BY RetainedOf
  <2> QED
    BY <2>1, <2>2
<1>4. /\ RetainProtected(c, before, eligible) \subseteq before \cup eligible
      /\ Protected(c, eligible) \subseteq RetainProtected(c, before, eligible)
  BY RetainedOf
<1>5. before \subseteq taken
  OBVIOUS
<1>6. Selected(c, topK, reranked) = IF cliffs = {} THEN taken ELSE RetainProtected(c, before, eligible)
  BY Zenon DEF Selected
<1> HIDE DEF eligible, taken, cliffs, before
<1> QED
  BY <1>1, <1>2, <1>3, <1>4, <1>5, <1>6

-----------------------------------------------------------------------------
(* Searches *)

Places == {"idle", "recall", "chunks", "documents", "select", "save", "answered"}

Queries ==
    [pc : Places, kind : {"none", "search", "reuse"}, routes : Int,
     filter : SUBSET Docs, found : SUBSET Docs]

Sights ==
    [unpublished : SUBSET Docs, unlisted : SUBSET Docs, barred : SUBSET Docs, findable : SUBSET Docs]

\* The documents a request has found and read in one catalog were published in it; once
\* both are read and the actor's scope is checked, in both, and open.
ReadIsServed ==
    /\ QueryAt("documents") => query.found \cap watch.unlisted = {}
    /\ query.pc \in {"select", "save", "answered"} =>
         query.found \cap (watch.unpublished \cup watch.unlisted \cup watch.barred) = {}

SearchInv ==
    /\ query \in Queries /\ trace \in SUBSET Docs
    /\ watch \in Sights
    /\ ReadIsServed

\* What was so throughout a request only gets less.
LEMMA WatchShrinks ==
    ASSUME Watching, watch \in Sights, query \in Queries
    PROVE  /\ watch' \in Sights
           /\ query'.pc # "idle" =>
                /\ watch'.unpublished \cap Published(documents)' = {}
                /\ watch'.unlisted \cap Published(chunks)' = {}
                /\ watch'.barred \cap {d \in Docs : Open(d)'} = {}
                /\ watch'.findable \subseteq Findable'
           /\ query'.pc # "idle" /\ query.pc # "idle" =>
                /\ watch'.unpublished \subseteq watch.unpublished
                /\ watch'.unlisted \subseteq watch.unlisted
                /\ watch'.barred \subseteq watch.barred
                /\ watch'.findable \subseteq watch.findable
<1> DEFINE sight == Sight'
<1>1. sight \in Sights
  <2>1. Findable' \subseteq Docs
    BY DEF Findable, Published
  <2> QED
    BY <2>1 DEF Sight, Sights
<1>2. /\ sight.unpublished \cap Published(documents)' = {}
      /\ sight.unlisted \cap Published(chunks)' = {}
      /\ sight.barred \cap {d \in Docs : Open(d)'} = {}
      /\ sight.findable = Findable'
  BY DEF Sight
<1>3. watch' = IF query'.pc = "idle" THEN NoSight
               ELSE IF query.pc = "idle" THEN sight
               ELSE [what \in DOMAIN watch |-> watch[what] \cap sight[what]]
  BY DEF Watching
<1> HIDE DEF sight
<1>4. CASE query'.pc = "idle"
  BY <1>3, <1>4 DEF NoSight, Sights
<1>5. CASE query'.pc # "idle" /\ query.pc = "idle"
  BY <1>1, <1>2, <1>3, <1>5
<1>6. CASE query'.pc # "idle" /\ query.pc # "idle"
  <2>1. watch' = [what \in DOMAIN watch |-> watch[what] \cap sight[what]]
    BY <1>3, <1>6
  <2>2. /\ watch'.unpublished = watch.unpublished \cap sight.unpublished
        /\ watch'.unlisted = watch.unlisted \cap sight.unlisted
        /\ watch'.barred = watch.barred \cap sight.barred
        /\ watch'.findable = watch.findable \cap sight.findable
        /\ watch' = [unpublished |-> watch'.unpublished, unlisted |-> watch'.unlisted,
                     barred |-> watch'.barred, findable |-> watch'.findable]
    BY <2>1 DEF Sights
  <2> QED
    BY <1>1, <1>2, <2>2, <1>6 DEF Sights
<1> QED
  BY <1>4, <1>5, <1>6

LEMMA SearchInvInit == GovernedInit => SearchInv
<1> SUFFICES ASSUME SearchInit PROVE SearchInv
  BY Zenon DEF GovernedInit
<1>1. query = NoQuery /\ trace = {} /\ watch = NoSight
  BY DEF SearchInit
<1>2. query \in Queries /\ query.pc = "idle" /\ trace \in SUBSET Docs
  BY <1>1 DEF NoQuery, Queries, Places
<1>3. watch \in Sights
  BY <1>1 DEF NoSight, Sights
<1>4. ReadIsServed
  BY <1>2 DEF ReadIsServed, QueryAt
<1> QED
  BY <1>2, <1>3, <1>4 DEF SearchInv

\* What a step must show of the state it leads to, by the place the request is at.
LEMMA Reached ==
    ASSUME query' \in Queries, trace' \in SUBSET Docs, watch' \in Sights,
           \/ query'.pc \in {"idle", "recall", "chunks"}
           \/ query'.pc = "documents" /\ query'.found \cap watch'.unlisted = {}
           \/ /\ query'.pc \in {"select", "save", "answered"}
              /\ query'.found \cap (watch'.unpublished \cup watch'.unlisted \cup watch'.barred) = {}
    PROVE  SearchInv'
<1>1. ReadIsServed'
  BY DEF ReadIsServed, QueryAt
<1> QED
  BY <1>1 DEF SearchInv

\* Steps of the catalogs, the writers, the migration and the clock leave the request as it is.
LEMMA OtherSteps ==
    ASSUME SearchInv, Watching, UNCHANGED <<query, trace>>
    PROVE  SearchInv'
<1>1. /\ watch' \in Sights
      /\ query'.pc # "idle" /\ query.pc # "idle" =>
                /\ watch'.unpublished \subseteq watch.unpublished
                /\ watch'.unlisted \subseteq watch.unlisted
                /\ watch'.barred \subseteq watch.barred
  BY WatchShrinks DEF SearchInv
<1> QED
  BY <1>1 DEF SearchInv, ReadIsServed, QueryAt

LEMMA SearchSteps ==
    ASSUME SearchInv, SearchStep, UNCHANGED indexVars, Watching
    PROVE  SearchInv'
<1>1. watch' \in Sights
  BY WatchShrinks DEF SearchInv
<1>15. query'.pc # "idle" =>
         /\ watch'.unpublished \cap Published(documents)' = {}
         /\ watch'.unlisted \cap Published(chunks)' = {}
         /\ watch'.barred \cap {d \in Docs : Open(d)'} = {}
  BY WatchShrinks DEF SearchInv
<1>16. query'.pc # "idle" /\ query.pc # "idle" =>
         /\ watch'.unpublished \subseteq watch.unpublished
         /\ watch'.unlisted \subseteq watch.unlisted
         /\ watch'.barred \subseteq watch.barred
  BY WatchShrinks DEF SearchInv
<1>2. Published(documents)' = Published(documents) /\ Published(chunks)' = Published(chunks)
  BY DEF indexVars, stores, catalogs, Published
<1>3. NoQuery \in Queries /\ NoQuery.pc = "idle"
  BY DEF NoQuery, Queries, Places
<1>4. query \in Queries /\ trace \in SUBSET Docs /\ ReadIsServed
  BY DEF SearchInv
<1>5. CASE BeginSearch
  <2>1. query' \in Queries /\ query'.pc = "recall" /\ trace' = trace
    BY <1>5 DEF BeginSearch, Queries, Routes, Places
  <2> QED
    BY <1>1, <1>4, <2>1, Reached
<1>6. CASE Recall
  <2>1. PICK hits \in Nearest(rows[alias] \cap query.filter) :
          query' = [query EXCEPT !.routes = @ - 1, !.found = @ \cup hits,
                                 !.pc = IF query.routes = 1 THEN "chunks" ELSE "recall",
                                 !.filter = IF query.routes = 1 THEN {} ELSE @]
    BY <1>6 DEF Recall
  <2>2. hits \subseteq Docs
    BY <1>4, <2>1 DEF Nearest, Queries
  <2> DEFINE place == IF query.routes = 1 THEN "chunks" ELSE "recall"
             filter == IF query.routes = 1 THEN {} ELSE query.filter
             routes == query.routes - 1
             found == query.found \cup hits
  <2>4. place \in {"chunks", "recall"}
    OBVIOUS
  <2>5. filter \in SUBSET Docs /\ found \in SUBSET Docs /\ routes \in Int
    BY <1>4, <2>2 DEF Queries
  <2>6. query' = [query EXCEPT !.routes = routes, !.found = found, !.pc = place, !.filter = filter]
    BY Zenon, <2>1
  <2>3. query' \in Queries /\ query'.pc \in {"chunks", "recall"}
    <3> HIDE DEF place, filter, routes, found
    <3> QED
      BY <1>4, <2>4, <2>5, <2>6 DEF Queries, Places
  <2> QED
    BY <1>1, <1>4, <1>6, <2>3, Reached DEF Recall
<1>7. CASE RecallFails
  BY <1>1, <1>3, <1>4, <1>7, Reached DEF RecallFails
<1>8. CASE GetChunks
  <2>1. /\ query' = [query EXCEPT !.pc = "documents", !.found = {d \in @ : chunks[d].state = "published"}]
        /\ trace' = trace
    BY <1>8 DEF GetChunks, QueryAt
  <2>2. /\ query' \in Queries /\ query'.pc = "documents"
        /\ query'.found = {d \in query.found : chunks[d].state = "published"}
    BY <1>4, <2>1 DEF Queries, Places
  <2>3. query'.found \subseteq Published(chunks)
    BY <1>4, <2>2 DEF Published, Queries
  <2>4. query'.found \cap watch'.unlisted = {}
    BY <1>15, <1>2, <2>2, <2>3
  <2> QED
    BY <1>1, <1>4, <2>1, <2>2, <2>4, Reached
<1>9. CASE GetDocuments
  <2> DEFINE found == {d \in query.found \cap Published(documents) : Open(d)}
  <2>1. /\ query' \in {[query EXCEPT !.pc = "select", !.found = found],
                       [query EXCEPT !.pc = "answered", !.found = found], NoQuery}
        /\ trace' = trace /\ now' = now /\ query.pc = "documents"
    BY <1>9 DEF GetDocuments, QueryAt
  <2>2. found \subseteq Docs /\ found \subseteq query.found
    BY <1>4 DEF Queries
  <2>3. query' \in Queries /\ (query'.pc = "idle" \/ (query'.pc \in {"select", "answered"} /\ query'.found = found))
    BY <1>3, <1>4, <2>1, <2>2 DEF Queries, Places
  <2>4. \A d \in Docs : Open(d)' = Open(d)
    BY <2>1 DEF Open, Accessible, PointInTime, Fits
  <2>5. found \subseteq Published(documents)' /\ found \subseteq {d \in Docs : Open(d)'}
    BY <1>2, <2>2, <2>4
  <2>6. query.found \cap watch.unlisted = {}
    BY <1>4, <2>1 DEF ReadIsServed, QueryAt
  <2>7. query'.pc # "idle" => query'.found \cap (watch'.unpublished \cup watch'.unlisted \cup watch'.barred) = {}
    <3> HIDE DEF found
    <3> QED
      BY <1>15, <1>16, <2>1, <2>2, <2>3, <2>5, <2>6
  <2> QED
    BY <1>1, <1>4, <2>1, <2>3, <2>7, Reached
<1>10. CASE SelectEvidence
  <2>1. PICK c \in Ranked(query.found), reranked \in BOOLEAN :
          query' = [query EXCEPT !.pc = "save", !.found = {c[i].doc : i \in Selected(c, TopK, reranked)}]
    BY <1>10 DEF SelectEvidence, QueryAt
  <2>2. Selected(c, TopK, reranked) \subseteq DOMAIN c
    BY SelectionKeepsProtected
  <2>3. {c[i].doc : i \in DOMAIN c} = query.found
    BY DEF Ranked
  <2>4. {c[i].doc : i \in Selected(c, TopK, reranked)} \subseteq query.found
    BY <2>2, <2>3
  <2>5. query' \in Queries /\ query'.pc = "save" /\ query'.found \subseteq query.found
    BY <1>4, <2>1, <2>4 DEF Queries, Places
  <2>6. trace' = trace /\ query.pc = "select"
    BY <1>10 DEF SelectEvidence, QueryAt
  <2>7. query'.found \cap (watch'.unpublished \cup watch'.unlisted \cup watch'.barred) = {}
    BY <1>4, <1>16, <2>5, <2>6 DEF ReadIsServed, QueryAt
  <2> QED
    BY <1>1, <1>4, <2>5, <2>6, <2>7, Reached
<1>11. CASE SaveTrace
  <2>1. /\ query.pc = "save" /\ trace' \in {trace, query.found}
        /\ query' \in {NoQuery, [query EXCEPT !.pc = "answered"]}
    BY <1>11 DEF SaveTrace, Then, QueryAt
  <2>2. trace' \in SUBSET Docs /\ query' \in Queries
        /\ (query'.pc = "idle" \/ (query'.pc = "answered" /\ query'.found = query.found))
    BY <1>3, <1>4, <2>1 DEF Queries, Places
  <2>3. query'.pc = "answered" => query'.found \cap (watch'.unpublished \cup watch'.unlisted \cup watch'.barred) = {}
    BY <1>4, <1>16, <2>1, <2>2 DEF ReadIsServed
  <2> QED
    BY <1>1, <1>4, <2>2, <2>3, Reached
<1>12. CASE BeginReuse
  <2>1. query' \in Queries /\ query'.pc = "chunks" /\ trace' = trace
    BY <1>3, <1>4, <1>12 DEF BeginReuse, Queries, Places, NoQuery
  <2> QED
    BY <1>1, <1>4, <2>1, Reached
<1>13. CASE EndQuery
  BY <1>1, <1>3, <1>4, <1>13, Reached DEF EndQuery
<1>14. CASE Tick
  BY <1>14, OtherSteps DEF Tick
<1> QED
  BY <1>5, <1>6, <1>7, <1>8, <1>9, <1>10, <1>11, <1>12, <1>13, <1>14 DEF SearchStep

LEMMA SearchInvStep == SearchInv /\ [GovernedNext]_<<indexVars, searchVars>> => SearchInv'
<1> SUFFICES ASSUME SearchInv, [GovernedNext]_<<indexVars, searchVars>> PROVE SearchInv'
  OBVIOUS
<1>1. CASE IndexNext /\ UNCHANGED <<query, trace, now, asks>> /\ Watching
  BY <1>1, OtherSteps
<1>2. CASE SearchStep /\ UNCHANGED indexVars /\ Watching
  BY <1>2, SearchSteps
<1>3. CASE UNCHANGED <<indexVars, searchVars>>
  BY <1>3 DEF SearchInv, ReadIsServed, searchVars, QueryAt
<1> QED
  BY <1>1, <1>2, <1>3 DEF GovernedNext, GovernedStep

\* Whatever publications, withdrawals and a migration of the index do between the reads of
\* a search or of a follow-up question, a user is given evidence only that was published in
\* both catalogs, and open to that user, at a moment since the request began.
THEOREM EvidenceIsServed == GovernedSpec => []FoundIsServed
<1>1. SearchInv => FoundIsServed
  BY DEF SearchInv, ReadIsServed, FoundIsServed, QueryAt
<1> QED
  BY <1>1, SearchInvInit, SearchInvStep, PTL DEF GovernedSpec

-----------------------------------------------------------------------------
(* Protected evidence *)

LEMMA Division ==
    ASSUME NEW a \in Int, NEW n \in Nat \ {0}
    PROVE  a \div n \in Int /\ a % n \in 0 .. (n - 1) /\ a = n * (a \div n) + (a % n)
OBVIOUS

\* Whole seconds are in the order of the times they are taken of.
LEMMA SecondsInOrder ==
    ASSUME NEW a \in Int, NEW b \in Int, a <= b
    PROVE  Seconds(a) \in Int /\ Seconds(b) \in Int /\ Seconds(a) <= Seconds(b)
<1>1. Second \in Nat \ {0}
  BY AccessAssumption
<1> DEFINE p == a \div Second
           q == b \div Second
<1>2. p \in Int /\ a % Second \in 0 .. (Second - 1) /\ a = Second * p + (a % Second)
  BY <1>1, Division DEF p
<1>3. q \in Int /\ b % Second \in 0 .. (Second - 1) /\ b = Second * q + (b % Second)
  BY <1>1, Division DEF q
<1>4. p <= q
  <2> SUFFICES ASSUME q + 1 <= p PROVE FALSE
    BY <1>2, <1>3
  <2>1. Second * (q + 1) <= Second * p
    BY <1>1, <1>2, <1>3
  <2>2. Second * (q + 1) = Second * q + Second
    BY <1>1, <1>3
  <2>3. Second * q \in Int /\ Second * p \in Int
    BY <1>1, <1>2, <1>3
  <2>4. \A m, n, u, v, r, s, o \in Int :
          m \in 0 .. (o - 1) /\ n \in 0 .. (o - 1) /\ r + o <= s => ~(s + m <= r + n)
    OBVIOUS
  <2>5. Second * q + Second <= Second * p
    <3> HIDE DEF p, q
    <3> QED
      BY <2>1, <2>2
  <2> HIDE DEF p, q
  <2> QED
    BY <1>1, <1>2, <1>3, <2>3, <2>4, <2>5
<1> QED
  BY <1>2, <1>3, <1>4 DEF Seconds

\* What may be read passes the filter of a search, but in the second in which it expires.
LEMMA OpenIsAdmitted ==
    ASSUME NEW d \in Docs, now \in Int, Open(d), ~Expiring(d)
    PROVE  Admits(Row(Facts[d]), Asker, Asked, now)
<1> DEFINE record == Facts[d]
           point == PointInTime(Asked, now)
           row == Row(record)
<1>1. point \in Int /\ record.effective \in Int /\ record.expires \in Int \cup {Never} /\ Never \notin Int
  BY FactsAssumption, AccessAssumption DEF PointInTime
<1>2. /\ row.published = TRUE /\ row.approved = record.approved
      /\ row.effective = Seconds(record.effective)
      /\ row.expires = IF record.expires = Never THEN 0 ELSE Seconds(record.expires)
      /\ row.key = record.key /\ row.of = record.of
  BY FactsAssumption DEF Row
<1>3. /\ record.approved /\ record.effective <= point
      /\ record.expires = Never \/ record.expires > point
      /\ \/ Asker.admin
         \/ /\ record.key \in Asker.keys
            /\ \A f \in Granted : record.of[f] # Empty => record.of[f] \in Asker.granted[f]
      /\ Fits(record.of, Asked)
  <2>1. [record EXCEPT !.published = TRUE] = record
    BY FactsAssumption
  <2> QED
    BY <2>1 DEF Open, Accessible
<1>4. record.expires # Never => Seconds(record.expires) # Seconds(point)
  BY DEF Expiring
<1> HIDE DEF point, row, record
<1>5. Seconds(record.effective) <= Seconds(point)
  BY <1>1, <1>3, SecondsInOrder
<1>6. row.expires = 0 \/ row.expires > Seconds(point)
  <2>1. CASE record.expires = Never
    BY <1>2, <2>1
  <2>2. CASE record.expires # Never
    <3>1. record.expires \in Int /\ point <= record.expires
      BY <1>1, <1>3, <2>2
    <3>2. Seconds(record.expires) \in Int /\ Seconds(point) \in Int /\ Seconds(point) <= Seconds(record.expires)
      BY <1>1, <3>1, SecondsInOrder
    <3> QED
      BY <1>2, <1>4, <2>2, <3>2
  <2> QED
    BY <2>1, <2>2
<1>7. \/ Asker.admin
      \/ /\ row.key \in Asker.keys
         /\ \A f \in Granted : row.of[f] = Empty \/ row.of[f] \in Asker.granted[f]
  BY <1>2, <1>3
<1> QED
  BY <1>2, <1>3, <1>5, <1>6, <1>7 DEF Admits, point, row, record

\* One route finds all the rows that the filter admits if they are no more than it may find.
LEMMA AllAreNearest ==
    ASSUME IsFiniteSet(Docs), Cardinality(Docs) <= RecallK, NEW S \in SUBSET Docs, NEW N \in Nearest(S)
    PROVE  N = S
<1>1. IsFiniteSet(S) /\ Cardinality(S) \in Nat /\ Cardinality(Docs) \in Nat /\ Cardinality(S) <= Cardinality(Docs)
  BY FS_Subset, FS_CardinalityType
<1>2. N \subseteq S /\ Cardinality(N) = Cardinality(S)
  BY <1>1, SearchAssumption DEF Nearest, Smaller
<1> QED
  BY <1>1, <1>2, FS_Subset

\* What could be found throughout a search has passed its filter; once the routes are
\* searched it is among what they found; once the evidence is selected, the protected part is.
HeldOn ==
    query.kind = "search" =>
      /\ QueryAt("recall") => watch.findable \subseteq query.filter
      /\ query.pc \in {"chunks", "documents", "select"} => watch.findable \subseteq query.found
      /\ query.pc \in {"save", "answered"} => Guarded \cap watch.findable \subseteq query.found

ProtectedInv == SearchInv /\ now \in Int /\ HeldOn

LEMMA HeldReached ==
    ASSUME \/ query'.pc = "idle" \/ query'.kind # "search"
           \/ query'.pc = "recall" /\ watch'.findable \subseteq query'.filter
           \/ query'.pc \in {"chunks", "documents", "select"} /\ watch'.findable \subseteq query'.found
           \/ query'.pc \in {"save", "answered"} /\ Guarded \cap watch'.findable \subseteq query'.found
    PROVE  HeldOn'
BY DEF HeldOn, QueryAt

LEMMA HeldByOthers ==
    ASSUME ProtectedInv, Watching, UNCHANGED query
    PROVE  HeldOn'
<1>1. query.pc # "idle" => watch'.findable \subseteq watch.findable
  BY WatchShrinks DEF ProtectedInv, SearchInv
<1> QED
  BY <1>1 DEF ProtectedInv, HeldOn, QueryAt

LEMMA HeldBySearch ==
    ASSUME IsFiniteSet(Docs), Cardinality(Docs) <= RecallK,
           ProtectedInv, SearchStep, UNCHANGED indexVars, Watching
    PROVE  HeldOn' /\ now' \in Int
<1>1. now' \in Int
  <2>1. now' = now \/ now' = now + 1
    BY DEF SearchStep, BeginSearch, Recall, RecallFails, GetChunks, GetDocuments,
       SelectEvidence, SaveTrace, BeginReuse, EndQuery, Tick
  <2> QED
    BY <2>1 DEF ProtectedInv
<1>2. query'.pc # "idle" => watch'.findable \subseteq Findable'
  BY WatchShrinks DEF ProtectedInv, SearchInv
<1>3. query'.pc # "idle" /\ query.pc # "idle" => watch'.findable \subseteq watch.findable
  BY WatchShrinks DEF ProtectedInv, SearchInv
<1>4. now' = now => Findable' = Findable
  BY DEF Findable, Published, Open, Accessible, PointInTime, Fits, Expiring, Seconds,
     indexVars, stores, catalogs
<1>5. query \in Queries /\ HeldOn
  BY DEF ProtectedInv, SearchInv
<1>6. CASE BeginSearch
  <2>1. /\ query'.pc = "recall" /\ now' = now
        /\ query'.filter = {d \in Docs : Admits(Row(Facts[d]), Asker, Asked, now)}
    BY <1>6 DEF BeginSearch
  <2>2. \A d \in Findable : d \in Docs /\ Open(d) /\ ~Expiring(d)
    BY DEF Findable, Published
  <2>3. Findable \subseteq query'.filter
    BY <2>1, <2>2, OpenIsAdmitted DEF ProtectedInv
  <2> QED
    BY <1>1, <1>2, <1>4, <2>1, <2>3, HeldReached
<1>7. CASE Recall
  <2>1. /\ query.pc = "recall" /\ now' = now
        /\ \E hits \in Nearest(rows[alias] \cap query.filter) :
             query' = [query EXCEPT !.routes = @ - 1, !.found = @ \cup hits,
                                    !.pc = IF query.routes = 1 THEN "chunks" ELSE "recall",
                                    !.filter = IF query.routes = 1 THEN {} ELSE @]
    BY <1>7 DEF Recall, QueryAt
  <2>2. PICK hits \in Nearest(rows[alias] \cap query.filter) :
             query' = [query EXCEPT !.routes = @ - 1, !.found = @ \cup hits,
                                    !.pc = IF query.routes = 1 THEN "chunks" ELSE "recall",
                                    !.filter = IF query.routes = 1 THEN {} ELSE @]
    BY <2>1
  <2>3. hits = rows[alias] \cap query.filter
    <3>1. rows[alias] \cap query.filter \in SUBSET Docs
      BY <1>5 DEF Queries
    <3> QED
      BY <3>1, <2>2, AllAreNearest
  <2>4. /\ query.routes = 1 => query'.pc = "chunks" /\ query'.found = query.found \cup hits
        /\ query.routes # 1 => query'.pc = "recall" /\ query'.filter = query.filter
        /\ query'.kind = query.kind
    BY <1>5, <2>2 DEF Queries
  <2>5. query.kind = "search" => watch.findable \subseteq query.filter
    BY <1>5, <2>1 DEF HeldOn, QueryAt
  <2>6. watch'.findable \subseteq watch.findable /\ watch'.findable \subseteq rows[alias]
    BY <1>2, <1>3, <1>4, <2>1, <2>4 DEF Findable
  <2> QED
    BY <1>1, <2>3, <2>4, <2>5, <2>6, HeldReached
<1>8. CASE RecallFails \/ EndQuery
  BY <1>1, <1>8, HeldReached DEF RecallFails, EndQuery, NoQuery
<1>9. CASE GetChunks
  <2>1. /\ query.pc = "chunks" /\ now' = now /\ query'.pc = "documents" /\ query'.kind = query.kind
        /\ query'.found = {d \in query.found : chunks[d].state = "published"}
    BY <1>5, <1>9 DEF GetChunks, QueryAt, Queries
  <2>2. watch'.findable \subseteq watch.findable /\ watch'.findable \subseteq Published(chunks)
    BY <1>2, <1>3, <1>4, <2>1 DEF Findable
  <2>3. query.kind = "search" => watch.findable \subseteq query.found
    BY <1>5, <2>1 DEF HeldOn
  <2> QED
    BY <1>1, <2>1, <2>2, <2>3, HeldReached DEF Published
<1>10. CASE GetDocuments
  <2> DEFINE found == {d \in query.found \cap Published(documents) : Open(d)}
  <2>1. /\ query.pc = "documents" /\ now' = now
        /\ query' = IF query.kind = "search" THEN [query EXCEPT !.pc = "select", !.found = found]
                    ELSE IF found = trace THEN [query EXCEPT !.pc = "answered", !.found = found]
                    ELSE NoQuery
    BY <1>10 DEF GetDocuments, QueryAt
  <2>2. CASE query.kind = "search"
    <3>1. query'.pc = "select" /\ query'.found = found
      BY <1>5, <2>1, <2>2 DEF Queries
    <3>2. watch'.findable \subseteq watch.findable /\ watch'.findable \subseteq Findable
      BY <1>2, <1>3, <1>4, <2>1, <3>1
    <3>3. watch.findable \subseteq query.found
      BY <1>5, <2>1, <2>2 DEF HeldOn
    <3>4. watch'.findable \subseteq found
      BY <3>2, <3>3 DEF Findable
    <3> QED
      BY <1>1, <3>1, <3>4, HeldReached
  <2>3. CASE query.kind # "search"
    <3>1. query'.kind # "search"
      <4> HIDE DEF found
      <4> QED
        BY <1>5, <2>1, <2>3 DEF Queries, NoQuery
    <3> QED
      BY <1>1, <3>1, HeldReached
  <2> QED
    BY <2>2, <2>3
<1>11. CASE SelectEvidence
  <2>1. PICK c \in Ranked(query.found), reranked \in BOOLEAN :
          query' = [query EXCEPT !.pc = "save", !.found = {c[i].doc : i \in Selected(c, TopK, reranked)}]
    BY <1>11 DEF SelectEvidence
  <2>2. /\ query'.pc = "save" /\ query'.kind = query.kind /\ query.pc = "select"
        /\ query'.found = {c[i].doc : i \in Selected(c, TopK, reranked)}
    BY <1>5, <1>11, <2>1 DEF Queries, SelectEvidence, QueryAt
  <2>3. \A d \in Guarded \cap query.found : \E i \in Protected(c, DOMAIN c) : c[i].doc = d
    BY DEF Ranked, Protected
  <2>4. Protected(c, DOMAIN c) \subseteq Selected(c, TopK, reranked)
    BY SelectionKeepsProtected
  <2>5. Guarded \cap query.found \subseteq query'.found
    BY <2>2, <2>3, <2>4
  <2>6. query.kind = "search" => watch.findable \subseteq query.found
    BY <1>5, <2>2 DEF HeldOn
  <2> QED
    BY <1>1, <1>3, <2>2, <2>5, <2>6, HeldReached
<1>12. CASE SaveTrace
  <2>1. \/ query'.pc = "idle"
        \/ /\ query'.pc = "answered" /\ query'.kind = query.kind /\ query'.found = query.found
           /\ query.pc = "save"
    BY <1>5, <1>12 DEF SaveTrace, Then, QueryAt, Queries, NoQuery
  <2>2. query.pc = "save" /\ query.kind = "search" => Guarded \cap watch.findable \subseteq query.found
    BY <1>5 DEF HeldOn
  <2> QED
    BY <1>1, <1>3, <2>1, <2>2, HeldReached
<1>13. CASE BeginReuse
  BY <1>1, <1>13, HeldReached DEF BeginReuse, NoQuery
<1>14. CASE Tick
  BY <1>1, <1>14, HeldByOthers DEF Tick
<1> QED
  BY <1>6, <1>7, <1>8, <1>9, <1>10, <1>11, <1>12, <1>13, <1>14 DEF SearchStep

\* In a knowledge base of no more documents than a route may find, protected evidence that
\* could be found throughout a search is in its evidence, whatever its score, the other
\* candidates and the interleaving of the search with writers, switches and roll-backs of
\* the index (search and _retain_protected of production_service.py, build_access_filter).
THEOREM ProtectedStaysFound ==
    ASSUME IsFiniteSet(Docs), Cardinality(Docs) <= RecallK
    PROVE  GovernedSpec => []ProtectedIsFound
<1>1. GovernedInit => ProtectedInv
  <2> SUFFICES ASSUME GovernedInit PROVE ProtectedInv
    OBVIOUS
  <2>1. query.kind = "none" /\ now \in Int
    BY SearchAssumption DEF GovernedInit, SearchInit, NoQuery
  <2> QED
    BY <2>1, SearchInvInit DEF ProtectedInv, HeldOn
<1>2. SearchInv /\ [GovernedNext]_<<indexVars, searchVars>> => SearchInv'
  BY SearchInvStep
<1>3. ProtectedInv /\ [GovernedNext]_<<indexVars, searchVars>> => ProtectedInv'
  <2> SUFFICES ASSUME ProtectedInv, [GovernedNext]_<<indexVars, searchVars>> PROVE HeldOn' /\ now' \in Int
    BY <1>2 DEF ProtectedInv
  <2>1. CASE IndexNext /\ UNCHANGED <<query, trace, now, asks>> /\ Watching
    BY <2>1, HeldByOthers DEF ProtectedInv
  <2>2. CASE SearchStep /\ UNCHANGED indexVars /\ Watching
    BY <2>2, HeldBySearch
  <2>3. CASE UNCHANGED <<indexVars, searchVars>>
    BY <2>3 DEF ProtectedInv, HeldOn, searchVars, QueryAt
  <2> QED
    BY <2>1, <2>2, <2>3 DEF GovernedNext, GovernedStep
<1>4. ProtectedInv => ProtectedIsFound
  BY DEF ProtectedInv, HeldOn, ProtectedIsFound, QueryAt
<1> QED
  BY <1>1, <1>3, <1>4, PTL DEF GovernedSpec

-----------------------------------------------------------------------------
(* The index and the catalogs: their types *)

Record == [state : {"absent", "published", "hidden"}, version : Versions]

\* What a writer has yet to write.
Writes ==
    {Publication, <<"chunks", "rows", "alias", "release">>, <<"rows", "alias", "release">>,
     <<"alias", "release">>, <<"release">>,
     Restoration, <<"chunks", "rows", "alias">>, <<"rows", "alias">>, <<"alias">>,
     Withdrawal, <<"hide_chunks", "delete_rows">>, <<"delete_rows">>, <<>>}

\* The steps of a command up to the switch, once its plan is made.
Planned ==
    {"provision", "candidate", "load", "recount", "recount_chunks", "upsert", "verify", "record",
     "check_alias", "switch"}

\* Its steps from the loading of the chunks to their change in chunk_catalog.
Loaded == {"recount", "recount_chunks", "upsert", "verify", "switch", "documents", "chunks"}

MigPlaces == {"idle", "plan", "plan_chunks"} \cup Planned \cup Switching

IsPlan(p) ==
    /\ p = [f \in DOMAIN NoPlan |-> p[f]]
    /\ p.source \in Versions /\ p.documents \subseteq Docs

StoreTypes ==
    /\ documents \in [Docs -> Record] /\ chunks \in [Docs -> Record]
    /\ rows \in [Versions -> SUBSET Docs]
    /\ alias \in Versions /\ configured \in Versions
    /\ release = [v \in Versions |-> [status |-> release[v].status, count |-> release[v].count]]

WriterTypes ==
    /\ writer = [kind |-> writer.kind, doc |-> writer.doc, version |-> writer.version, todo |-> writer.todo]
    /\ writer.todo \in Writes /\ writer.version \in Versions
    /\ \/ writer.doc = {} /\ writer.todo = <<>>
       \/ \E d \in Docs : writer.doc = {d} /\ writer.todo # <<>>

MigTypes ==
    /\ mig = [f \in DOMAIN NoCommand |-> mig[f]]
    /\ mig.pc \in MigPlaces /\ IsPlan(mig.read) /\ IsPlan(mig.plan) /\ mig.loaded \subseteq Docs
    /\ mig.plan.source = Source
    /\ mig.pc # "idle" => mig.outcome = "none"
    /\ mig.pc \in Planned \cup Switching => Source # Target
    /\ mig.pc \in Publishing \cup {"restore_alias"} => mig.switched
    /\ mig.pc \in Loaded => Cardinality(mig.loaded) = mig.plan.chunks

PastTypes == past = [f \in {"moved", "swapped", "strayed", "broken"} |-> past[f]]

IndexTypes == StoreTypes /\ WriterTypes /\ MigTypes /\ PastTypes

LEMMA TodoCases ==
    ASSUME NEW t \in Writes, t # <<>>
    PROVE  /\ t[1] = Head(t) /\ Tail(t) \in Writes
           /\ Len(t) = 1 <=> Tail(t) = <<>>
           /\ Len(t) = 1 => t \in {<<"release">>, <<"alias">>, <<"delete_rows">>}
           /\ Head(t) = "alias" <=> t \in {<<"alias", "release">>, <<"alias">>}
           /\ Head(t) = "release" <=> t = <<"release">>
           /\ Head(t) = "hide_chunks" <=> t = <<"hide_chunks", "delete_rows">>
           /\ Head(t) = "delete_rows" <=> t = <<"delete_rows">>
           /\ Tail(t) = <<"release">> => Head(t) = "alias"
           /\ Tail(t) \in {<<"alias", "release">>, <<"alias">>} => Head(t) = "rows"
           /\ Tail(t) = <<"hide_chunks", "delete_rows">> => Head(t) = "hide_document"
           /\ Tail(t) = <<"delete_rows">> => Head(t) = "hide_chunks"
  <1> USE DEF Writes, Publication, Restoration, Withdrawal
  <1>1. CASE t = Publication
    BY <1>1
  <1>2. CASE t = <<"chunks", "rows", "alias", "release">>
    BY <1>2
  <1>3. CASE t = <<"rows", "alias", "release">>
    BY <1>3
  <1>4. CASE t = <<"alias", "release">>
    BY <1>4
  <1>5. CASE t = <<"release">>
    BY <1>5
  <1>6. CASE t = Restoration
    BY <1>6
  <1>7. CASE t = <<"chunks", "rows", "alias">>
    BY <1>7
  <1>8. CASE t = <<"rows", "alias">>
    BY <1>8
  <1>9. CASE t = <<"alias">>
    BY <1>9
  <1>10. CASE t = Withdrawal
    BY <1>10
  <1>11. CASE t = <<"hide_chunks", "delete_rows">>
    BY <1>11
  <1>12. CASE t = <<"delete_rows">>
    BY <1>12
  <1> QED
    BY <1>1, <1>2, <1>3, <1>4, <1>5, <1>6, <1>7, <1>8, <1>9, <1>10, <1>11, <1>12

\* What a writer may do to the stores with one write.
LEMMA WriteMoves ==
    ASSUME IndexTypes, NEW d \in writer.doc, Write(d)
    PROVE  /\ d \in Docs
           /\ \/ Head(writer.todo) = "document" /\ UNCHANGED <<chunks, rows, alias, release>>
                 /\ documents' = [documents EXCEPT ![d] = [state |-> "published", version |-> writer.version]]
              \/ Head(writer.todo) = "hide_document" /\ UNCHANGED <<chunks, rows, alias, release>>
                 /\ documents' = [documents EXCEPT ![d].state = "hidden"]
              \/ Head(writer.todo) = "chunks" /\ UNCHANGED <<documents, rows, alias, release>>
                 /\ chunks' = [chunks EXCEPT ![d] = [state |-> "published", version |-> writer.version]]
              \/ Head(writer.todo) = "hide_chunks" /\ UNCHANGED <<documents, rows, alias, release>>
                 /\ chunks' = [chunks EXCEPT ![d].state = "hidden"]
              \/ Head(writer.todo) = "rows" /\ UNCHANGED <<documents, chunks, alias, release>>
                 /\ rows' = [rows EXCEPT ![writer.version] = @ \cup {d}]
              \/ Head(writer.todo) = "delete_rows" /\ UNCHANGED <<documents, chunks, alias, release>>
                 /\ rows' = [rows EXCEPT ![RowsAt(d)] = @ \ {d}]
              \/ Head(writer.todo) = "alias" /\ UNCHANGED <<documents, chunks, rows, release>>
                 /\ alias' = writer.version
              \/ Head(writer.todo) = "release" /\ UNCHANGED <<documents, chunks, rows, alias>>
                 /\ release' = [release EXCEPT ![writer.version].status = "active"]
  BY DEF Write, WriteDocument, WriteChunks, WriteRows, Activated, catalogs, IndexTypes,
     WriterTypes

LEMMA WriteTyped ==
    ASSUME IndexTypes, NEW d \in writer.doc, Write(d) \/ UNCHANGED stores, configured' = configured
    PROVE  StoreTypes'
  <1>1. CASE Write(d)
    <2>1. d \in Docs /\ writer.version \in Versions /\ RowsAt(d) \in Versions
      BY DEF IndexTypes, WriterTypes, StoreTypes, Record, RowsAt
    <2>2. configured' \in Versions
      BY DEF IndexTypes, StoreTypes
    <2>3. documents' \in [Docs -> Record] /\ chunks' \in [Docs -> Record]
      <3>1. [state |-> "published", version |-> writer.version] \in Record
        BY <2>1 DEF Record
      <3>2. /\ documents[d] \in Record /\ chunks[d] \in Record
            /\ documents \in [Docs -> Record] /\ chunks \in [Docs -> Record]
        BY <2>1 DEF IndexTypes, StoreTypes
      <3>3. \A r \in Record : [r EXCEPT !.state = "hidden"] \in Record
        BY DEF Record
      <3>4. documents' = documents \/ \E r \in Record : documents' = [documents EXCEPT ![d] = r]
        BY <1>1, <3>1, <3>2, <3>3, WriteMoves
      <3>5. chunks' = chunks \/ \E r \in Record : chunks' = [chunks EXCEPT ![d] = r]
        BY <1>1, <3>1, <3>2, <3>3, WriteMoves
      <3> QED
        BY <2>1, <3>2, <3>4, <3>5
    <2>4. rows' \in [Versions -> SUBSET Docs]
      <3>1. \A v \in Versions : rows[v] \subseteq Docs
        BY DEF IndexTypes, StoreTypes
      <3>2. \/ rows' = rows
            \/ rows' = [rows EXCEPT ![writer.version] = rows[writer.version] \cup {d}]
            \/ rows' = [rows EXCEPT ![RowsAt(d)] = rows[RowsAt(d)] \ {d}]
        BY <1>1, WriteMoves
      <3> QED
        BY <2>1, <3>1, <3>2 DEF IndexTypes, StoreTypes
    <2>5. alias' \in Versions
      BY <1>1, <2>1, WriteMoves DEF IndexTypes, StoreTypes
    <2>6. release' = [v \in Versions |-> [status |-> release'[v].status, count |-> release'[v].count]]
      BY <1>1, <2>1, WriteMoves DEF IndexTypes, StoreTypes
    <2> QED
      BY <2>2, <2>3, <2>4, <2>5, <2>6 DEF StoreTypes
  <1>2. CASE UNCHANGED stores
    BY <1>2 DEF IndexTypes, StoreTypes, stores, catalogs
  <1> QED
    BY <1>1, <1>2

\* A writer takes up a document, writes, or fails.
WriterMoves == (\E d \in Docs : BeginWrite(d)) \/ WriteStep \/ WriteFault

LEMMA WriterTyped ==
    ASSUME IndexTypes, WriterMoves
    PROVE  IndexTypes'
  <1> USE DEF IndexTypes
  <1>1. mig' = mig /\ configured' = configured
    BY DEF WriterMoves, BeginWrite, WriteStep, WriteFault
  <1>2. MigTypes'
    BY <1>1 DEF MigTypes
  <1>3. CASE \E d \in Docs : BeginWrite(d)
    <2>1. PICK d \in Docs : BeginWrite(d)
      BY <1>3
    <2>2. StoreTypes' /\ PastTypes'
      BY <2>1 DEF BeginWrite, StoreTypes, PastTypes, stores, catalogs
    <2>3. WriterTypes'
      <3>1. Publication # <<>> /\ Restoration # <<>> /\ Withdrawal # <<>>
        BY DEF Publication, Restoration, Withdrawal
      <3>2. {Publication, Restoration, Withdrawal} \subseteq Writes
        BY DEF Writes
      <3>3. configured \in Versions /\ Source \in Versions
        BY DEF StoreTypes, Versions
      <3> HIDE DEF Publication, Restoration, Withdrawal, Writes
      <3> QED
        BY <2>1, <3>1, <3>2, <3>3 DEF BeginWrite, WriterTypes
    <2> QED
      BY <1>2, <2>2, <2>3
  <1>4. Idle = [kind |-> Idle.kind, doc |-> {}, version |-> Source, todo |-> <<>>]
        /\ Source \in Versions /\ <<>> \in Writes
    BY DEF Idle, Versions, Writes
  <1>5. CASE WriteStep
    <2>1. PICK d \in writer.doc : Write(d)
      BY <1>5 DEF WriteStep
    <2>2. StoreTypes'
      BY <1>1, <2>1, WriteTyped
    <2>3. writer.todo \in Writes /\ writer.todo # <<>>
      BY <1>5 DEF WriteStep, WriterTypes
    <2>4. Tail(writer.todo) \in Writes /\ (Len(writer.todo) # 1 => Tail(writer.todo) # <<>>)
      BY <2>3, TodoCases
    <2>5. WriterTypes'
      <3> HIDE DEF Writes
      <3> DEFINE rest == Tail(writer.todo)
                 last == Len(writer.todo) = 1
      <3>1. writer' = IF last THEN Idle ELSE [writer EXCEPT !.todo = rest]
        BY <1>5 DEF WriteStep
      <3>2. rest \in Writes /\ (~last => rest # <<>>)
        BY <2>4
      <3> HIDE DEF rest, last
      <3> QED
        BY <1>4, <2>3, <3>1, <3>2 DEF WriterTypes
    <2>6. PastTypes'
      BY <1>5 DEF WriteStep, Remember, PastTypes
    <2> QED
      BY <1>2, <2>2, <2>5, <2>6
  <1>6. CASE WriteFault
    <2>1. PICK d \in writer.doc : Write(d) \/ UNCHANGED stores
      BY <1>6 DEF WriteFault
    <2>2. StoreTypes'
      BY <1>1, <2>1, WriteTyped
    <2>3. {<<>>, Withdrawal, <<"delete_rows">>} \subseteq Writes
      BY DEF Writes
    <2>4. AfterRaise \in {<<>>, Withdrawal, <<"delete_rows">>}
      BY DEF AfterRaise
    <2>5. PICK rest \in {<<>>, Withdrawal, <<"delete_rows">>} :
             /\ writer' = IF rest = <<>> THEN Idle ELSE [writer EXCEPT !.todo = rest]
             /\ Remember(IF rest = Withdrawal THEN {} ELSE writer.doc)
      BY <1>6, <2>4 DEF WriteFault
    <2>6. WriterTypes'
      <3> HIDE DEF Writes, Withdrawal
      <3> QED
        BY <1>4, <1>6, <2>3, <2>5 DEF WriterTypes, WriteFault
    <2>7. PastTypes'
      BY <2>5 DEF Remember, PastTypes
    <2> QED
      BY <1>2, <2>2, <2>6, <2>7
  <1> QED
    BY <1>3, <1>5, <1>6 DEF WriterMoves

\* What a step of a command writes.
LEMMA MakeTyped ==
    ASSUME IndexTypes, Make \/ UNCHANGED stores, configured' = configured
    PROVE  StoreTypes'
  <1> USE DEF IndexTypes
  <1>1. CASE UNCHANGED stores
    BY <1>1 DEF StoreTypes, stores, catalogs
  <1>2. Source \in Versions /\ Target \in Versions /\ mig.plan.source \in Versions
    BY DEF MigTypes, IsPlan, Versions
  <1>3. CASE MakeRows /\ UNCHANGED <<catalogs, alias, release>>
    BY <1>2, <1>3 DEF MakeRows, StoreTypes, catalogs, MigTypes
  <1>4. CASE MakeAlias /\ UNCHANGED <<catalogs, rows, release>>
    BY <1>2, <1>4 DEF MakeAlias, StoreTypes, catalogs
  <1>5. \A catalog \in [Docs -> Record], v \in Versions : Versioned(catalog, v) \in [Docs -> Record]
    BY DEF Versioned, Record
  <1>6. CASE MakeDocuments /\ UNCHANGED <<chunks, rows, alias, release>>
    BY <1>2, <1>5, <1>6 DEF MakeDocuments, StoreTypes
  <1>7. CASE MakeChunks /\ UNCHANGED <<documents, rows, alias, release>>
    BY <1>2, <1>5, <1>7 DEF MakeChunks, StoreTypes
  <1>8. CASE MakeRelease /\ UNCHANGED <<catalogs, rows, alias>>
    BY <1>2, <1>8, SMTT(60) DEF MakeRelease, SetStatus, StoreTypes, catalogs
  <1> QED
    BY <1>1, <1>3, <1>4, <1>6, <1>7, <1>8 DEF Make

\* A command begins, makes a step, fails or is lost.
CommandMoves ==
    \/ \E command \in {"build", "publish"} : Begin(command)
    \/ Command \/ CommandFault \/ CommandLost

LEMMA CommandTyped ==
    ASSUME IndexTypes, CommandMoves
    PROVE  IndexTypes'
  <1> USE DEF IndexTypes
  <1>1. configured' = configured /\ writer' = writer
    BY DEF CommandMoves, Begin, Command, CommandFault, CommandLost, PlanDocuments, PlanChunks,
       Provision,
           VerifyCandidate, Load, VerifySnapshot, Upsert, VerifyRows, RecordCandidate, CheckAlias,
           SwitchAlias, UpdateDocuments, UpdateChunks, UpdateReleases, Confirm, RestoreAlias, RestoreCatalogs
  <1>2. WriterTypes'
    BY <1>1 DEF WriterTypes
  <1>3. Make \/ UNCHANGED stores
    BY DEF CommandMoves, Begin, Command, CommandFault, CommandLost, PlanDocuments, PlanChunks,
       Provision,
           VerifyCandidate, Load, VerifySnapshot, Upsert, VerifyRows, RecordCandidate, CheckAlias,
           SwitchAlias, UpdateDocuments, UpdateChunks, UpdateReleases, Confirm, RestoreAlias, RestoreCatalogs
  <1>4. StoreTypes'
    BY <1>1, <1>3, MakeTyped
  <1>5. PastTypes'
    <2>1. \/ past' = past \/ (\E b : past' = [past EXCEPT !.swapped = b])
          \/ (\E b : past' = [past EXCEPT !.strayed = b])
      BY DEF CommandMoves, Begin, Command, CommandFault, CommandLost, PlanDocuments,
         PlanChunks, Provision,
           VerifyCandidate, Load, VerifySnapshot, Upsert, VerifyRows, RecordCandidate, CheckAlias,
           SwitchAlias, UpdateDocuments, UpdateChunks, UpdateReleases, Confirm, RestoreAlias, RestoreCatalogs
    <2> QED
      BY <2>1 DEF PastTypes
  <1>6. MigTypes'
    <2> DEFINE Fields == DOMAIN NoCommand
    <2>a. /\ Fields = {"pc", "command", "read", "plan", "loaded", "switched", "errors", "outcome"}
          /\ DOMAIN NoPlan = {"source", "documents", "chunks"}
      BY DEF NoCommand, NoPlan
    <2>b. IsPlan(NoPlan) /\ NoPlan.source = Source
      BY DEF IsPlan, NoPlan, Versions
    <2> DEFINE Going == Planned \cup Switching
               Held == Publishing \cup {"restore_alias"}
    <2>k. "idle" \notin Going \cup Held \cup Loaded /\ Held \subseteq Going
      BY DEF Planned, Switching, Publishing, RollingBack, Loaded
    <2>c. Published(documents) \subseteq Docs /\ Published(chunks) \subseteq Docs /\ alias \in Versions
      BY DEF Published, StoreTypes
    <2>d. /\ IsPlan([source |-> alias, documents |-> Published(documents), chunks |-> 0])
          /\ IsPlan([mig.read EXCEPT !.documents = Published(documents)])
          /\ IsPlan(Plan)
      BY <2>a, <2>c DEF IsPlan, Plan, MigTypes
    <2>e. \A outcome : End(outcome) => MigTypes'
      BY <2>a, <2>b, <2>k DEF End, NoCommand, MigTypes, MigPlaces
    <2>f. \A pc \in MigPlaces :
             /\ Goto(pc) /\ mig.pc # "idle"
             /\ pc \in Held => mig.switched
             /\ pc \in Going => mig.pc \in Going
             /\ pc \in Loaded => mig.pc \in Loaded
             => MigTypes'
      BY <2>a DEF Goto, MigTypes
    <2>g. Rollback /\ mig.pc \in Going => MigTypes'
      BY <2>f, <2>k DEF Rollback, MigPlaces, Switching, RollingBack, Publishing, Loaded
    <2>h. Refuse => MigTypes'
      BY <2>e DEF Refuse
    <2> USE DEF MigTypes
    <2>1. CASE \E command \in {"build", "publish"} : Begin(command)
      <3>1. PICK command : mig' = [NoCommand EXCEPT !.pc = "plan", !.command = command]
        BY <2>1 DEF Begin
      <3>2. mig' = [f \in Fields |-> mig'[f]]
        BY <3>1, <2>a DEF NoCommand
      <3>3. mig'.pc = "plan" /\ mig'.read = NoPlan /\ mig'.plan = NoPlan /\ mig'.loaded = {}
            /\ mig'.outcome = "none"
        BY <3>1 DEF NoCommand
      <3>4. "plan" \in MigPlaces /\ "plan" \notin Going \cup Held \cup Loaded
        BY DEF MigPlaces, Planned, Switching, Publishing, RollingBack, Loaded
      <3> QED
        BY <3>2, <3>3, <3>4, <2>a, <2>b
    <2>2. CASE PlanDocuments
      <3> DEFINE read == [source |-> alias, documents |-> Published(documents), chunks |-> 0]
      <3>1. \/ Refuse
            \/ \E pc \in {"plan_chunks", "recount_chunks"} :
                 /\ mig.pc = IF pc = "plan_chunks" THEN "plan" ELSE "recount"
                 /\ mig' = [mig EXCEPT !.pc = pc, !.read = read]
        BY <2>2 DEF PlanDocuments
      <3>2. IsPlan(read)
        BY <2>d
      <3> HIDE DEF read
      <3> QED
        BY <3>1, <3>2, <2>a, <2>h DEF MigPlaces, Planned, Switching, Publishing, RollingBack,
           Loaded
    <2>3. CASE PlanChunks
      <3>1. IsPlan(Plan) /\ Plan.source = mig.read.source /\ mig.read.source \in {Source, Target}
        BY <2>d DEF Plan, IsPlan, NoPlan, Versions
      <3>2. \/ Refuse
            \/ \E pc \in {"provision", "candidate"} :
                 mig.read.source # Target /\ mig' = [mig EXCEPT !.pc = pc, !.plan = Plan]
        BY <2>3 DEF PlanChunks
      <3> HIDE DEF Plan
      <3> QED
        BY <3>1, <3>2, <2>a, <2>h, <2>3
           DEF PlanChunks, At, MigPlaces, Planned, Switching, Publishing, RollingBack, Loaded
    <2>4. CASE Provision \/ VerifyCandidate
      BY <2>4, <2>f, <2>h DEF Provision, VerifyCandidate, At, MigPlaces, Planned, Switching,
         Publishing, RollingBack, Loaded
    <2>5. CASE Load
      BY <2>5, <2>a, <2>c, <2>h, ZenonT(60) DEF Load, At, MigPlaces, Planned, Switching, Publishing,
         RollingBack, Loaded
    <2>6. CASE VerifySnapshot \/ Upsert \/ VerifyRows \/ RecordCandidate
      BY <2>6, <2>f, <2>h DEF VerifySnapshot, Upsert, VerifyRows, RecordCandidate, At,
         MigPlaces, Planned, Switching, Publishing, RollingBack, Loaded
    <2>7. CASE CheckAlias
      BY <2>7, <2>e, <2>h DEF CheckAlias
    <2>8. CASE SwitchAlias
      BY <2>8, <2>a DEF SwitchAlias, At, MigPlaces, Planned, Switching, Publishing,
         RollingBack, Loaded
    <2>9. CASE UpdateDocuments
      BY <2>9, <2>a, <2>d DEF UpdateDocuments, At, MigPlaces, Planned, Switching, Publishing,
         RollingBack, Loaded
    <2>10. CASE UpdateChunks \/ UpdateReleases
      BY <2>10, <2>f, <2>g DEF UpdateChunks, UpdateReleases, At, MigPlaces, Planned, Switching,
         Publishing, RollingBack, Loaded
    <2>11. CASE Confirm
      BY <2>11, <2>e, <2>g DEF Confirm, At, Switching, Publishing
    <2>12. CASE RestoreAlias \/ RestoreCatalogs
      BY <2>12, <2>e, <2>f DEF RestoreAlias, RestoreCatalogs, At, MigPlaces, Planned,
         Switching, Publishing, RollingBack, Loaded
    <2>13. CASE CommandFault
      <3>1. CASE mig.pc \in Publishing \cup {"switch"}
        BY <2>13, <3>1, <2>g DEF CommandFault, At, Planned, Switching, Publishing, RollingBack
      <3>2. CASE mig.pc = "restore_alias"
        BY <2>13, <3>2, <2>a, ZenonT(60) DEF CommandFault, At, MigPlaces, Planned, Switching, Publishing,
           RollingBack, Loaded
      <3>3. CASE mig.pc \notin Publishing \cup {"switch", "restore_alias"}
        BY <2>13, <3>3, <2>e, <2>h DEF CommandFault, At
      <3> QED
        BY <3>1, <3>2, <3>3
    <2>14. CASE CommandLost
      BY <2>14, <2>e DEF CommandLost
    <2> HIDE DEF MigTypes
    <2> QED
      BY <2>1, <2>2, <2>3, <2>4, <2>5, <2>6, <2>7, <2>8, <2>9, <2>10, <2>11, <2>12, <2>13, <2>14
         DEF CommandMoves, Command
  <1> QED
    BY <1>2, <1>4, <1>5, <1>6

LEMMA IndexTyped == IndexTypes /\ [IndexNext]_indexVars => IndexTypes'
  <1> SUFFICES ASSUME IndexTypes, [IndexNext]_indexVars PROVE IndexTypes'
    OBVIOUS
  <1>1. CASE WriterMoves
    BY <1>1, WriterTyped
  <1>2. CASE CommandMoves
    BY <1>2, CommandTyped
  <1>3. CASE Reconfigure \/ UNCHANGED indexVars
    BY <1>3 DEF Reconfigure, indexVars, stores, catalogs, IndexTypes, StoreTypes, WriterTypes,
       MigTypes,
                PastTypes, Versions
  <1> QED
    BY <1>1, <1>2, <1>3 DEF IndexNext, WriterMoves, CommandMoves

LEMMA IndexStarts == IndexInit => IndexTypes
  <1> SUFFICES ASSUME IndexInit PROVE IndexTypes
    OBVIOUS
  <1>1. StoreTypes
    BY DEF IndexInit, StoreTypes, Versions, Record
  <1>2. WriterTypes
    BY DEF IndexInit, Idle, WriterTypes, Versions, Writes
  <1>3. MigTypes
    BY DEF IndexInit, NoCommand, NoPlan, MigTypes, MigPlaces, IsPlan, Versions, Planned,
       Switching,
           Publishing, RollingBack, Loaded
  <1>4. PastTypes
    BY DEF IndexInit, PastTypes
  <1> QED
    BY <1>1, <1>2, <1>3, <1>4 DEF IndexTypes

-----------------------------------------------------------------------------
(* A publish that fails has restored what it changed *)

\* While the services have the source version, every command starts from it and a roll-back
\* has restored, at each of its steps, what comes before; so that what another writer puts
\* in meanwhile is in the source version as well.
Reverting ==
    configured = Source =>
      /\ writer.version = Source
      /\ mig.pc \in Planned \/ (mig.pc = "plan_chunks" /\ mig.read.source # Target) => alias = Source
      /\ mig.pc \in RollingBack /\ ~past.strayed => alias = Source
      /\ mig.pc \in {"restore_chunks", "restore_source", "restore_target"} =>
           VersionsOf(documents) \subseteq {Source}
      /\ mig.pc \in {"restore_source", "restore_target"} => VersionsOf(chunks) \subseteq {Source}
      /\ mig.pc = "restore_target" => release[Source].status = "active"

LEMMA WriterRestores ==
    ASSUME IndexTypes, Reverting, WriterMoves
    PROVE  Reverting'
  <1> SUFFICES ASSUME configured = Source PROVE Reverting'
    BY DEF Reverting, WriterMoves, BeginWrite, WriteStep, WriteFault
  <1>1. mig' = mig /\ writer.version = Source
    BY DEF Reverting, WriterMoves, BeginWrite, WriteStep, WriteFault
  <1>2. past'.strayed = past.strayed
    <2>1. \A broken : Remember(broken) => past'.strayed = past.strayed
      BY DEF Remember, IndexTypes, PastTypes
    <2> QED
      BY <2>1 DEF WriterMoves, BeginWrite, WriteStep, WriteFault
  <1>3. writer'.version = Source
    <2>1. Idle.version = Source
      BY DEF Idle
    <2>2. \A rest : [writer EXCEPT !.todo = rest].version = Source
      BY <1>1 DEF IndexTypes, WriterTypes
    <2>3. CASE \E d \in Docs : BeginWrite(d)
      BY <2>3 DEF BeginWrite
    <2>4. CASE WriteStep \/ WriteFault
      <3>1. writer' = Idle \/ \E rest : writer' = [writer EXCEPT !.todo = rest]
        BY <2>4 DEF WriteStep, WriteFault
      <3> QED
        BY <2>1, <2>2, <3>1
    <2> QED
      BY <2>3, <2>4 DEF WriterMoves
  <1>4. /\ alias' \in {alias, Source}
        /\ VersionsOf(documents') \subseteq VersionsOf(documents) \cup {Source}
        /\ VersionsOf(chunks') \subseteq VersionsOf(chunks) \cup {Source}
        /\ release[Source].status = "active" => release'[Source].status = "active"
    <2>1. CASE UNCHANGED stores
      BY <2>1 DEF stores, catalogs
    <2>2. CASE \E d \in writer.doc : Write(d)
      <3>1. PICK d \in writer.doc : Write(d)
        BY <2>2
      <3>2. \A catalog, new \in [Docs -> Record] :
              \/ new = [catalog EXCEPT ![d] = [state |-> "published", version |-> Source]]
              \/ new = [catalog EXCEPT ![d].state = "hidden"]
              => VersionsOf(new) \subseteq VersionsOf(catalog) \cup {Source}
        <4> SUFFICES ASSUME NEW catalog \in [Docs -> Record], NEW new \in [Docs -> Record],
                            \/ new = [catalog EXCEPT ![d] = [state |-> "published", version |-> Source]]
                            \/ new = [catalog EXCEPT ![d].state = "hidden"]
                     PROVE  VersionsOf(new) \subseteq VersionsOf(catalog) \cup {Source}
          OBVIOUS
        <4>1. catalog[d] \in Record /\ d \in Docs
          BY <3>1, WriteMoves
        <4>2. [catalog[d] EXCEPT !.state = "hidden"].state = "hidden"
          BY <4>1 DEF Record
        <4>3. \A e \in Docs : new[e].state = "published" =>
                \/ new[e].version = Source
                \/ catalog[e].state = "published" /\ new[e].version = catalog[e].version
          <5>1. CASE new = [catalog EXCEPT ![d] = [state |-> "published", version |-> Source]]
            BY <4>1, <5>1
          <5>2. CASE new = [catalog EXCEPT ![d].state = "hidden"]
            <6>1. new[d] = [catalog[d] EXCEPT !.state = "hidden"] /\ new[d].state # "published"
              BY <4>1, <4>2, <5>2
            <6>2. \A e \in Docs : e # d => new[e] = catalog[e]
              BY <5>2
            <6> QED
              BY <6>1, <6>2
          <5> QED
            BY <5>1, <5>2
        <4>4. Published(new) = {e \in Docs : new[e].state = "published"}
              /\ Published(catalog) = {e \in Docs : catalog[e].state = "published"}
              /\ VersionsOf(new) = {new[e].version : e \in Published(new)}
              /\ VersionsOf(catalog) = {catalog[e].version : e \in Published(catalog)}
          BY DEF VersionsOf, Published
        <4> QED
          BY <4>3, <4>4
      <3>3. StoreTypes'
        BY <3>1, WriteTyped DEF WriterMoves, BeginWrite, WriteStep, WriteFault
      <3>4. documents \in [Docs -> Record] /\ chunks \in [Docs -> Record]
            /\ documents' \in [Docs -> Record] /\ chunks' \in [Docs -> Record]
        BY <3>3 DEF IndexTypes, StoreTypes
      <3>5. VersionsOf(documents') \subseteq VersionsOf(documents) \cup {Source}
        BY <1>1, <3>1, <3>2, <3>4, WriteMoves
      <3>6. VersionsOf(chunks') \subseteq VersionsOf(chunks) \cup {Source}
        BY <1>1, <3>1, <3>2, <3>4, WriteMoves
      <3>7. alias' \in {alias, Source}
        BY <1>1, <3>1, WriteMoves
      <3>8. release[Source].status = "active" => release'[Source].status = "active"
        BY <1>1, <3>1, WriteMoves DEF IndexTypes, StoreTypes, Versions
      <3> QED
        BY <3>5, <3>6, <3>7, <3>8
    <2> QED
      BY <2>1, <2>2 DEF WriterMoves, BeginWrite, WriteStep, WriteFault
  <1> QED
    BY <1>1, <1>2, <1>3, <1>4 DEF Reverting

\* How a command goes on when it writes nothing.
LEMMA QuietRestores ==
    ASSUME IndexTypes, Reverting, UNCHANGED <<stores, configured, writer>>, past'.strayed = past.strayed,
           mig'.pc \in MigPlaces \ RollingBack,
           mig'.pc \in Planned => mig.pc \in Planned \/ (mig.pc = "plan_chunks" /\ mig.read.source # Target),
           mig'.pc = "plan_chunks" => mig'.read.source = alias
    PROVE  Reverting'
  <1> SUFFICES ASSUME configured = Source PROVE Reverting'
    BY DEF Reverting
  <1>1. {"restore_chunks", "restore_source", "restore_target"} \subseteq RollingBack
    BY DEF RollingBack
  <1>2. alias \in {Source, Target}
    BY DEF IndexTypes, StoreTypes, Versions
  <1> QED
    BY <1>1, <1>2 DEF Reverting, stores, catalogs

LEMMA VersionedOnly ==
    ASSUME NEW catalog \in [Docs -> Record], NEW v
    PROVE  VersionsOf(Versioned(catalog, v)) \subseteq {v}
  <1>1. \A d \in Docs : Versioned(catalog, v)[d].state = catalog[d].state
    BY DEF Versioned, Record
  <1>2. \A d \in Docs : catalog[d].state = "published" => Versioned(catalog, v)[d].version = v
    BY DEF Versioned, Published, Record
  <1> QED
    BY <1>1, <1>2 DEF VersionsOf, Published

LEMMA CommandRestores ==
    ASSUME IndexTypes, Reverting, CommandMoves
    PROVE  Reverting'
  <1> SUFFICES ASSUME configured = Source PROVE Reverting'
    BY DEF Reverting, CommandMoves, Begin, Command, CommandFault, CommandLost, PlanDocuments,
       PlanChunks, Provision,
           VerifyCandidate, Load, VerifySnapshot, Upsert, VerifyRows, RecordCandidate, CheckAlias,
           SwitchAlias, UpdateDocuments, UpdateChunks, UpdateReleases, Confirm, RestoreAlias, RestoreCatalogs
  <1>a. configured' = configured /\ writer' = writer
    BY DEF CommandMoves, Begin, Command, CommandFault, CommandLost, PlanDocuments, PlanChunks,
       Provision,
           VerifyCandidate, Load, VerifySnapshot, Upsert, VerifyRows, RecordCandidate, CheckAlias,
           SwitchAlias, UpdateDocuments, UpdateChunks, UpdateReleases, Confirm, RestoreAlias, RestoreCatalogs
  <1>b. /\ mig = [f \in DOMAIN NoCommand |-> mig[f]]
        /\ DOMAIN NoCommand = {"pc", "command", "read", "plan", "loaded", "switched", "errors", "outcome"}
        /\ mig.plan.source = Source /\ writer.version = Source
        /\ NoCommand.plan.source = Source /\ NoCommand.pc = "idle"
    BY DEF IndexTypes, MigTypes, Reverting, NoCommand, NoPlan
  <1>c. {"plan", "plan_chunks", "idle"} \cap (RollingBack \cup Planned) = {} /\ RollingBack \cap Planned = {}
    BY DEF RollingBack, Planned
  <1>d. mig'.pc \in MigPlaces
    BY CommandTyped DEF IndexTypes, MigTypes
  <1>e. past' = past \/ (\E b : past' = [past EXCEPT !.swapped = b]) => past'.strayed = past.strayed
    BY DEF IndexTypes, PastTypes
  <1>f. \A outcome : End(outcome) => mig'.pc = "idle"
    BY <1>b DEF End
  <1>g. \A pc : Goto(pc) => mig'.pc = pc /\ mig'.plan = mig.plan /\ mig'.read = mig.read
    BY <1>b DEF Goto
  <1>1. CASE \E command \in {"build", "publish"} : Begin(command)
    <2>1. mig'.pc = "plan" /\ past' = past /\ UNCHANGED stores
      BY <1>1, <1>b DEF Begin
    <2> QED
      BY <2>1, <1>a, <1>c, <1>d, <1>e, QuietRestores
  <1>2. CASE PlanDocuments
    <2>1. /\ past' = past /\ UNCHANGED stores
          /\ \/ mig'.pc = "idle"
             \/ mig'.pc = "plan_chunks" /\ mig'.read.source = alias
             \/ mig.pc = "recount" /\ mig'.pc = "recount_chunks"
      <3> DEFINE read == [source |-> alias, documents |-> Published(documents), chunks |-> 0]
      <3>1. \/ Refuse
            \/ \E pc \in {"plan_chunks", "recount_chunks"} :
                 /\ mig' = [mig EXCEPT !.pc = pc, !.read = read]
                 /\ pc = "recount_chunks" => mig.pc = "recount"
        BY <1>2 DEF PlanDocuments
      <3>2. past' = past /\ UNCHANGED stores /\ read.source = alias
        BY <1>2 DEF PlanDocuments
      <3> HIDE DEF read
      <3> QED
        BY <3>1, <3>2, <1>b, <1>f DEF Refuse
    <2>2. {"recount", "recount_chunks"} \subseteq Planned
      BY DEF Planned
    <2> QED
      BY <2>1, <2>2, <1>a, <1>c, <1>d, <1>e, QuietRestores
  <1>3. CASE PlanChunks
    <2>1. /\ past' = past /\ UNCHANGED stores
          /\ \/ mig'.pc = "idle"
             \/ /\ mig'.pc \in {"provision", "candidate"} /\ mig'.plan = Plan
                /\ mig.read.source # Target /\ mig.pc = "plan_chunks"
      BY <1>3, <1>b, <1>f DEF PlanChunks, Refuse, At
    <2>2. Plan.source = mig.read.source /\ mig.read.source \in {Source, Target}
      BY DEF Plan, IndexTypes, MigTypes, IsPlan, NoPlan, Versions
    <2>3. {"provision", "candidate"} \subseteq Planned
      BY DEF Planned
    <2> QED
      BY <2>1, <2>2, <2>3, <1>a, <1>c, <1>d, <1>e, QuietRestores
  <1>4. CASE Provision \/ VerifyCandidate \/ Load \/ VerifySnapshot \/ VerifyRows \/ CheckAlias
    <2>1. /\ past' = past /\ UNCHANGED stores
          /\ \/ mig'.pc = "idle"
             \/ mig.pc \in Planned /\ mig'.pc \in Planned
      BY <1>4, <1>b, <1>f, <1>g
         DEF Provision, VerifyCandidate, Load, VerifySnapshot, VerifyRows, CheckAlias, Refuse, At, Planned
    <2> QED
      BY <2>1, <1>a, <1>c, <1>d, <1>e, QuietRestores
  <1>5. CASE Upsert \/ RecordCandidate
    <2>1. /\ past' = past /\ UNCHANGED alias
          /\ mig.pc \in Planned /\ mig'.pc \in Planned \ {"plan_chunks"}
      BY <1>5, <1>b, <1>g DEF Upsert, RecordCandidate, At, Planned, Make, MakeRows, MakeAlias,
         MakeDocuments,
                              MakeChunks, MakeRelease
    <2>2. {"restore_chunks", "restore_source", "restore_target"} \subseteq RollingBack
      BY DEF RollingBack
    <2> QED
      BY <2>1, <2>2, <1>a, <1>c DEF Reverting
  <1>6. CASE SwitchAlias \/ UpdateDocuments \/ UpdateReleases
    <2>1. mig'.pc \in Publishing
      BY <1>6, <1>b, <1>g DEF SwitchAlias, UpdateDocuments, UpdateReleases, Publishing
    <2>2. Publishing \cap ({"plan_chunks"} \cup Planned \cup RollingBack) = {}
          /\ {"restore_chunks", "restore_source", "restore_target"} \subseteq RollingBack
      BY DEF Publishing, Planned, RollingBack
    <2> QED
      BY <2>1, <2>2, <1>a, <1>b DEF Reverting
  <1>7. CASE UpdateChunks \/ Confirm
    <2>1. mig.pc \in Publishing
      BY <1>7 DEF UpdateChunks, Confirm, At, Publishing
    <2>2. Rollback => Goto("restore_alias")
      BY <2>1 DEF Rollback, IndexTypes, MigTypes
    <2>3. mig'.pc \in {"restore_alias", "deactivate", "idle"}
      BY <1>7, <1>b, <1>f, <1>g, <2>2 DEF UpdateChunks, Confirm
    <2>4. {"restore_alias", "deactivate", "idle"} \cap ({"plan_chunks"} \cup Planned \cup RollingBack) = {}
          /\ {"restore_chunks", "restore_source", "restore_target"} \subseteq RollingBack
      BY DEF Planned, RollingBack
    <2> QED
      BY <2>3, <2>4, <1>a, <1>b DEF Reverting
  <1>8. CASE RestoreAlias
    <2>1. alias' = Source /\ mig'.pc = "restore_documents"
      BY <1>8, <1>b, <1>g DEF RestoreAlias, At, Make, MakeRows, MakeAlias, MakeDocuments,
         MakeChunks, MakeRelease
    <2> QED
      BY <2>1, <1>a, <1>b DEF Reverting, Planned
  <1>9. CASE RestoreCatalogs
    <2>1. past' = past
      BY <1>9, <1>b, <1>f, <1>g DEF RestoreCatalogs
    <2>2. documents \in [Docs -> Record] /\ chunks \in [Docs -> Record]
      BY DEF IndexTypes, StoreTypes
    <2>3. CASE mig.pc = "restore_documents"
      <3>1. mig'.pc = "restore_chunks" /\ UNCHANGED alias /\ documents' = Versioned(documents, Source)
        BY <1>9, <1>b, <1>g, <2>3 DEF RestoreCatalogs, At, Make, MakeRows, MakeAlias,
           MakeDocuments, MakeChunks,
                                      MakeRelease
      <3> QED
        BY <2>1, <2>2, <2>3, <3>1, <1>a, <1>b, VersionedOnly DEF Reverting, Planned, RollingBack
    <2>4. CASE mig.pc = "restore_chunks"
      <3>1. mig'.pc = "restore_source" /\ UNCHANGED <<alias, documents>> /\ chunks' = Versioned(chunks, Source)
        BY <1>9, <1>b, <1>g, <2>4 DEF RestoreCatalogs, At, Make, MakeRows, MakeAlias,
           MakeDocuments, MakeChunks,
                                      MakeRelease
      <3> QED
        BY <2>1, <2>2, <2>4, <3>1, <1>a, <1>b, VersionedOnly DEF Reverting, Planned, RollingBack
    <2>5. CASE mig.pc = "restore_source"
      <3>1. mig'.pc = "restore_target" /\ UNCHANGED <<alias, documents, chunks>>
            /\ release' = [release EXCEPT ![Source].status = "active"]
        BY <1>9, <1>b, <1>g, <2>5 DEF RestoreCatalogs, At, Make, MakeRows, MakeAlias,
           MakeDocuments, MakeChunks,
                                      MakeRelease, SetStatus, catalogs
      <3>2. release'[Source].status = "active"
        BY <3>1 DEF IndexTypes, StoreTypes, Versions
      <3> QED
        BY <2>1, <2>5, <3>1, <3>2, <1>a, <1>b DEF Reverting, Planned, RollingBack
    <2>6. CASE mig.pc = "restore_target"
      <3>1. mig'.pc = "idle"
        BY <1>9, <1>f, <2>6 DEF RestoreCatalogs, At
      <3> QED
        BY <2>1, <3>1, <1>a, <1>b DEF Reverting, Planned, RollingBack
    <2> QED
      BY <1>9, <2>3, <2>4, <2>5, <2>6 DEF RestoreCatalogs, At
  <1>10. CASE CommandFault
    <2>1. CASE mig.pc = "switch" /\ ~mig.switched
      <3>1. mig'.pc = "restore_documents"
        BY <1>10, <2>1, <1>b, <1>g DEF CommandFault, Rollback, At, Publishing, RollingBack
      <3>2. alias = Source
        BY <2>1 DEF Reverting, Planned
      <3>3. past'.strayed = (past.strayed \/ alias' # alias)
        BY <1>10, <2>1 DEF CommandFault, At, IndexTypes, PastTypes
      <3> QED
        BY <3>1, <3>2, <3>3, <1>a, <1>b DEF Reverting, Planned
    <2>2. CASE mig.pc \in Publishing \/ (mig.pc = "switch" /\ mig.switched)
      <3>1. mig.switched /\ mig.pc \in Publishing \cup {"switch"}
        BY <2>2 DEF IndexTypes, MigTypes
      <3>2. mig'.pc = "restore_alias"
        BY <1>10, <3>1, <1>b, <1>g DEF CommandFault, Rollback, At, Publishing, RollingBack
      <3> QED
        BY <3>2, <1>a, <1>b DEF Reverting, Planned, RollingBack
    <2>3. CASE mig.pc = "restore_alias"
      <3>1. mig'.pc = "restore_documents"
        BY <1>10, <2>3, <1>b DEF CommandFault, At, Publishing, RollingBack
      <3>2. past'.strayed
        BY <1>10, <2>3 DEF CommandFault, At, IndexTypes, PastTypes
      <3> QED
        BY <3>1, <3>2, <1>a, <1>b DEF Reverting, Planned
    <2>4. CASE mig.pc \notin Publishing \cup {"switch", "restore_alias"}
      <3>1. mig'.pc = "idle"
        BY <1>10, <2>4, <1>f DEF CommandFault, At, Refuse
      <3> QED
        BY <3>1, <1>a, <1>b DEF Reverting, Planned, RollingBack
    <2> QED
      BY <2>1, <2>2, <2>3, <2>4
  <1>11. CASE CommandLost
    <2>1. mig'.pc = "idle"
      BY <1>11, <1>f DEF CommandLost
    <2> QED
      BY <2>1, <1>a, <1>b DEF Reverting, Planned, RollingBack
  <1> QED
    BY <1>1, <1>2, <1>3, <1>4, <1>5, <1>6, <1>7, <1>8, <1>9, <1>10, <1>11 DEF CommandMoves,
       Command

LEMMA RevertingStep == IndexTypes /\ Reverting /\ [IndexNext]_indexVars => Reverting'
  <1> SUFFICES ASSUME IndexTypes, Reverting, [IndexNext]_indexVars PROVE Reverting'
    OBVIOUS
  <1>1. CASE WriterMoves
    BY <1>1, WriterRestores
  <1>2. CASE CommandMoves
    BY <1>2, CommandRestores
  <1>3. CASE Reconfigure
    <2>1. mig.outcome = "published" /\ mig.pc = "idle" /\ UNCHANGED <<stores, mig, past, writer>>
      BY <1>3 DEF Reconfigure, IndexTypes, MigTypes
    <2>2. configured' = Source => configured = Source
      BY <1>3 DEF Reconfigure, IndexTypes, StoreTypes, Versions
    <2> QED
      BY <2>1, <2>2 DEF Reverting, stores, catalogs, Planned, RollingBack
  <1>4. CASE UNCHANGED indexVars
    BY <1>4 DEF Reverting, indexVars, stores, catalogs
  <1> QED
    BY <1>1, <1>2, <1>3, <1>4 DEF IndexNext, WriterMoves, CommandMoves

\* A command that ends as failed was at its last step of restoring.
LEMMA FailedHasRestored ==
    ASSUME IndexTypes, Reverting, [IndexNext]_indexVars
    PROVE  FailedPublishRestores
  <1> SUFFICES ASSUME mig.pc # "idle", mig'.outcome = "failed", configured = Source, ~past.strayed
               PROVE  /\ alias' = mig.plan.source
                      /\ VersionsOf(documents') \cup VersionsOf(chunks') \subseteq {mig.plan.source}
                      /\ release'[mig.plan.source].status = "active" /\ release'[Target].status = "candidate"
    BY DEF FailedPublishRestores
  <1>1. mig.outcome = "none" /\ mig' # mig
    BY DEF IndexTypes, MigTypes
  <1>2. CommandMoves
    BY <1>1 DEF IndexNext, WriterMoves, CommandMoves, BeginWrite, WriteStep, WriteFault,
       Reconfigure, indexVars
  <1>3. /\ mig = [f \in DOMAIN NoCommand |-> mig[f]]
        /\ DOMAIN NoCommand = {"pc", "command", "read", "plan", "loaded", "switched", "errors", "outcome"}
    BY DEF IndexTypes, MigTypes, NoCommand
  <1>4. \A pc : Goto(pc) => mig'.outcome = "none"
    BY <1>1, <1>3 DEF Goto
  <1>5. \A outcome : End(outcome) => mig'.outcome = outcome
    BY <1>3 DEF End
  <1>6. CASE RestoreCatalogs
    <2>1. mig.pc = "restore_target"
      BY <1>6, <1>4 DEF RestoreCatalogs, At
    <2>2. UNCHANGED <<alias, documents, chunks>> /\ release' = [release EXCEPT ![Target].status = "candidate"]
      BY <1>6, <2>1 DEF RestoreCatalogs, At, Make, MakeRows, MakeAlias, MakeDocuments,
         MakeChunks,
                        MakeRelease, SetStatus, catalogs
    <2>3. /\ mig.plan.source = Source /\ alias = Source
          /\ VersionsOf(documents) \subseteq {Source} /\ VersionsOf(chunks) \subseteq {Source}
          /\ release[Source].status = "active"
      BY <2>1 DEF Reverting, RollingBack, IndexTypes, MigTypes
    <2>4. Source # Target
      BY <2>1 DEF IndexTypes, MigTypes, Switching, RollingBack
    <2>5. release'[Source].status = "active" /\ release'[Target].status = "candidate"
      BY <2>2, <2>3, <2>4 DEF IndexTypes, StoreTypes, Versions
    <2> QED
      BY <2>2, <2>3, <2>5
  <1>7. CASE ~RestoreCatalogs
    <2>1. Refuse => mig'.outcome = "refused"
      BY <1>5 DEF Refuse
    <2>2. Rollback => mig'.outcome = "none"
      BY <1>4 DEF Rollback
    <2>3. ~\E command \in {"build", "publish"} : Begin(command)
      BY DEF Begin, At
    <2>4. ~(CommandFault \/ CommandLost)
      <3>1. CommandFault => mig'.outcome \in {"none", "refused", "repair"}
        BY <1>1, <1>3, <1>5, <2>1, <2>2 DEF CommandFault, At, Publishing, RollingBack
      <3> QED
        BY <3>1, <1>5 DEF CommandLost
    <2>5. Command
      BY <1>2, <2>3, <2>4 DEF CommandMoves
    <2> QED
      BY <1>1, <1>3, <1>4, <1>5, <1>7, <2>1, <2>2, <2>5
         DEF Command, PlanDocuments, PlanChunks, Provision,
           VerifyCandidate, Load, VerifySnapshot, Upsert, VerifyRows, RecordCandidate, CheckAlias,
           SwitchAlias, UpdateDocuments, UpdateChunks, UpdateReleases, Confirm, RestoreAlias
  <1> QED
    BY <1>6, <1>7

-----------------------------------------------------------------------------
(* What is published is found *)

\* Nothing has happened that PublishedIsFound excuses.
Calm == ~past.moved /\ ~past.swapped /\ ~past.strayed

\* The documents that searches are to find: a publication that has but its release to
\* write counts as written.
Kept ==
    {d \in Docs : /\ documents[d].state = "published" /\ chunks[d].state = "published"
                  /\ d \notin past.broken /\ (d \in writer.doc => writer.todo = <<"release">>)}

\* A withdrawal hides a document before it deletes its rows; a publication has written
\* the row before the alias.
Hiding ==
    \A d \in writer.doc \ past.broken :
      /\ writer.todo \in {<<"hide_chunks", "delete_rows">>, <<"delete_rows">>} =>
           documents[d].state = "hidden"
      /\ writer.todo \in {<<"alias", "release">>, <<"alias">>} => d \in rows[writer.version]

\* The version of each of these documents, in document_catalog.
Sourced(ds) == \A d \in ds : documents[d].version = Source

\* A command works while the services have the source version, in which all it has planned
\* stays until it changes the documents itself.
Sourcing ==
    /\ mig.pc \in Planned \cup Switching => configured = Source
    /\ alias = Source => configured = Source
    /\ mig.outcome = "published" => alias # Source
    /\ mig.pc = "plan_chunks" => mig.read.source = alias /\ (alias = Source => Sourced(mig.read.documents))
    /\ mig.pc \in Planned \cup {"documents"} => Sourced(mig.plan.documents)
    /\ mig.pc \in Publishing => alias = Target

\* The source collection keeps its rows until a publish has ended, and the target
\* collection has those that were loaded by the time the counts have been compared.
Holding ==
    /\ alias = Source \/ mig.pc \in Switching => Kept \subseteq rows[Source]
    /\ mig.pc \in {"switch", "documents"} => mig.loaded \cap mig.plan.documents \subseteq rows[Target]
    /\ mig.pc = "chunks" =>
         Kept \subseteq mig.read.documents /\ Kept \cap mig.loaded \cap mig.plan.documents \subseteq rows[Target]
    /\ mig.pc \in {"deactivate", "activate", "confirm"} \/ (alias = Target /\ mig.pc \notin Switching) =>
         Kept \subseteq rows[Target]

FoundInv == IndexTypes /\ Reverting /\ Hiding /\ (Calm => Sourcing /\ Holding)

LEMMA OthersStay ==
    ASSUME IndexTypes, NEW d \in writer.doc, Write(d) \/ UNCHANGED stores
    PROVE  /\ writer.doc = {d} /\ d \in Docs /\ writer.todo \in Writes /\ writer.todo # <<>>
           /\ \A e \in Docs \ {d} :
                /\ documents'[e] = documents[e] /\ chunks'[e] = chunks[e]
                /\ \A v \in Versions : e \in rows[v] <=> e \in rows'[v]
           /\ \A e \in Docs : documents'[e].version \in {documents[e].version, writer.version}
           /\ \A v \in Versions : d \in rows[v] /\ d \notin rows'[v] => v \in {documents[d].version, writer.version}
  <1>1. writer.doc = {d} /\ d \in Docs /\ writer.todo \in Writes /\ writer.todo # <<>>
    BY DEF IndexTypes, WriterTypes
  <1>2. /\ documents \in [Docs -> Record] /\ chunks \in [Docs -> Record] /\ rows \in [Versions -> SUBSET Docs]
        /\ documents[d] \in Record /\ writer.version \in Versions /\ RowsAt(d) \in Versions
    BY <1>1 DEF IndexTypes, StoreTypes, WriterTypes, Record, RowsAt
  <1>3. CASE UNCHANGED stores
    BY <1>1, <1>3 DEF stores, catalogs
  <1>4. CASE Write(d)
    <2>1. \A e \in Docs \ {d} : documents'[e] = documents[e] /\ chunks'[e] = chunks[e]
      BY <1>2, <1>4, WriteMoves
    <2>2. \A v \in Versions :
            \/ rows'[v] = rows[v] \/ rows'[v] = rows[v] \cup {d}
            \/ v = RowsAt(d) /\ rows'[v] = rows[v] \ {d}
      <3>1. \/ rows' = rows
            \/ rows' = [rows EXCEPT ![writer.version] = rows[writer.version] \cup {d}]
            \/ rows' = [rows EXCEPT ![RowsAt(d)] = rows[RowsAt(d)] \ {d}]
        BY <1>4, WriteMoves
      <3> QED
        BY <1>2, <3>1
    <2>3. RowsAt(d) \in {documents[d].version, writer.version}
      BY DEF RowsAt
    <2>4. \A e \in Docs : documents'[e].version \in {documents[e].version, writer.version}
      <3>1. [documents[d] EXCEPT !.state = "hidden"].version = documents[d].version
        BY <1>2 DEF Record
      <3>2. \/ documents' = documents
            \/ documents' = [documents EXCEPT ![d] = [state |-> "published", version |-> writer.version]]
            \/ documents' = [documents EXCEPT ![d] = [documents[d] EXCEPT !.state = "hidden"]]
        BY <1>4, WriteMoves
      <3> DEFINE written == [state |-> "published", version |-> writer.version]
                 hidden == [documents[d] EXCEPT !.state = "hidden"]
      <3>3. written.version = writer.version
        OBVIOUS
      <3> HIDE DEF written, hidden
      <3>4. documents'[d] \in {documents[d], written, hidden}
        BY <1>1, <1>2, <3>2 DEF written, hidden
      <3>5. documents'[d].version \in {documents[d].version, writer.version}
        BY <3>1, <3>3, <3>4 DEF hidden
      <3> QED
        BY <2>1, <3>5
    <2> QED
      BY <1>1, <2>1, <2>2, <2>3, <2>4
  <1> QED
    BY <1>3, <1>4

\* What a writer leaves of what searches are to find, and of the rows of that.
LEMMA WriterKeeps ==
    ASSUME IndexTypes, Hiding, WriterMoves
    PROVE  /\ Hiding'
           /\ \A d \in Kept' : d \in Kept \/ (alias' = writer.version /\ d \in rows[writer.version])
           /\ \A v \in Versions, d \in Kept' : d \in rows[v] => d \in rows'[v]
  <1>a. /\ documents \in [Docs -> Record] /\ chunks \in [Docs -> Record]
        /\ rows \in [Versions -> SUBSET Docs] /\ writer.version \in Versions
    BY DEF IndexTypes, StoreTypes, WriterTypes
  <1>b. Idle.doc = {} /\ Idle.todo = <<>>
    BY DEF Idle
  <1>c. Publication \notin {<<"hide_chunks", "delete_rows">>, <<"delete_rows">>, <<"alias", "release">>, <<"alias">>, <<"release">>}
        /\ Restoration \notin {<<"hide_chunks", "delete_rows">>, <<"delete_rows">>, <<"alias", "release">>, <<"alias">>, <<"release">>}
        /\ Withdrawal \notin {<<"hide_chunks", "delete_rows">>, <<"delete_rows">>, <<"alias", "release">>, <<"alias">>, <<"release">>}
    BY DEF Publication, Restoration, Withdrawal
  <1>1. CASE \E d \in Docs : BeginWrite(d)
    <2>1. PICK d \in Docs : BeginWrite(d)
      BY <1>1
    <2>2. /\ UNCHANGED <<stores, past>> /\ writer.todo = <<>> /\ writer.doc = {}
          /\ writer'.todo \in {Publication, Restoration, Withdrawal}
      BY <2>1 DEF BeginWrite, IndexTypes, WriterTypes
    <2> QED
      BY <1>c, <2>2 DEF Hiding, Kept, stores, catalogs
  <1>2. CASE WriteStep
    <2>1. PICK d \in writer.doc : Write(d)
      BY <1>2 DEF WriteStep
    <2>2. /\ writer.doc = {d} /\ d \in Docs /\ writer.todo \in Writes /\ writer.todo # <<>>
          /\ \A e \in Docs \ {d} :
               /\ documents'[e] = documents[e] /\ chunks'[e] = chunks[e]
               /\ \A v \in Versions : e \in rows[v] <=> e \in rows'[v]
      BY <2>1, OthersStay
    <2>3. past'.broken = past.broken
      BY <1>2 DEF WriteStep, Remember, IndexTypes, PastTypes
    <2> DEFINE rest == Tail(writer.todo)
    <2>4. \/ /\ writer'.doc = {} /\ writer'.todo = <<>>
             /\ writer.todo \in {<<"release">>, <<"alias">>, <<"delete_rows">>}
          \/ writer'.doc = {d} /\ writer'.todo = rest /\ writer'.version = writer.version
      <3> DEFINE last == Len(writer.todo) = 1
      <3>1. writer' = IF last THEN Idle ELSE [writer EXCEPT !.todo = rest]
        BY <1>2 DEF WriteStep
      <3>2. last => writer.todo \in {<<"release">>, <<"alias">>, <<"delete_rows">>}
        BY <2>2, TodoCases
      <3>3. writer = [kind |-> writer.kind, doc |-> writer.doc, version |-> writer.version, todo |-> writer.todo]
        BY DEF IndexTypes, WriterTypes
      <3> HIDE DEF last, rest
      <3> QED
        BY <1>b, <2>2, <3>1, <3>2, <3>3
    <2>5. /\ Head(writer.todo) = "alias" <=> writer.todo \in {<<"alias", "release">>, <<"alias">>}
          /\ Head(writer.todo) = "release" <=> writer.todo = <<"release">>
          /\ Head(writer.todo) = "delete_rows" <=> writer.todo = <<"delete_rows">>
          /\ Head(writer.todo) = "hide_chunks" <=> writer.todo = <<"hide_chunks", "delete_rows">>
          /\ rest = <<"release">> => Head(writer.todo) = "alias"
          /\ rest \in {<<"alias", "release">>, <<"alias">>} => Head(writer.todo) = "rows"
          /\ rest = <<"hide_chunks", "delete_rows">> => Head(writer.todo) = "hide_document"
          /\ rest = <<"delete_rows">> => Head(writer.todo) = "hide_chunks"
      BY <2>2, TodoCases
    <2> HIDE DEF rest
    <2>6. Hiding'
      <3> SUFFICES ASSUME writer'.doc = {d}, writer'.todo = rest, writer'.version = writer.version,
                          d \notin past.broken
                   PROVE  /\ rest \in {<<"hide_chunks", "delete_rows">>, <<"delete_rows">>} =>
                               documents'[d].state = "hidden"
                          /\ rest \in {<<"alias", "release">>, <<"alias">>} => d \in rows'[writer.version]
        BY <2>3, <2>4 DEF Hiding
      <3>1. CASE rest = <<"hide_chunks", "delete_rows">>
        <4>1. documents' = [documents EXCEPT ![d] = [documents[d] EXCEPT !.state = "hidden"]]
          BY <2>1, <2>5, <3>1, WriteMoves
        <4>2. [documents[d] EXCEPT !.state = "hidden"].state = "hidden"
          BY <1>a, <2>2 DEF Record
        <4> QED
          BY <1>a, <2>2, <3>1, <4>1, <4>2
      <3>2. CASE rest = <<"delete_rows">>
        <4>1. documents' = documents /\ writer.todo = <<"hide_chunks", "delete_rows">>
          BY <2>1, <2>5, <3>2, WriteMoves
        <4> QED
          BY <2>2, <3>2, <4>1 DEF Hiding
      <3>3. CASE rest \in {<<"alias", "release">>, <<"alias">>}
        <4>1. rows' = [rows EXCEPT ![writer.version] = rows[writer.version] \cup {d}]
          BY <2>1, <2>5, <3>3, WriteMoves
        <4> QED
          BY <1>a, <3>3, <4>1
      <3> QED
        BY <3>1, <3>2, <3>3
    <2>7. ASSUME d \in Kept'
          PROVE  /\ d \in Kept \/ (alias' = writer.version /\ d \in rows[writer.version])
                 /\ rows' = rows
      <3>1. d \notin past.broken /\ documents'[d].state = "published" /\ chunks'[d].state = "published"
            /\ (d \in writer'.doc => writer'.todo = <<"release">>)
        BY <2>3, <2>7 DEF Kept
      <3>2. Head(writer.todo) \in {"alias", "release", "delete_rows"}
        BY <2>4, <2>5, <3>1
      <3>3. CASE Head(writer.todo) = "release"
        <4>1. UNCHANGED <<documents, chunks, rows>>
          BY <2>1, <3>3, WriteMoves
        <4> QED
          BY <2>2, <2>5, <3>1, <3>3, <4>1 DEF Kept
      <3>4. CASE Head(writer.todo) = "alias"
        <4>1. UNCHANGED <<documents, chunks, rows>> /\ alias' = writer.version
          BY <2>1, <3>4, WriteMoves
        <4>2. d \in rows[writer.version]
          BY <2>2, <2>5, <3>1, <3>4 DEF Hiding
        <4> QED
          BY <4>1, <4>2
      <3>5. CASE Head(writer.todo) = "delete_rows"
        <4>1. documents' = documents
          BY <2>1, <3>5, WriteMoves
        <4>2. documents[d].state = "hidden"
          BY <2>2, <2>5, <3>1, <3>5 DEF Hiding
        <4> QED
          BY <3>1, <4>1, <4>2
      <3> QED
        BY <3>2, <3>3, <3>4, <3>5
    <2>8. \A e \in Kept' : e # d => e \in Kept
      BY <2>2, <2>3 DEF Kept
    <2>9. \A e \in Kept' : e \in Docs
      BY DEF Kept
    <2> QED
      BY <2>2, <2>6, <2>7, <2>8, <2>9
  <1>3. CASE WriteFault
    <2>1. PICK d \in writer.doc : Write(d) \/ UNCHANGED stores
      BY <1>3 DEF WriteFault
    <2>2. /\ writer.doc = {d} /\ d \in Docs
          /\ \A e \in Docs \ {d} :
               /\ documents'[e] = documents[e] /\ chunks'[e] = chunks[e]
               /\ \A v \in Versions : e \in rows[v] <=> e \in rows'[v]
      BY <2>1, OthersStay
    <2>3. AfterRaise \in {<<>>, Withdrawal, <<"delete_rows">>}
      BY DEF AfterRaise
    <2>4. PICK rest \in {<<>>, Withdrawal, <<"delete_rows">>} :
             /\ writer' = IF rest = <<>> THEN Idle ELSE [writer EXCEPT !.todo = rest]
             /\ Remember(IF rest = Withdrawal THEN {} ELSE writer.doc)
      BY <1>3, <2>3 DEF WriteFault
    <2>5. /\ past'.broken = past.broken \cup (IF rest = Withdrawal THEN {} ELSE {d})
          /\ \/ rest # Withdrawal /\ writer'.doc = {}
             \/ writer'.doc = {d} /\ writer'.todo = rest
      <3>1. writer = [kind |-> writer.kind, doc |-> writer.doc, version |-> writer.version, todo |-> writer.todo]
            /\ past = [f \in {"moved", "swapped", "strayed", "broken"} |-> past[f]]
        BY DEF IndexTypes, WriterTypes, PastTypes
      <3>2. Withdrawal # <<>>
        BY DEF Withdrawal
      <3> HIDE DEF Withdrawal
      <3>3. past'.broken = past.broken \cup (IF rest = Withdrawal THEN {} ELSE {d})
        BY <2>2, <2>4, <3>1 DEF Remember
      <3>4. (rest # Withdrawal /\ writer'.doc = {}) \/ (writer'.doc = {d} /\ writer'.todo = rest)
        BY <1>b, <2>2, <2>4, <3>1, <3>2
      <3> QED
        BY <3>3, <3>4
    <2>6. d \notin Kept'
      BY <1>c, <2>5 DEF Kept
    <2>7. Kept' \subseteq Kept
      BY <2>2, <2>5, <2>6 DEF Kept
    <2>8. Hiding'
      BY <1>c, <2>5 DEF Hiding
    <2>9. \A e \in Kept' : e \in Docs
      BY DEF Kept
    <2> QED
      BY <2>2, <2>6, <2>7, <2>8, <2>9
  <1> QED
    BY <1>1, <1>2, <1>3 DEF WriterMoves

LEMMA WriterFound ==
    ASSUME FoundInv, WriterMoves, Calm'
    PROVE  Calm /\ Sourcing' /\ Holding'
  <1>1. IndexTypes /\ Reverting /\ Hiding /\ Hiding'
    BY WriterKeeps DEF FoundInv
  <1>2. mig' = mig /\ configured' = configured
    BY DEF WriterMoves, BeginWrite, WriteStep, WriteFault
  <1>3. Calm /\ alias' = alias
    <2>1. \A broken : Remember(broken) =>
            /\ past'.moved = (past.moved \/ alias' # alias)
            /\ past'.swapped = past.swapped /\ past'.strayed = past.strayed
      BY <1>1 DEF Remember, IndexTypes, PastTypes
    <2>2. CASE \E d \in Docs : BeginWrite(d)
      BY <2>2 DEF BeginWrite, stores, Calm
    <2>3. CASE WriteStep \/ WriteFault
      <3>1. PICK broken : Remember(broken)
        BY <2>3 DEF WriteStep, WriteFault
      <3> QED
        BY <2>1, <3>1 DEF Calm
    <2> QED
      BY <2>2, <2>3 DEF WriterMoves
  <1>4. Sourcing /\ Holding
    BY <1>3 DEF FoundInv
  <1>5. /\ alias \in {Source, Target} /\ Source \in Versions /\ Target \in Versions
        /\ mig.read.documents \subseteq Docs /\ mig.plan.documents \subseteq Docs
        /\ mig.plan.source = Source
    BY <1>1 DEF IndexTypes, StoreTypes, MigTypes, IsPlan, Versions
  <1>6. configured = Source => writer.version = Source
    BY <1>1 DEF Reverting
  <1>7. ASSUME configured = Source
        PROVE  /\ \A d \in Docs : documents[d].version = Source => documents'[d].version = Source
               /\ \A ds \in SUBSET Docs, v \in Versions \ {Source} :
                    Sourced(ds) /\ ds \subseteq rows[v] => ds \subseteq rows'[v]
    <2>1. CASE \E d \in Docs : BeginWrite(d)
      BY <2>1 DEF BeginWrite, stores, catalogs, Sourced
    <2>2. CASE WriteStep \/ WriteFault
      <3>1. PICK d \in writer.doc : Write(d) \/ UNCHANGED stores
        BY <2>2 DEF WriteStep, WriteFault
      <3>2. /\ \A e \in Docs : documents'[e].version \in {documents[e].version, Source}
            /\ \A v \in Versions : d \in rows[v] /\ d \notin rows'[v] => v \in {documents[d].version, Source}
            /\ \A e \in Docs \ {d} : \A v \in Versions : e \in rows[v] <=> e \in rows'[v]
        BY <1>1, <1>6, <1>7, <3>1, OthersStay
      <3> QED
        BY <3>2 DEF Sourced
    <2> QED
      BY <2>1, <2>2 DEF WriterMoves
  <1>8. Sourcing'
    <2>1. \A ds \in SUBSET Docs : configured = Source /\ Sourced(ds) =>
            \A d \in ds : documents'[d].version = Source
      BY <1>7 DEF Sourced
    <2>2. mig.pc = "plan_chunks" /\ alias = Source =>
            \A d \in mig.read.documents : documents'[d].version = Source
      BY <1>4, <1>5, <2>1 DEF Sourcing
    <2>3. mig.pc \in Planned \cup {"documents"} =>
            \A d \in mig.plan.documents : documents'[d].version = Source
      BY <1>4, <1>5, <2>1 DEF Sourcing, Switching, Publishing
    <2> QED
      BY <1>2, <1>3, <1>4, <2>2, <2>3 DEF Sourcing, Sourced
  <1>9. Holding'
    <2>1. \A d \in Kept' : d \in Kept \/ (alias = writer.version /\ d \in rows[alias])
      BY <1>1, <1>3, WriterKeeps
    <2>2. \A v \in Versions, d \in Kept' : d \in rows[v] => d \in rows'[v]
      BY <1>1, WriterKeeps
    <2>3. alias = Source \/ mig.pc \in Switching => Kept' \subseteq rows'[Source]
      <3>1. alias = Source \/ mig.pc \in Switching => configured = Source
        BY <1>4 DEF Sourcing
      <3> QED
        BY <1>4, <1>5, <1>6, <2>1, <2>2, <3>1 DEF Holding
    <2>4. mig.pc \in {"switch", "documents"} => mig.loaded \cap mig.plan.documents \subseteq rows'[Target]
      <3>1. mig.pc \in {"switch", "documents"} =>
              /\ configured = Source /\ Target \in Versions \ {Source}
              /\ Sourced(mig.plan.documents)
        BY <1>1, <1>4, <1>5 DEF IndexTypes, MigTypes, Sourcing, Planned, Switching, Publishing
      <3>2. mig.pc \in {"switch", "documents"} =>
              /\ Sourced(mig.loaded \cap mig.plan.documents)
              /\ mig.loaded \cap mig.plan.documents \subseteq rows[Target]
              /\ mig.loaded \cap mig.plan.documents \in SUBSET Docs
        BY <1>4, <1>5, <3>1 DEF Sourced, Holding
      <3> QED
        BY <1>7, <3>1, <3>2
    <2>5. mig.pc \in Publishing => Kept' \subseteq Kept
      <3>1. mig.pc \in Publishing => alias = Target /\ writer.version = Source /\ Source # Target
        BY <1>1, <1>4, <1>6 DEF IndexTypes, MigTypes, Sourcing, Switching
      <3> QED
        BY <2>1, <3>1
    <2>6. mig.pc = "chunks" =>
            /\ Kept' \subseteq mig.read.documents
            /\ Kept' \cap mig.loaded \cap mig.plan.documents \subseteq rows'[Target]
      BY <1>4, <1>5, <2>2, <2>5 DEF Holding, Publishing
    <2>7. mig.pc \in {"deactivate", "activate", "confirm"} \/ (alias = Target /\ mig.pc \notin Switching) =>
            Kept' \subseteq rows'[Target]
      BY <1>4, <1>5, <2>1, <2>2, <2>5 DEF Holding, Publishing
    <2> QED
      BY <1>2, <1>3, <2>3, <2>4, <2>6, <2>7 DEF Holding
  <1> QED
    BY <1>3, <1>8, <1>9

\* A command changes versions, but neither hides nor publishes, and deletes no rows.
LEMMA CommandKeeps ==
    ASSUME IndexTypes, Hiding, CommandMoves
    PROVE  /\ writer' = writer /\ configured' = configured /\ past'.broken = past.broken
           /\ \A d \in Docs : documents'[d].state = documents[d].state /\ chunks'[d].state = chunks[d].state
           /\ \A v \in Versions : rows[v] \subseteq rows'[v]
           /\ Hiding' /\ Kept' = Kept
  <1>1. writer' = writer /\ configured' = configured /\ (Make \/ UNCHANGED stores)
    BY DEF CommandMoves, Begin, Command, CommandFault, CommandLost, PlanDocuments, PlanChunks,
       Provision,
           VerifyCandidate, Load, VerifySnapshot, Upsert, VerifyRows, RecordCandidate, CheckAlias,
           SwitchAlias, UpdateDocuments, UpdateChunks, UpdateReleases, Confirm, RestoreAlias, RestoreCatalogs
  <1>2. past'.broken = past.broken
    <2>1. \/ past' = past \/ (\E b : past' = [past EXCEPT !.swapped = b])
          \/ (\E b : past' = [past EXCEPT !.strayed = b])
      BY DEF CommandMoves, Begin, Command, CommandFault, CommandLost, PlanDocuments,
         PlanChunks, Provision,
             VerifyCandidate, Load, VerifySnapshot, Upsert, VerifyRows, RecordCandidate, CheckAlias,
             SwitchAlias, UpdateDocuments, UpdateChunks, UpdateReleases, Confirm, RestoreAlias, RestoreCatalogs
    <2> QED
      BY <2>1 DEF IndexTypes, PastTypes
  <1>3. \A catalog \in [Docs -> Record] : \A v : \A d \in Docs : Versioned(catalog, v)[d].state = catalog[d].state
    BY DEF Versioned, Record
  <1>4. \A d \in Docs : documents'[d].state = documents[d].state /\ chunks'[d].state = chunks[d].state
    <2>1. documents \in [Docs -> Record] /\ chunks \in [Docs -> Record]
      BY DEF IndexTypes, StoreTypes
    <2>2. documents' = documents \/ \E v : documents' = Versioned(documents, v)
      BY <1>1 DEF Make, MakeDocuments, stores, catalogs
    <2>3. chunks' = chunks \/ \E v : chunks' = Versioned(chunks, v)
      BY <1>1 DEF Make, MakeChunks, stores, catalogs
    <2> QED
      BY <1>3, <2>1, <2>2, <2>3
  <1>5. \A v \in Versions : rows[v] \subseteq rows'[v]
    <2>1. rows' = rows \/ rows' = [rows EXCEPT ![Target] = rows[Target] \cup mig.loaded]
      BY <1>1 DEF Make, MakeRows, stores
    <2> QED
      BY <2>1 DEF IndexTypes, StoreTypes
  <1>6. Kept' = Kept
    BY <1>1, <1>2, <1>4 DEF Kept
  <1>7. writer.doc \subseteq Docs /\ (writer.doc # {} => writer.version \in Versions)
    BY DEF IndexTypes, WriterTypes
  <1>8. Hiding'
    BY <1>1, <1>2, <1>4, <1>5, <1>7 DEF Hiding
  <1> QED
    BY <1>1, <1>2, <1>4, <1>5, <1>6, <1>8

\* A command begins, or ends with the alias it found or has restored.
LEMMA FoundAtEnd ==
    ASSUME FoundInv, Calm, CommandMoves, alias' = alias,
           mig'.pc \in {"idle", "plan"}, mig'.outcome # "published",
           mig.pc \notin Switching \/ (alias = Source /\ Source # Target)
    PROVE  Sourcing' /\ Holding'
  <1>1. IndexTypes /\ Hiding /\ Sourcing /\ Holding
    BY DEF FoundInv
  <1>2. configured' = configured /\ Kept' = Kept /\ \A v \in Versions : rows[v] \subseteq rows'[v]
    BY <1>1, CommandKeeps
  <1>3. {"idle", "plan"} \cap (Planned \cup Switching \cup {"plan_chunks"} \cup Publishing) = {}
        /\ {"switch", "documents", "chunks", "deactivate", "activate", "confirm"} \subseteq Planned \cup Switching
    BY DEF Planned, Switching, Publishing, RollingBack
  <1>4. Sourcing'
    BY <1>1, <1>2, <1>3 DEF Sourcing
  <1>5. Source \in Versions /\ Target \in Versions
    BY DEF Versions
  <1> QED
    BY <1>1, <1>2, <1>3, <1>4, <1>5 DEF Holding

\* A command goes from one step to another before it switches.
LEMMA FoundWhilePlanned ==
    ASSUME FoundInv, Calm, CommandMoves, alias' = alias, documents' = documents,
           mig.pc \in Planned, mig'.pc \in Planned, mig'.plan = mig.plan, mig'.outcome = "none",
           mig'.pc = "switch" => mig'.loaded \subseteq rows'[Target]
    PROVE  Sourcing' /\ Holding'
  <1>1. IndexTypes /\ Hiding /\ Sourcing /\ Holding
    BY DEF FoundInv
  <1>2. configured' = configured /\ Kept' = Kept /\ \A v \in Versions : rows[v] \subseteq rows'[v]
    BY <1>1, CommandKeeps
  <1>3. Planned \cap (Switching \cup {"plan_chunks"} \cup Publishing) = {}
        /\ {"documents", "chunks", "deactivate", "activate", "confirm"} \subseteq Switching
    BY DEF Planned, Switching, Publishing, RollingBack
  <1>4. Sourcing'
    BY <1>1, <1>2, <1>3 DEF Sourcing, Sourced
  <1>5. Source \in Versions /\ Target \in Versions
    BY DEF Versions
  <1> QED
    BY <1>1, <1>2, <1>3, <1>4, <1>5 DEF Holding

\* A publish turns to its roll-back, or goes on with it.
LEMMA FoundInRollback ==
    ASSUME FoundInv, Calm, CommandMoves, mig.pc \in Planned \cup Switching,
           mig'.pc \in RollingBack \cup {"restore_alias"}, mig'.outcome = "none"
    PROVE  Sourcing' /\ Holding'
  <1>1. IndexTypes /\ Hiding /\ Sourcing /\ Holding /\ Reverting
    BY DEF FoundInv
  <1>2. configured' = configured /\ Kept' = Kept /\ \A v \in Versions : rows[v] \subseteq rows'[v]
    BY <1>1, CommandKeeps
  <1>3. /\ (RollingBack \cup {"restore_alias"}) \cap (Planned \cup {"plan_chunks"} \cup Publishing) = {}
        /\ {"documents", "chunks", "deactivate", "activate", "confirm"} \subseteq Publishing
        /\ RollingBack \cup {"restore_alias"} \subseteq Switching /\ "switch" \in Planned
    BY DEF Planned, Switching, Publishing, RollingBack
  <1>4. configured = Source /\ (mig.pc \in Planned => alias = Source)
    BY <1>1 DEF Sourcing, Reverting
  <1>5. Sourcing'
    BY <1>2, <1>3, <1>4 DEF Sourcing
  <1>6. Kept \subseteq rows[Source] /\ Source \in Versions
    BY <1>1, <1>4 DEF Holding, Versions
  <1> QED
    BY <1>2, <1>3, <1>5, <1>6 DEF Holding

LEMMA CommandFound ==
    ASSUME FoundInv, CommandMoves, Calm'
    PROVE  Calm /\ Sourcing' /\ Holding'
  <1>a. IndexTypes /\ Reverting /\ Hiding
    BY DEF FoundInv
  <1>b. /\ mig = [f \in DOMAIN NoCommand |-> mig[f]]
        /\ DOMAIN NoCommand = {"pc", "command", "read", "plan", "loaded", "switched", "errors", "outcome"}
        /\ mig.plan.source = Source /\ (mig.pc # "idle" => mig.outcome = "none")
        /\ mig.pc \in Planned \cup Switching => Source # Target
        /\ alias \in Versions /\ Source \in Versions /\ Target \in Versions
    BY <1>a DEF IndexTypes, StoreTypes, MigTypes, NoCommand, Versions
  <1>c. Calm
    <2>1. \/ past' = past \/ (\E b : past' = [past EXCEPT !.swapped = past.swapped \/ b])
          \/ (\E b : past' = [past EXCEPT !.strayed = past.strayed \/ b])
      BY DEF CommandMoves, Begin, Command, CommandFault, CommandLost, PlanDocuments,
         PlanChunks, Provision,
           VerifyCandidate, Load, VerifySnapshot, Upsert, VerifyRows, RecordCandidate, CheckAlias,
           SwitchAlias, UpdateDocuments, UpdateChunks, UpdateReleases, Confirm, RestoreAlias, RestoreCatalogs
    <2> QED
      BY <1>a, <2>1 DEF Calm, IndexTypes, PastTypes
  <1>d. Sourcing /\ Holding
    BY <1>c DEF FoundInv
  <1>e. configured' = configured /\ Kept' = Kept /\ \A v \in Versions : rows[v] \subseteq rows'[v]
    BY <1>a, CommandKeeps
  <1>f. \A outcome : End(outcome) => mig'.pc = "idle" /\ mig'.outcome = outcome
    BY <1>b DEF End, NoCommand
  <1>g. \A pc : Goto(pc) => mig' = [mig EXCEPT !.pc = pc] /\ mig'.pc = pc /\ mig'.plan = mig.plan
                            /\ mig'.read = mig.read /\ mig'.loaded = mig.loaded /\ mig'.outcome = mig.outcome
    BY <1>b DEF Goto
  <1>h. /\ Planned \cap (Switching \cup {"plan_chunks", "idle", "plan"}) = {}
        /\ {"idle", "plan", "plan_chunks"} \cap Switching = {}
        /\ Publishing \subseteq Switching /\ RollingBack \subseteq Switching /\ "restore_alias" \in Switching
        /\ (RollingBack \cup {"restore_alias"}) \cap Publishing = {}
        /\ {"documents", "chunks", "deactivate", "activate", "confirm"} = Publishing
        /\ {"switch", "provision", "candidate", "load", "recount", "recount_chunks", "upsert", "verify",
            "record", "check_alias"} = Planned
        /\ {"restore_documents", "restore_chunks", "restore_source", "restore_target"} = RollingBack
    BY DEF Planned, Switching, Publishing, RollingBack
  <1>i. mig.pc \in Planned => alias = Source
    BY <1>a, <1>d DEF Sourcing, Reverting
  <1>j. mig.pc \in RollingBack => alias = Source
    BY <1>a, <1>c, <1>d, <1>h DEF Sourcing, Reverting, Calm
  <1>k. mig.pc \in Publishing => alias = Target
    BY <1>d DEF Sourcing
  <1>l. Rollback => mig'.pc \in RollingBack \cup {"restore_alias"} /\ mig'.outcome = mig.outcome
    BY <1>g, <1>h DEF Rollback
  <1>m. Refuse => mig'.pc = "idle" /\ mig'.outcome = "refused"
    BY <1>f DEF Refuse
  <1>1. CASE \E command \in {"build", "publish"} : Begin(command)
    <2>1. alias' = alias /\ mig.pc = "idle" /\ mig'.pc = "plan" /\ mig'.outcome = "none"
      BY <1>1 DEF Begin, At, NoCommand, stores
    <2> QED
      BY <1>c, <1>h, <2>1, FoundAtEnd
  <1>2. CASE PlanDocuments
    <2>1. UNCHANGED stores
      BY <1>2 DEF PlanDocuments
    <2>2. CASE Refuse
      <3>1. mig.pc \notin Switching
        BY <1>2, <1>h DEF PlanDocuments
      <3> QED
        BY <1>c, <1>m, <2>1, <2>2, <3>1, FoundAtEnd DEF stores
    <2>3. CASE ~Refuse
      <3> DEFINE read == [source |-> alias, documents |-> Published(documents), chunks |-> 0]
      <3>1. /\ VersionsOf(documents) = {alias}
            /\ \E pc \in {"plan_chunks", "recount_chunks"} :
                 /\ mig.pc = IF pc = "plan_chunks" THEN "plan" ELSE "recount"
                 /\ mig' = [mig EXCEPT !.pc = pc, !.read = read]
        BY <1>2, <2>3 DEF PlanDocuments
      <3>2. \A d \in Published(documents) : documents[d].version = alias
        BY <3>1 DEF VersionsOf
      <3>3. read.source = alias /\ read.documents = Published(documents)
        OBVIOUS
      <3> HIDE DEF read
      <3>4. CASE mig.pc = "recount"
        <4>1. mig'.pc = "recount_chunks" /\ mig'.plan = mig.plan /\ mig'.outcome = "none"
          BY <1>b, <3>1, <3>4
        <4> QED
          BY <1>c, <1>h, <2>1, <3>4, <4>1, FoundWhilePlanned DEF stores, catalogs
      <3>5. CASE mig.pc = "plan"
        <4>1. mig'.pc = "plan_chunks" /\ mig'.read = read /\ mig'.outcome = "none"
          BY <1>b, <3>1, <3>5
        <4>2. Sourcing'
          BY <1>d, <1>e, <1>h, <2>1, <3>2, <3>3, <4>1 DEF Sourcing, Sourced, stores, catalogs
        <4>3. mig.pc \notin Switching /\ mig'.pc \notin Switching
              /\ mig'.pc \notin {"switch", "documents", "chunks", "deactivate", "activate", "confirm"}
          BY <1>h, <3>5, <4>1
        <4>4. Holding'
          BY <1>d, <1>e, <2>1, <4>3 DEF Holding, stores
        <4> QED
          BY <1>c, <4>2, <4>4
      <3> QED
        BY <3>1, <3>4, <3>5
    <2> QED
      BY <2>2, <2>3
  <1>3. CASE PlanChunks
    <2>1. UNCHANGED stores /\ mig.pc = "plan_chunks"
      BY <1>3 DEF PlanChunks, At
    <2>2. CASE Refuse
      BY <1>c, <1>h, <1>m, <2>1, <2>2, FoundAtEnd DEF stores
    <2>3. CASE ~Refuse
      <3>1. /\ mig.read.source # Target
            /\ \E pc \in {"provision", "candidate"} : mig' = [mig EXCEPT !.pc = pc, !.plan = Plan]
        BY <1>3, <2>3 DEF PlanChunks
      <3>2. Plan.documents = mig.read.documents
        BY <1>a DEF Plan, IndexTypes, MigTypes, IsPlan, NoPlan
      <3>3. mig'.pc \in {"provision", "candidate"} /\ mig'.plan = Plan /\ mig'.outcome = "none"
        BY <1>b, <2>1, <3>1
      <3>4. alias = Source /\ Source # Target /\ Sourced(mig.read.documents)
        BY <1>b, <1>d, <2>1, <3>1 DEF Sourcing, Versions
      <3>5. mig'.pc \in Planned /\ mig'.pc \notin Switching \cup {"plan_chunks", "switch"}
        BY <1>h, <3>3
      <3>6. Sourcing'
        BY <1>d, <1>e, <1>h, <2>1, <3>2, <3>3, <3>4, <3>5 DEF Sourcing, Sourced, stores,
           catalogs
      <3>7. Holding'
        BY <1>d, <1>e, <1>h, <2>1, <3>4, <3>5 DEF Holding, stores
      <3> QED
        BY <1>c, <3>6, <3>7
    <2> QED
      BY <2>2, <2>3
  <1>4. CASE Provision \/ VerifyCandidate \/ Load \/ VerifySnapshot \/ VerifyRows \/ CheckAlias
    <2>1. /\ UNCHANGED stores /\ mig.pc \in Planned /\ mig.pc \notin Switching
          /\ \/ mig'.pc = "idle" /\ mig'.outcome # "published"
             \/ /\ mig'.pc \in Planned \ {"switch"} /\ mig'.plan = mig.plan /\ mig'.outcome = "none"
             \/ /\ mig'.pc \in Planned /\ mig'.plan = mig.plan /\ mig'.outcome = "none"
                /\ mig'.loaded = mig.loaded /\ mig.loaded \subseteq rows[Target]
      <3>1. CASE Load
        BY <1>b, <1>h, <1>m, <3>1, ZenonT(60) DEF Load, At
      <3>2. CASE Provision \/ VerifyCandidate \/ VerifySnapshot
        BY <1>b, <1>g, <1>h, <1>m, <3>2 DEF Provision, VerifyCandidate, VerifySnapshot, At
      <3>3. CASE VerifyRows
        BY <1>b, <1>g, <1>h, <1>m, <3>3 DEF VerifyRows, RowsVerified, At
      <3>4. CASE CheckAlias
        BY <1>f, <1>h, <1>m, <3>4 DEF CheckAlias, At
      <3> QED
        BY <1>4, <3>1, <3>2, <3>3, <3>4
    <2>2. UNCHANGED <<alias, documents, rows>>
      BY <2>1 DEF stores, catalogs
    <2> QED
      BY <1>c, <2>1, <2>2, FoundAtEnd, FoundWhilePlanned
  <1>5. CASE Upsert \/ RecordCandidate
    <2>1. /\ UNCHANGED <<alias, documents>> /\ mig.pc \in Planned /\ mig'.pc \in Planned \ {"switch"}
          /\ mig'.plan = mig.plan /\ mig'.outcome = "none"
      BY <1>5, <1>b, <1>g, <1>h DEF Upsert, RecordCandidate, At, Make, MakeRows, MakeAlias,
         MakeDocuments,
                                    MakeChunks, MakeRelease, catalogs
    <2> QED
      BY <1>c, <2>1, FoundWhilePlanned
  <1>6. CASE SwitchAlias
    <2>1. /\ mig.pc = "switch" /\ alias' = Target /\ UNCHANGED <<documents, rows>>
          /\ mig'.pc = "documents" /\ mig'.plan = mig.plan /\ mig'.loaded = mig.loaded /\ mig'.outcome = "none"
      BY <1>6, <1>b DEF SwitchAlias, At, Make, MakeRows, MakeAlias, MakeDocuments, MakeChunks,
         MakeRelease,
                        catalogs
    <2>2. "documents" \in Switching /\ "documents" \notin Planned \cup {"plan_chunks"} /\ "switch" \in Planned
      BY <1>h
    <2>3. Sourcing'
      BY <1>b, <1>d, <1>e, <2>1, <2>2 DEF Sourcing, Sourced
    <2>4. Holding'
      BY <1>d, <1>e, <1>i, <2>1, <2>2 DEF Holding
    <2> QED
      BY <1>c, <2>3, <2>4
  <1>7. CASE UpdateDocuments
    <2>1. /\ mig.pc = "documents" /\ UNCHANGED <<alias, rows>>
          /\ mig'.pc = "chunks" /\ mig'.plan = mig.plan /\ mig'.loaded = mig.loaded /\ mig'.outcome = "none"
          /\ mig'.read.documents = Published(documents)
      <3>1. mig.read = [f \in DOMAIN NoPlan |-> mig.read[f]] /\ "documents" \in DOMAIN NoPlan
        BY <1>a DEF IndexTypes, MigTypes, IsPlan, NoPlan
      <3>2. mig.pc = "documents" /\ UNCHANGED <<alias, rows>>
            /\ mig' = [mig EXCEPT !.pc = "chunks", !.read = [mig.read EXCEPT !.documents = Published(documents)]]
        BY <1>7 DEF UpdateDocuments, At, Make, MakeRows, MakeAlias, MakeDocuments, MakeChunks,
           MakeRelease,
                    catalogs
      <3> QED
        BY <1>b, <3>1, <3>2
    <2>2. "chunks" \in Switching /\ "chunks" \notin Planned \cup {"plan_chunks", "documents"}
          /\ "documents" \in Publishing /\ "documents" \in Switching
      BY <1>h
    <2>3. Sourcing'
      BY <1>b, <1>d, <1>e, <1>k, <2>1, <2>2 DEF Sourcing
    <2>4. Kept \subseteq Published(documents)
      BY DEF Kept, Published
    <2>5. Holding'
      BY <1>d, <1>e, <2>1, <2>2, <2>4 DEF Holding
    <2> QED
      BY <1>c, <2>3, <2>5
  <1>8. CASE UpdateChunks
    <2>1. mig.pc = "chunks" /\ UNCHANGED <<alias, rows>>
      BY <1>8 DEF UpdateChunks, At, Make, MakeRows, MakeAlias, MakeDocuments, MakeChunks,
         MakeRelease
    <2>2. CASE ~CountsMatch
      BY <1>8, <1>b, <1>c, <1>h, <1>l, <2>1, <2>2, FoundInRollback DEF UpdateChunks
    <2>3. CASE CountsMatch
      <3>1. Goto("deactivate") /\ past' = [past EXCEPT !.swapped = past.swapped \/ Swapped]
        BY <1>8, <2>3 DEF UpdateChunks
      <3>2. ~Swapped
        BY <1>a, <3>1 DEF Calm, IndexTypes, PastTypes
      <3>3. Cardinality(mig.loaded) = mig.plan.chunks
        BY <1>a, <2>1 DEF IndexTypes, MigTypes, Loaded
      <3>4. mig.read.documents = mig.plan.documents /\ Published(chunks) = mig.loaded
        BY <2>3, <3>2, <3>3 DEF CountsMatch, Swapped
      <3>5. Kept \subseteq rows[Target] /\ Kept \subseteq rows[Source]
        <4>1. Kept \subseteq Published(chunks)
          BY DEF Kept, Published
        <4> QED
          BY <1>d, <1>h, <2>1, <3>4, <4>1 DEF Holding
      <3>6. mig'.pc = "deactivate" /\ mig'.outcome = "none" /\ "deactivate" \in Publishing
            /\ "deactivate" \in Switching /\ "deactivate" \notin Planned \cup {"plan_chunks"}
            /\ mig.pc \in Publishing /\ mig.pc \in Switching
        BY <1>b, <1>g, <1>h, <2>1, <3>1
      <3>7. Sourcing'
        BY <1>d, <1>e, <1>k, <1>b, <2>1, <3>6 DEF Sourcing
      <3>8. Holding'
        BY <1>e, <2>1, <3>5, <3>6 DEF Holding
      <3> QED
        BY <1>c, <3>7, <3>8
    <2> QED
      BY <2>2, <2>3
  <1>9. CASE UpdateReleases
    <2>1. /\ mig.pc \in {"deactivate", "activate"} /\ UNCHANGED <<alias, rows>>
          /\ mig'.pc \in {"activate", "confirm"} /\ mig'.outcome = "none"
      BY <1>9, <1>b, <1>g DEF UpdateReleases, At, Make, MakeRows, MakeAlias, MakeDocuments,
         MakeChunks, MakeRelease,
                       catalogs
    <2>2. /\ mig.pc \in Publishing /\ mig.pc \in Switching /\ mig'.pc \in Publishing /\ mig'.pc \in Switching
          /\ mig'.pc \notin Planned \cup {"plan_chunks", "documents", "chunks", "switch"}
      BY <1>h, <2>1
    <2>3. Sourcing'
      BY <1>b, <1>d, <1>e, <1>k, <2>1, <2>2 DEF Sourcing
    <2>4. Holding'
      BY <1>d, <1>e, <2>1, <2>2 DEF Holding
    <2> QED
      BY <1>c, <2>3, <2>4
  <1>10. CASE Confirm
    <2>1. mig.pc = "confirm" /\ UNCHANGED stores /\ alias = Target /\ Source # Target
      BY <1>10, <1>b, <1>h, <1>k DEF Confirm, At
    <2>2. mig'.pc = "idle" /\ mig'.outcome = "published"
      BY <1>10, <1>f, <2>1 DEF Confirm
    <2>3. "idle" \notin Planned \cup Switching \cup Publishing
      BY <1>h
    <2>4. Sourcing'
      BY <1>d, <1>e, <2>1, <2>2, <2>3 DEF Sourcing, stores
    <2>5. Holding'
      BY <1>d, <1>e, <2>1, <2>2, <2>3 DEF Holding, stores
    <2> QED
      BY <1>c, <2>4, <2>5
  <1>11. CASE RestoreAlias
    <2>1. mig.pc = "restore_alias" /\ mig'.pc = "restore_documents" /\ mig'.outcome = "none"
      BY <1>11, <1>b, <1>g DEF RestoreAlias, At
    <2> QED
      BY <1>c, <1>h, <2>1, FoundInRollback
  <1>12. CASE RestoreCatalogs
    <2>1. mig.pc \in RollingBack /\ alias' = alias
      BY <1>12, <1>h DEF RestoreCatalogs, At, Make, MakeRows, MakeAlias, MakeDocuments,
         MakeChunks, MakeRelease,
                         catalogs
    <2>2. \/ mig'.pc = "idle" /\ mig'.outcome \in {"repair", "failed"}
          \/ mig'.pc \in RollingBack /\ mig'.outcome = "none"
      BY <1>12, <1>b, <1>f, <1>g, <1>h DEF RestoreCatalogs, At
    <2> QED
      BY <1>b, <1>c, <1>h, <1>j, <2>1, <2>2, FoundAtEnd, FoundInRollback
  <1>13. CASE CommandFault
    <2>1. past' = [past EXCEPT !.strayed = past.strayed \/ (At("switch") /\ alias' # alias) \/ At("restore_alias")]
      BY <1>13 DEF CommandFault
    <2>2. mig.pc # "restore_alias" /\ (mig.pc = "switch" => alias' = alias) /\ mig.pc # "idle"
      BY <1>13, <1>a, <2>1 DEF Calm, IndexTypes, PastTypes, At, CommandFault
    <2>3. CASE mig.pc \in Publishing \cup {"switch"}
      <3>1. Rollback
        BY <1>13, <2>3 DEF CommandFault, At, Publishing, RollingBack
      <3> QED
        BY <1>b, <1>c, <1>h, <1>l, <2>2, <2>3, <3>1, FoundInRollback
    <2>4. CASE mig.pc \notin Publishing \cup {"switch"}
      <3>1. alias' = alias
        BY <1>13, <2>2, <2>4 DEF CommandFault, At, Make, MakeAlias, stores
      <3>2. mig'.pc = "idle" /\ mig'.outcome \in {"repair", "refused"}
        BY <1>13, <1>f, <1>m, <2>2, <2>4 DEF CommandFault, At
      <3>3. mig.pc \in Switching => mig.pc \in RollingBack
        BY <2>2, <2>4 DEF Switching
      <3> QED
        BY <1>b, <1>c, <1>j, <1>h, <3>1, <3>2, <3>3, FoundAtEnd
    <2> QED
      BY <2>3, <2>4
  <1>14. CASE CommandLost
    <2>1. /\ UNCHANGED stores /\ mig'.pc = "idle" /\ mig'.outcome = "lost"
          /\ past' = [past EXCEPT !.strayed = past.strayed \/ mig.switched]
      BY <1>14, <1>f DEF CommandLost
    <2>2. ~mig.switched
      BY <1>a, <2>1 DEF Calm, IndexTypes, PastTypes
    <2>3. mig.pc \in Switching => mig.pc \in RollingBack
      BY <1>a, <2>2 DEF IndexTypes, MigTypes, Switching
    <2> QED
      BY <1>b, <1>c, <1>j, <1>h, <2>1, <2>3, FoundAtEnd DEF stores
  <1> QED
    BY <1>1, <1>2, <1>3, <1>4, <1>5, <1>6, <1>7, <1>8, <1>9, <1>10, <1>11, <1>12, <1>13, <1>14
       DEF CommandMoves, Command

LEMMA FoundStep == FoundInv /\ [IndexNext]_indexVars => FoundInv'
  <1> SUFFICES ASSUME FoundInv, [IndexNext]_indexVars PROVE FoundInv'
    OBVIOUS
  <1>1. IndexTypes' /\ Reverting'
    BY IndexTyped, RevertingStep DEF FoundInv
  <1>2. CASE WriterMoves
    BY <1>1, <1>2, WriterFound, WriterKeeps DEF FoundInv
  <1>3. CASE CommandMoves
    BY <1>1, <1>3, CommandFound, CommandKeeps DEF FoundInv
  <1>4. CASE Reconfigure
    <2>1. /\ mig.outcome = "published" /\ mig.pc = "idle"
          /\ UNCHANGED <<documents, chunks, rows, alias, writer, mig, past>>
      BY <1>4 DEF Reconfigure, FoundInv, IndexTypes, MigTypes, stores, catalogs
    <2>2. Kept' = Kept /\ Hiding' /\ Calm' = Calm
      BY <2>1 DEF Kept, Hiding, Calm, FoundInv
    <2>3. "idle" \notin Planned \cup Switching
      BY DEF Planned, Switching, Publishing, RollingBack
    <2>4. Calm => Sourcing' /\ Holding'
      BY <2>1, <2>2, <2>3 DEF FoundInv, Sourcing, Sourced, Holding
    <2> QED
      BY <1>1, <2>2, <2>4 DEF FoundInv
  <1>5. CASE UNCHANGED indexVars
    BY <1>1, <1>5 DEF FoundInv, Hiding, Calm, Sourcing, Sourced, Holding, Kept, indexVars,
       stores, catalogs
  <1> QED
    BY <1>2, <1>3, <1>4, <1>5 DEF IndexNext, WriterMoves, CommandMoves

LEMMA FoundStarts == IndexInit => FoundInv
  <1> SUFFICES ASSUME IndexInit PROVE FoundInv
    OBVIOUS
  <1>1. IndexTypes
    BY IndexStarts
  <1>2. /\ mig = NoCommand /\ mig.pc = "idle" /\ mig.outcome = "none" /\ mig.plan.source = Source
        /\ writer.doc = {} /\ writer.version = Source /\ alias = Source /\ configured = Source
    BY DEF IndexInit, NoCommand, NoPlan, Idle
  <1>3. "idle" \notin Planned \cup Switching /\ Publishing \subseteq Switching /\ RollingBack \subseteq Switching
        /\ {"restore_chunks", "restore_source", "restore_target"} \subseteq Switching
        /\ {"chunks", "documents", "deactivate", "activate", "confirm"} \subseteq Switching
    BY DEF Planned, Switching, Publishing, RollingBack
  <1>4. Reverting /\ Hiding /\ Sourcing
    BY <1>2, <1>3 DEF Reverting, Hiding, Sourcing
  <1>5. Kept \subseteq rows[Source]
    BY DEF IndexInit, Kept, Versions
  <1> QED
    BY <1>1, <1>2, <1>3, <1>4, <1>5 DEF FoundInv, Holding

LEMMA FoundSuffices == FoundInv => PublishedIsFound
  <1> SUFFICES ASSUME FoundInv, mig.pc \notin Switching, Calm
               PROVE  (Published(documents) \cap Published(chunks)) \ (writer.doc \cup past.broken) \subseteq rows[alias]
    BY DEF PublishedIsFound, Calm
  <1>1. (Published(documents) \cap Published(chunks)) \ (writer.doc \cup past.broken) \subseteq Kept
    BY DEF Published, Kept
  <1>2. alias \in {Source, Target}
    BY DEF FoundInv, IndexTypes, StoreTypes, Versions
  <1> QED
    BY <1>1, <1>2 DEF FoundInv, Holding

LEMMA GovernedIndexStep == [GovernedNext]_<<indexVars, searchVars>> => [IndexNext]_indexVars
  BY DEF GovernedNext, GovernedStep

\* While no command is switching the index, every document published in both catalogs has
\* its rows where the alias points, whatever writers, faults, builds and publishes were
\* interleaved (embedding_index_migration.py), but for what PublishedIsFound excuses.
THEOREM PublishedStaysFound == GovernedSpec => []PublishedIsFound
  <1>1. GovernedInit => FoundInv
    BY FoundStarts DEF GovernedInit
  <1>2. FoundInv /\ [GovernedNext]_<<indexVars, searchVars>> => FoundInv'
    BY FoundStep, GovernedIndexStep
  <1> QED
    BY <1>1, <1>2, FoundSuffices, PTL DEF GovernedSpec

\* A command that failed after it switched the index has put back the alias and the versions
\* of its documents and chunks in both catalogs, unless it said that the roll-back failed
\* (publish, _restore_catalog_versions and _restore_alias of embedding_index_migration.py).
THEOREM FailedPublishesRestore == GovernedSpec => RestoredOnFailure
  <1>1. GovernedInit => FoundInv
    BY FoundStarts DEF GovernedInit
  <1>2. FoundInv /\ [GovernedNext]_<<indexVars, searchVars>> => FoundInv'
    BY FoundStep, GovernedIndexStep
  <1>3. FoundInv /\ [GovernedNext]_<<indexVars, searchVars>> => [FailedPublishRestores]_indexVars
    BY FailedHasRestored, GovernedIndexStep DEF FoundInv
  <1> QED
    BY <1>1, <1>2, <1>3, PTL DEF GovernedSpec, RestoredOnFailure

-----------------------------------------------------------------------------
(* The scripts that migrate the schema *)

SomeForm == Forms \cup {"none"}
Entries == {Absent} \cup [exists : {TRUE}, written : BOOLEAN, index : [AllNames -> SomeForm]]
AllChanges == [operation : {"drop", "create", "remove"}, c : Collections, n : AllNames, form : SomeForm]

\* The places of a script that has its snapshot.
AtWork == {"act", "preflight", "restore", "undo"}

SchemaTypes ==
    /\ store \in [Collections -> Entries]
    /\ script = [f \in {"pc", "s", "touched", "rest", "outcome"} |-> script[f]]
    /\ script.pc \in {"idle", "capture"} \cup AtWork /\ script.s \in Scripts
    /\ script.pc # "idle" => script.outcome = "none"
    /\ snapshot = [by |-> snapshot.by, store |-> snapshot.store]
    /\ snapshot.by \in Scripts /\ snapshot.store \in [Collections -> Entries]
    /\ todo \subseteq AllChanges

\* A collection is as it was found.
AsFound(c) ==
    /\ Before(c).exists => store[c].exists
    /\ store[c].exists /\ script.s.removes => Before(c).exists \/ c \in late
    /\ \A n \in AllNames : Before(c).index[n] # "none" => store[c].index[n] = Before(c).index[n]
    /\ \A n \in Names : Before(c).index[n] = "none" => store[c].index[n] = "none"

\* A collection that is to be removed.
Made(c) == ~Before(c).exists /\ script.s.removes

\* What a script has found it has found for itself, and a collection stays.
Capturing ==
    /\ script.pc = "capture" => script.touched = {} /\ script.rest = {}
    /\ script.pc \in AtWork => snapshot.by = script.s /\ script.rest \subseteq script.s.of
    /\ \A c \in Collections : Before(c).exists => store[c].exists

\* What a script that only adds has yet to make was not there, and of a script that counts
\* no documents the collections it has not touched are as they were.
Acting ==
    script.pc = "act" =>
      /\ script.touched \subseteq script.s.of
      /\ \A t \in todo : /\ t.c \in script.s.of /\ t.operation # "remove"
                         /\ script.s.additive => Before(t.c).index[t.n] = "none"
      /\ script.s.counts \/ \A c \in script.s.of \ script.touched : AsFound(c)

\* What a look ahead of all collections has found holds on.
LookedAhead ==
    /\ script.pc = "preflight" => script.s.ahead /\ script.rest = script.s.of
    /\ script.pc \in {"restore", "undo"} /\ script.s.ahead =>
         \A c \in script.s.of :
           IF Before(c).exists THEN Undisturbed(c) ELSE store[c].written => c \in late

\* A collection whose indexes are being put back: what has no change to come is as it was.
Undoing(c) ==
    /\ \A t \in todo : t.c = c
    /\ IF Made(c)
         THEN IF todo = {} THEN AsFound(c)
              ELSE todo = {Change("remove", c, Extra, "none")} /\ (store[c].written => c \in late)
         ELSE /\ \A t \in todo : t.operation # "remove"
              /\ \A n \in Names : Before(c).index[n] = "none" /\ store[c].index[n] # "none" =>
                   Change("drop", c, n, "none") \in todo
              /\ IF script.s.additive
                   THEN /\ \A n \in AllNames : Before(c).index[n] # "none" => store[c].index[n] = Before(c).index[n]
                        /\ \A t \in todo : t.operation = "drop" /\ t.form = "none" /\ Before(c).index[t.n] = "none"
                   ELSE /\ \A t \in todo : t.form = IF t.operation = "drop" THEN "none" ELSE Before(c).index[t.n]
                        /\ \A n \in AllNames :
                             \/ Before(c).index[n] = "none"
                             \/ Change("create", c, n, Before(c).index[n]) \in todo
                             \/ /\ store[c].index[n] = Before(c).index[n]
                                /\ \A t \in todo : t.operation # "drop"

\* The collections that a script has gone through are as they were.
PuttingBack ==
    /\ script.pc = "restore" => \A c \in script.s.of \ script.rest : AsFound(c)
    /\ script.pc = "undo" =>
         \E c \in script.s.of \ script.rest :
           Undoing(c) /\ \A b \in script.s.of \ (script.rest \cup {c}) : AsFound(b)

SchemaInv == SchemaTypes /\ Capturing /\ Acting /\ LookedAhead /\ PuttingBack

\* What the scripts have in common.
LEMMA ScriptFacts ==
    ASSUME NEW s \in Scripts
    PROVE  /\ s.of \subseteq Collections
           /\ s.counts \in BOOLEAN /\ s.ahead \in BOOLEAN /\ s.additive \in BOOLEAN /\ s.removes \in BOOLEAN
           /\ s.additive => s.counts /\ s.removes /\ s.replaces = {}
           /\ s.ahead => s.additive /\ s.counts
           /\ s.later => s.counts
           /\ s.removes => s.counts
  <1>1. 1 \in Collections
    BY NumCollectionsAssumption DEF Collections
  <1>2. \A r \in {SourceGovernance, LifecycleOperations, StandardizationJobs, PublicationBatches} :
          /\ r.of \in {Collections, {1}} /\ r.additive = TRUE /\ r.counts = TRUE /\ r.ahead \in BOOLEAN
          /\ r.replaces = {} /\ r.removes = TRUE /\ r.later = TRUE
    <2>1. /\ SourceGovernance.of = Collections /\ SourceGovernance.additive = TRUE /\ SourceGovernance.counts = TRUE
          /\ SourceGovernance.ahead = TRUE /\ SourceGovernance.replaces = {} /\ SourceGovernance.removes = TRUE
          /\ SourceGovernance.later = TRUE
      BY DEF SourceGovernance
    <2>2. /\ LifecycleOperations.of = {1} /\ LifecycleOperations.additive = TRUE /\ LifecycleOperations.counts = TRUE
          /\ LifecycleOperations.ahead = FALSE /\ LifecycleOperations.replaces = {}
          /\ LifecycleOperations.removes = TRUE /\ LifecycleOperations.later = TRUE
      BY DEF SourceGovernance, LifecycleOperations
    <2>3. /\ StandardizationJobs.of = {1} /\ StandardizationJobs.additive = TRUE /\ StandardizationJobs.counts = TRUE
          /\ StandardizationJobs.ahead = FALSE /\ StandardizationJobs.replaces = {}
          /\ StandardizationJobs.removes = TRUE /\ StandardizationJobs.later = TRUE
      BY DEF SourceGovernance, LifecycleOperations, StandardizationJobs
    <2>4. /\ PublicationBatches.of = Collections /\ PublicationBatches.additive = TRUE /\ PublicationBatches.counts = TRUE
          /\ PublicationBatches.ahead = FALSE /\ PublicationBatches.replaces = {}
          /\ PublicationBatches.removes = TRUE /\ PublicationBatches.later = TRUE
      BY DEF SourceGovernance, PublicationBatches
    <2> QED
      BY <2>1, <2>2, <2>3, <2>4
  <1>3. /\ TableAssets.of = {1} /\ TableAssets.additive = FALSE /\ TableAssets.counts = TRUE
        /\ TableAssets.ahead = FALSE /\ TableAssets.removes = TRUE /\ TableAssets.later = TRUE
    BY DEF SourceGovernance, LifecycleOperations, TableAssets
  <1>4. \A r \in {CatalogIndexes, AgentMemory} :
          /\ r.of = Collections /\ r.additive = FALSE /\ r.counts = FALSE
          /\ r.ahead = FALSE /\ r.removes = FALSE /\ r.later = FALSE
    <2>1. /\ CatalogIndexes.of = Collections /\ CatalogIndexes.additive = FALSE /\ CatalogIndexes.counts = FALSE
          /\ CatalogIndexes.ahead = FALSE /\ CatalogIndexes.removes = FALSE /\ CatalogIndexes.later = FALSE
      BY DEF CatalogIndexes
    <2>2. /\ AgentMemory.of = Collections /\ AgentMemory.additive = FALSE /\ AgentMemory.counts = FALSE
          /\ AgentMemory.ahead = FALSE /\ AgentMemory.removes = FALSE /\ AgentMemory.later = FALSE
      BY DEF CatalogIndexes, AgentMemory
    <2> QED
      BY <2>1, <2>2
  <1>5. CASE s \in {SourceGovernance, LifecycleOperations, StandardizationJobs, PublicationBatches}
    <2>1. /\ s.of \in {Collections, {1}} /\ s.additive = TRUE /\ s.counts = TRUE /\ s.ahead \in BOOLEAN
          /\ s.replaces = {} /\ s.removes = TRUE /\ s.later = TRUE
      BY <1>2, <1>5
    <2> QED
      BY <1>1, <2>1
  <1>6. CASE s = TableAssets
    BY <1>1, <1>3, <1>6
  <1>7. CASE s \in {CatalogIndexes, AgentMemory}
    BY <1>4, <1>7
  <1> QED
    BY <1>5, <1>6, <1>7 DEF Scripts

LEMMA EntryShape ==
    /\ Absent \in Entries /\ ~Absent.exists /\ ~Absent.written /\ \A n \in AllNames : Absent.index[n] = "none"
    /\ \A e \in Entries :
         /\ e = [exists |-> e.exists, written |-> e.written, index |-> e.index]
         /\ e.index \in [AllNames -> SomeForm] /\ e.written \in BOOLEAN /\ e.exists \in BOOLEAN
         /\ e.exists \/ e = Absent
  <1>1. Absent = [exists |-> FALSE, written |-> FALSE, index |-> Bare] /\ Bare \in [AllNames -> SomeForm]
    BY DEF Absent, Bare, SomeForm
  <1>2. \A n \in AllNames : Absent.index[n] = "none"
    BY DEF Absent, Bare
  <1>3. ASSUME NEW e \in Entries
        PROVE  /\ e = [exists |-> e.exists, written |-> e.written, index |-> e.index]
               /\ e.index \in [AllNames -> SomeForm] /\ e.written \in BOOLEAN /\ e.exists \in BOOLEAN
               /\ e.exists \/ e = Absent
    <2>1. CASE e = Absent
      BY <1>1, <2>1
    <2>2. CASE e \in [exists : {TRUE}, written : BOOLEAN, index : [AllNames -> SomeForm]]
      BY <2>2
    <2> QED
      BY <1>3, <2>1, <2>2 DEF Entries
  <1>4. Absent \in Entries /\ ~Absent.exists /\ ~Absent.written
    BY <1>1 DEF Entries
  <1> QED
    BY <1>2, <1>3, <1>4

LEMMA EntryFields ==
    ASSUME SchemaTypes, NEW c \in Collections
    PROVE  /\ store[c] = [exists |-> store[c].exists, written |-> store[c].written, index |-> store[c].index]
           /\ store[c].index \in [AllNames -> SomeForm] /\ store[c].written \in BOOLEAN
           /\ store[c].exists \/ store[c] = Absent
           /\ store[c].exists \in BOOLEAN
           /\ Before(c).index \in [AllNames -> SomeForm] /\ Before(c).exists \in BOOLEAN
           /\ Before(c).exists \/ Before(c) = Absent
  <1>1. store[c] \in Entries /\ Before(c) \in Entries
    BY DEF SchemaTypes, Before
  <1> QED
    BY <1>1, EntryShape

LEMMA Carries ==
    ASSUME SchemaTypes, NEW t \in AllChanges, Carry(t)
    PROVE  /\ store' \in [Collections -> Entries]
           /\ \A c \in Collections :
                /\ store'[c].written = store[c].written /\ (store[c].exists => store'[c].exists)
                /\ c # t.c => store'[c] = store[c]
                /\ \A n \in AllNames :
                     store'[c].index[n] = IF c = t.c /\ n = t.n THEN t.form ELSE store[c].index[n]
  <1> DEFINE e == store[t.c]
             index == [e.index EXCEPT ![t.n] = t.form]
             changed == [e EXCEPT !.index = index]
             new == [changed EXCEPT !.exists = TRUE]
  <1>1. t.c \in Collections /\ t.n \in AllNames /\ t.form \in SomeForm
    BY DEF AllChanges
  <1>2. /\ e = [exists |-> e.exists, written |-> e.written, index |-> e.index]
        /\ e.index \in [AllNames -> SomeForm] /\ e.written \in BOOLEAN
    BY <1>1, EntryFields
  <1>3. store' = [store EXCEPT ![t.c] = new]
    BY <1>1 DEF Carry, SchemaTypes
  <1>4. /\ index \in [AllNames -> SomeForm]
        /\ \A n \in AllNames : index[n] = IF n = t.n THEN t.form ELSE store[t.c].index[n]
    BY <1>1, <1>2
  <1>5. changed = [exists |-> e.exists, written |-> e.written, index |-> index]
    <2> HIDE DEF index, e
    <2> QED
      BY <1>2
  <1>6. new \in Entries /\ new.written = store[t.c].written /\ new.exists /\ new.index = index
    <2> HIDE DEF changed, index, e
    <2>1. new \in [exists : {TRUE}, written : BOOLEAN, index : [AllNames -> SomeForm]]
      BY <1>2, <1>4, <1>5
    <2>2. new.written = e.written /\ new.exists /\ new.index = index
      BY <1>5
    <2> QED
      BY <2>1, <2>2 DEF Entries, e
  <1> HIDE DEF new, index
  <1>7. store' \in [Collections -> Entries] /\ store'[t.c] = new /\ \A b \in Collections : b # t.c => store'[b] = store[b]
    BY <1>1, <1>3, <1>6 DEF SchemaTypes
  <1> QED
    BY <1>1, <1>4, <1>6, <1>7

\* What services and operators do to the collections.
LEMMA Surroundings ==
    ASSUME SchemaTypes, NEW c \in Collections, ServiceWrites(c) \/ OperatorAdds(c)
    PROVE  /\ UNCHANGED <<script, snapshot, todo>> /\ late \subseteq late'
           /\ store' \in [Collections -> Entries]
           /\ \A b \in Collections :
                /\ store[b].exists => store'[b].exists
                /\ store'[b].exists => store[b].exists \/ b \in late'
                /\ store[b].written => store'[b].written
                /\ store'[b].written => store[b].written \/ b \in late'
                /\ \A n \in Names : store'[b].index[n] = store[b].index[n]
                /\ \A n \in AllNames : store[b].index[n] # "none" => store'[b].index[n] = store[b].index[n]
  <1> DEFINE e == store[c]
             index == [e.index EXCEPT ![Extra] = "other"]
             written == [[e EXCEPT !.exists = TRUE] EXCEPT !.written = TRUE]
             added == [e EXCEPT !.index = index]
  <1>1. /\ e = [exists |-> e.exists, written |-> e.written, index |-> e.index]
        /\ e.index \in [AllNames -> SomeForm] /\ e.written \in BOOLEAN /\ e.exists \in BOOLEAN
    BY EntryFields
  <1>2. Extra \in AllNames /\ "other" \in SomeForm /\ \A n \in Names : n # Extra /\ n \in AllNames
    BY ExtraAssumption DEF AllNames, SomeForm, Forms
  <1>3. CASE ServiceWrites(c)
    <2>1. store' = [store EXCEPT ![c] = written] /\ late' = late \cup {c} /\ UNCHANGED <<script, snapshot, todo>>
      BY <1>3 DEF ServiceWrites, SchemaTypes
    <2>2. written \in Entries /\ written.index = e.index /\ written.exists /\ written.written
      <3> HIDE DEF e
      <3>1. written \in [exists : {TRUE}, written : BOOLEAN, index : [AllNames -> SomeForm]]
        BY <1>1
      <3>2. written.index = e.index /\ written.exists /\ written.written
        BY <1>1
      <3> QED
        BY <3>1, <3>2 DEF Entries
    <2> HIDE DEF written
    <2>3. store' \in [Collections -> Entries] /\ store'[c] = written /\ \A b \in Collections : b # c => store'[b] = store[b]
      BY <2>1, <2>2 DEF SchemaTypes
    <2> QED
      BY <2>1, <2>2, <2>3
  <1>4. CASE OperatorAdds(c)
    <2>1. store' = [store EXCEPT ![c] = added] /\ e.exists /\ e.index[Extra] = "none"
          /\ UNCHANGED <<script, snapshot, todo, late>>
      BY <1>4 DEF OperatorAdds, SchemaTypes
    <2>2. index \in [AllNames -> SomeForm] /\ \A n \in AllNames : n # Extra => index[n] = e.index[n]
      BY <1>1, <1>2
    <2>3. added \in Entries /\ added.index = index /\ added.exists = e.exists /\ added.written = e.written
      <3> HIDE DEF e, index
      <3>1. added = [exists |-> e.exists, written |-> e.written, index |-> index]
        BY <1>1
      <3> QED
        BY <1>1, <2>1, <2>2, <3>1 DEF Entries
    <2> HIDE DEF added, index
    <2>4. store' \in [Collections -> Entries] /\ store'[c] = added /\ \A b \in Collections : b # c => store'[b] = store[b]
      BY <2>1, <2>3 DEF SchemaTypes
    <2> QED
      BY <1>2, <2>1, <2>2, <2>3, <2>4, ZenonT(60)
  <1> QED
    BY <1>3, <1>4

LEMMA AroundKeeps ==
    ASSUME SchemaInv, NEW c \in Collections, ServiceWrites(c) \/ OperatorAdds(c)
    PROVE  SchemaInv'
  <1>1. SchemaTypes /\ Capturing /\ Acting /\ LookedAhead /\ PuttingBack
    BY DEF SchemaInv
  <1>2. /\ UNCHANGED <<script, snapshot, todo>> /\ late \subseteq late'
        /\ store' \in [Collections -> Entries]
        /\ \A b \in Collections :
             /\ store[b].exists => store'[b].exists
             /\ store'[b].exists => store[b].exists \/ b \in late'
             /\ store[b].written => store'[b].written
             /\ store'[b].written => store[b].written \/ b \in late'
             /\ \A n \in Names : store'[b].index[n] = store[b].index[n]
             /\ \A n \in AllNames : store[b].index[n] # "none" => store'[b].index[n] = store[b].index[n]
    BY <1>1, Surroundings
  <1>3. script.s.of \subseteq Collections /\ Names \subseteq AllNames
    BY <1>1, ScriptFacts DEF SchemaTypes, AllNames
  <1>4. \A b \in Collections : Before(b).exists \in BOOLEAN /\ store[b].exists \in BOOLEAN /\ store'[b].exists \in BOOLEAN
    <2>1. SchemaTypes'
      BY <1>1, <1>2 DEF SchemaTypes
    <2>2. \A e \in Entries : e.exists \in BOOLEAN
      BY EntryShape
    <2> QED
      BY <1>1, <2>1, <2>2 DEF SchemaTypes, Before
  <1>5. \A b \in Collections : AsFound(b) => AsFound(b)'
    BY <1>2, <1>3, <1>4 DEF AsFound, Before
  <1>6. \A b \in Collections : Before(b).exists /\ Undisturbed(b) => Undisturbed(b)'
    BY <1>2 DEF Undisturbed, Before
  <1>7. \A b \in Collections : Undoing(b) => Undoing(b)'
    BY <1>2, <1>3, <1>5 DEF Undoing, Made, Before
  <1>8. SchemaTypes'
    BY <1>1, <1>2 DEF SchemaTypes
  <1>9. Capturing'
    BY <1>1, <1>2, <1>3 DEF Capturing, Before
  <1>10. Acting'
    BY <1>1, <1>2, <1>3, <1>5 DEF Acting, Before
  <1>11. LookedAhead'
    BY <1>1, <1>2, <1>3, <1>6 DEF LookedAhead, Before
  <1>12. PuttingBack'
    BY <1>1, <1>2, <1>3, <1>5, <1>7 DEF PuttingBack
  <1> QED
    BY <1>8, <1>9, <1>10, <1>11, <1>12 DEF SchemaInv

\* A script stops, or begins.
LEMMA IdleKeeps ==
    ASSUME SchemaInv, store' \in [Collections -> Entries], snapshot' = snapshot, todo' \subseteq AllChanges,
           \A c \in Collections : store[c].exists /\ Before(c).exists => store'[c].exists,
           script' = [f \in {"pc", "s", "touched", "rest", "outcome"} |-> script'[f]],
           script'.s \in Scripts,
           script'.pc \in {"idle", "capture"},
           script'.pc = "capture" => script'.outcome = "none" /\ script'.touched = {} /\ script'.rest = {}
    PROVE  SchemaInv'
  <1>1. script'.pc \notin AtWork
    BY DEF AtWork
  <1>2. SchemaTypes'
    BY DEF SchemaInv, SchemaTypes
  <1>3. Capturing'
    BY <1>1 DEF SchemaInv, Capturing, Before
  <1> QED
    BY <1>1, <1>2, <1>3 DEF SchemaInv, Acting, LookedAhead, PuttingBack, AtWork

\* What raised in the act is caught.
LEMMA FailKeeps ==
    ASSUME SchemaInv, NEW touched, Fail(touched), script.pc = "act", touched \subseteq script.s.of,
           script.touched \subseteq touched, UNCHANGED <<snapshot, late>>, todo' \subseteq AllChanges,
           store' \in [Collections -> Entries],
           \A c \in Collections : store[c].exists => store'[c].exists,
           \A c \in Collections \ touched : store'[c] = store[c]
    PROVE  SchemaInv'
  <1>1. SchemaTypes /\ Capturing /\ Acting
    BY DEF SchemaInv
  <1>2. /\ script.s.of \subseteq Collections /\ script.s.counts \in BOOLEAN /\ script.s.ahead \in BOOLEAN
        /\ script.s.ahead => script.s.counts
    BY <1>1, ScriptFacts DEF SchemaTypes
  <1> DEFINE pc == IF script.pc = "act" /\ script.s.ahead THEN "preflight" ELSE "restore"
             rest == IF script.s.counts THEN script.s.of ELSE touched
  <1>3. script' = [script EXCEPT !.pc = pc, !.rest = rest]
    BY DEF Fail
  <1>4. /\ script' = [f \in {"pc", "s", "touched", "rest", "outcome"} |-> script'[f]]
        /\ script'.pc = pc /\ script'.rest = rest /\ script'.s = script.s /\ script'.outcome = script.outcome
    <2> HIDE DEF pc, rest
    <2> QED
      BY <1>1, <1>3 DEF SchemaTypes
  <1>5. pc = (IF script.s.ahead THEN "preflight" ELSE "restore") /\ pc \in AtWork /\ pc \notin {"act", "undo", "idle"}
    BY DEF AtWork
  <1>6. "act" \in AtWork /\ "act" # "idle"
    BY DEF AtWork
  <1>7. SchemaTypes'
    BY <1>1, <1>4, <1>5, <1>6 DEF SchemaTypes
  <1>8. Capturing'
    BY <1>1, <1>4, <1>6 DEF Capturing, Before
  <1>9. Acting'
    BY <1>4, <1>5 DEF Acting
  <1>10. LookedAhead'
    BY <1>2, <1>4, <1>5 DEF LookedAhead
  <1>11. PuttingBack'
    <2>1. \A c \in script.s.of \ rest : ~script.s.counts /\ c \in Collections \ touched /\ AsFound(c)
      BY <1>1, <1>2 DEF Acting
    <2>2. \A c \in script.s.of \ rest : AsFound(c)'
      BY <1>4, <2>1 DEF AsFound, Before
    <2> QED
      BY <1>4, <1>5, <2>2 DEF PuttingBack
  <1> QED
    BY <1>7, <1>8, <1>9, <1>10, <1>11 DEF SchemaInv

LEMMA StopKeeps ==
    ASSUME SchemaInv, NEW outcome, Stop(outcome), snapshot' = snapshot, todo' \subseteq AllChanges,
           store' \in [Collections -> Entries],
           \A c \in Collections : store[c].exists /\ Before(c).exists => store'[c].exists
    PROVE  SchemaInv'
  <1>1. /\ script'.pc = "idle" /\ script'.s \in Scripts
        /\ script' = [f \in {"pc", "s", "touched", "rest", "outcome"} |-> script'[f]]
    BY DEF Stop, SchemaInv, SchemaTypes
  <1> QED
    BY <1>1, IdleKeeps

LEMMA BeginningKeeps ==
    ASSUME SchemaInv, (\E s \in Scripts : StartScript(s)) \/ Capture
    PROVE  SchemaInv'
  <1>1. SchemaTypes /\ Capturing
    BY DEF SchemaInv
  <1>2. CASE \E s \in Scripts : StartScript(s)
    <2>1. PICK s \in Scripts :
             script' = [pc |-> "capture", s |-> s, touched |-> {}, rest |-> {}, outcome |-> "none"]
      BY <1>2 DEF StartScript
    <2>2. UNCHANGED <<store, snapshot, todo>>
      BY <1>2 DEF StartScript
    <2>3. /\ script'.pc = "capture" /\ script'.s \in Scripts /\ script'.outcome = "none"
          /\ script'.touched = {} /\ script'.rest = {}
          /\ script' = [f \in {"pc", "s", "touched", "rest", "outcome"} |-> script'[f]]
      BY <2>1
    <2> QED
      BY <1>1, <2>2, <2>3, IdleKeeps DEF SchemaTypes
  <1>3. CASE Capture /\ ~\A c \in script.s.of : Clear(script.s, c)
    <2>1. Stop("refused") /\ UNCHANGED <<store, snapshot, todo>>
      BY <1>3 DEF Capture
    <2> QED
      BY <1>1, <2>1, StopKeeps DEF SchemaTypes
  <1>4. CASE Capture /\ \A c \in script.s.of : Clear(script.s, c)
    <2> DEFINE s == script.s
    <2>1. /\ \A c \in s.of : Clear(s, c)
          /\ script.pc = "capture" /\ script' = [script EXCEPT !.pc = "act"]
          /\ snapshot' = [by |-> s, store |-> store] /\ todo' = Changes(s) /\ store' = store
      BY <1>4 DEF Capture, Move, Sees
    <2>2. /\ script' = [f \in {"pc", "s", "touched", "rest", "outcome"} |-> script'[f]]
          /\ script'.pc = "act" /\ script'.s = s /\ script'.outcome = script.outcome
          /\ script'.touched = script.touched /\ script'.rest = script.rest
      BY <1>1, <2>1 DEF SchemaTypes
    <2>3. s.of \subseteq Collections /\ (s.additive => s.counts /\ s.replaces = {})
      BY <1>1, ScriptFacts DEF SchemaTypes
    <2>4. ASSUME NEW t \in Changes(s)
          PROVE  /\ t \in AllChanges /\ t.c \in s.of /\ t.operation # "remove"
                 /\ s.additive => store[t.c].index[t.n] = "none"
      <3>1. PICK c \in s.of :
               \/ \E n \in Having(c, s.replaces) : t = Change("drop", c, n, "none")
               \/ \E n \in Names \ Having(c, {"wanted"}) : t = Change("create", c, n, "wanted")
        BY <2>4 DEF Changes
      <3>2. /\ \A n : Change("drop", c, n, "none").operation = "drop" /\ Change("drop", c, n, "none").c = c
            /\ \A n : Change("create", c, n, "wanted").operation = "create"
                      /\ Change("create", c, n, "wanted").c = c /\ Change("create", c, n, "wanted").n = n
        BY DEF Change
      <3>3. CASE \E n \in Having(c, s.replaces) : t = Change("drop", c, n, "none")
        <4>1. PICK n \in Having(c, s.replaces) : t = Change("drop", c, n, "none")
          BY <3>3
        <4>2. n \in AllNames /\ c \in Collections /\ "none" \in SomeForm /\ s.replaces # {}
          BY <2>3 DEF Having, SomeForm
        <4>3. t \in AllChanges
          BY <4>1, <4>2 DEF Change, AllChanges
        <4> QED
          BY <2>3, <3>2, <4>1, <4>2, <4>3
      <3>4. CASE \E n \in Names \ Having(c, {"wanted"}) : t = Change("create", c, n, "wanted")
        <4>1. PICK n \in Names \ Having(c, {"wanted"}) : t = Change("create", c, n, "wanted")
          BY <3>4
        <4>2. n \in AllNames /\ c \in Collections /\ "wanted" \in SomeForm
          BY <2>3 DEF AllNames, SomeForm, Forms
        <4>3. t \in AllChanges
          BY <4>1, <4>2 DEF Change, AllChanges
        <4>4. store[c].index[n] # "wanted" /\ store[c].index[n] \in {"none", "wanted"} \cup s.replaces
          BY <2>1, <4>1, <4>2 DEF Having, Clear
        <4> QED
          BY <2>3, <3>2, <4>1, <4>3, <4>4
      <3> QED
        BY <3>1, <3>3, <3>4
    <2>5. script.pc # "idle" /\ script.pc \notin AtWork /\ "act" \in AtWork /\ "act" # "idle"
      BY <2>1 DEF AtWork
    <2>6. SchemaTypes'
      <3>1. snapshot' = [by |-> snapshot'.by, store |-> snapshot'.store] /\ snapshot'.by = s /\ snapshot'.store = store
        BY <2>1
      <3>2. todo' \subseteq AllChanges
        BY <2>1, <2>4
      <3> QED
        BY <1>1, <2>1, <2>2, <2>5, <3>1, <3>2 DEF SchemaTypes
    <2>7. \A c \in Collections : Before(c)' = store[c] /\ store'[c] = store[c]
      BY <2>1 DEF Before
    <2>8. Capturing'
      <3>1. snapshot'.by = s
        BY <2>1
      <3>2. script.touched = {} /\ script.rest = {}
        BY <1>1, <2>1 DEF Capturing
      <3> QED
        BY <2>1, <2>2, <2>3, <2>7, <3>1, <3>2 DEF Capturing
    <2>9. Acting'
      <3>1. \A c \in Collections : AsFound(c)'
        BY <2>7 DEF AsFound, AllNames
      <3>2. script.touched = {}
        BY <1>1, <2>1 DEF Capturing
      <3>3. \A t \in todo' : t.c \in s.of /\ t.operation # "remove" /\ (s.additive => Before(t.c)'.index[t.n] = "none")
        BY <2>1, <2>3, <2>4, <2>7
      <3> QED
        BY <2>2, <2>3, <3>1, <3>2, <3>3 DEF Acting
    <2> QED
      BY <2>2, <2>6, <2>8, <2>9 DEF SchemaInv, LookedAhead, PuttingBack
  <1> QED
    BY <1>2, <1>3, <1>4

LEMMA ForemostOf ==
    ASSUME NEW changes
    PROVE  /\ Foremost(changes) \subseteq changes
           /\ \A t \in Foremost(changes) : \A c : (\A u \in changes : u.c = c) /\ (\E u \in changes : u.operation = "drop")
                /\ changes \subseteq AllChanges => t.operation = "drop"
  <1> DEFINE here == {t \in changes : \A u \in changes : t.c <= u.c}
             drops == {t \in here : t.operation = "drop"}
  <1>1. Foremost(changes) = IF drops = {} THEN here ELSE drops
    BY DEF Foremost
  <1>2. Foremost(changes) \subseteq changes
    BY <1>1
  <1>3. ASSUME NEW c, \A u \in changes : u.c = c, NEW u \in changes, u.operation = "drop", changes \subseteq AllChanges
        PROVE  u \in drops
    <2>1. u.c = c /\ c \in Collections
      BY <1>3 DEF AllChanges
    <2>2. c <= c
      BY <2>1, NumCollectionsAssumption DEF Collections
    <2> QED
      BY <1>3, <2>1, <2>2
  <1>4. \A t \in Foremost(changes) : drops # {} => t.operation = "drop"
    BY <1>1
  <1> HIDE DEF drops
  <1> QED
    BY <1>2, <1>3, <1>4

LEMMA ActingKeeps ==
    ASSUME SchemaInv, Act \/ Verify
    PROVE  SchemaInv'
  <1>1. SchemaTypes /\ Capturing /\ Acting
    BY DEF SchemaInv
  <1>2. script.s.of \subseteq Collections /\ script.pc = "act"
    BY <1>1, ScriptFacts DEF SchemaTypes, Act, Verify, Sees
  <1>3. script.touched \subseteq script.s.of
    BY <1>1, <1>2 DEF Acting
  <1>4. CASE Verify
    <2>1. UNCHANGED <<store, snapshot, todo, late>> /\ (Stop("migrated") \/ Fail(script.touched))
      BY <1>4 DEF Verify
    <2> QED
      BY <1>1, <1>2, <1>3, <2>1, StopKeeps, FailKeeps DEF SchemaTypes
  <1>5. CASE Act
    <2>1. PICK t \in Foremost(todo) :
            /\ todo' = todo \ {t}
            /\ \/ Fail(script.touched \cup {t.c}) /\ UNCHANGED store
               \/ Carry(t) /\ script' = [script EXCEPT !.touched = script.touched \cup {t.c}]
      BY <1>5 DEF Act
    <2>2. UNCHANGED <<snapshot, late>>
      BY <1>5 DEF Act
    <2>3. t \in todo /\ t \in AllChanges /\ t.c \in script.s.of /\ t.operation # "remove"
          /\ (script.s.additive => Before(t.c).index[t.n] = "none")
      BY <1>1, <1>2, <2>1, ForemostOf DEF SchemaTypes, Acting
    <2>4. CASE Fail(script.touched \cup {t.c}) /\ UNCHANGED store
      <3>1. todo' \subseteq AllChanges /\ script.touched \cup {t.c} \subseteq script.s.of
        BY <1>1, <1>3, <2>1, <2>3 DEF SchemaTypes
      <3> QED
        BY <1>1, <1>2, <2>2, <2>4, <3>1, FailKeeps DEF SchemaTypes
    <2>5. CASE Carry(t) /\ script' = [script EXCEPT !.touched = script.touched \cup {t.c}]
      <3>1. /\ script' = [f \in {"pc", "s", "touched", "rest", "outcome"} |-> script'[f]]
            /\ script'.pc = "act" /\ script'.s = script.s /\ script'.outcome = script.outcome
            /\ script'.rest = script.rest /\ script'.touched = script.touched \cup {t.c}
        BY <1>1, <1>2, <2>5 DEF SchemaTypes
      <3>2. /\ store' \in [Collections -> Entries]
            /\ \A c \in Collections : (store[c].exists => store'[c].exists) /\ (c # t.c => store'[c] = store[c])
        BY <1>1, <2>3, <2>5, Carries
      <3>3. SchemaTypes'
        BY <1>1, <1>2, <2>1, <2>2, <3>1, <3>2 DEF SchemaTypes
      <3>4. Capturing'
        BY <1>1, <1>2, <2>2, <3>1, <3>2 DEF Capturing, Before, AtWork
      <3>5. \A c \in script.s.of \ (script.touched \cup {t.c}) : script.s.counts \/ AsFound(c)'
        BY <1>1, <1>2, <2>2, <3>1, <3>2 DEF Acting, AsFound, Before
      <3>6. Acting'
        BY <1>1, <1>2, <1>3, <2>1, <2>2, <2>3, <3>1, <3>5 DEF Acting, Before
      <3> QED
        BY <3>1, <3>3, <3>4, <3>6 DEF SchemaInv, LookedAhead, PuttingBack
    <2> QED
      BY <2>1, <2>4, <2>5
  <1> QED
    BY <1>4, <1>5

LEMMA LookingKeeps ==
    ASSUME SchemaInv, RollBackLater \/ Preflight
    PROVE  SchemaInv'
  <1>1. SchemaTypes /\ Capturing /\ LookedAhead
    BY DEF SchemaInv
  <1>2. CASE RollBackLater
    <2> DEFINE by == snapshot.by
               pc == IF by.ahead THEN "preflight" ELSE "restore"
    <2>1. /\ script' = [pc |-> pc, s |-> by, touched |-> {}, rest |-> by.of, outcome |-> "none"]
          /\ todo' = {} /\ UNCHANGED <<store, snapshot>> /\ by.later
      BY <1>2 DEF RollBackLater
    <2>2. /\ script' = [f \in {"pc", "s", "touched", "rest", "outcome"} |-> script'[f]]
          /\ script'.pc = pc /\ script'.s = by /\ script'.rest = by.of /\ script'.outcome = "none"
      BY <2>1
    <2>3. by \in Scripts /\ by.counts
      BY <1>1, <2>1, ScriptFacts DEF SchemaTypes
    <2>4. pc \in AtWork /\ pc \notin {"capture", "act", "undo", "idle"} /\ (pc = "preflight" <=> by.ahead)
          /\ (pc = "restore" => ~by.ahead)
      BY DEF AtWork
    <2> HIDE DEF pc
    <2>5. SchemaTypes'
      BY <1>1, <2>1, <2>2, <2>3, <2>4 DEF SchemaTypes
    <2>6. Capturing'
      BY <1>1, <2>1, <2>2, <2>3, <2>4 DEF Capturing, Before
    <2> QED
      BY <2>2, <2>4, <2>5, <2>6 DEF SchemaInv, Acting, LookedAhead, PuttingBack
  <1>3. CASE Preflight /\ ~\A c \in script.s.of : Undisturbed(c)
    <2>1. Stop("both_failed") /\ UNCHANGED <<store, snapshot, todo>>
      BY <1>3 DEF Preflight
    <2> QED
      BY <1>1, <2>1, StopKeeps DEF SchemaTypes
  <1>4. CASE Preflight /\ \A c \in script.s.of : Undisturbed(c)
    <2>1. /\ script.pc = "preflight" /\ script' = [script EXCEPT !.pc = "restore"]
          /\ UNCHANGED <<store, snapshot, todo>>
      BY <1>4 DEF Preflight, Move, Sees
    <2>2. /\ script' = [f \in {"pc", "s", "touched", "rest", "outcome"} |-> script'[f]]
          /\ script'.pc = "restore" /\ script'.s = script.s /\ script'.rest = script.rest
          /\ script'.outcome = script.outcome
      BY <1>1, <2>1 DEF SchemaTypes
    <2>3. "preflight" \in AtWork /\ "restore" \in AtWork
      BY DEF AtWork
    <2>4. SchemaTypes'
      BY <1>1, <2>1, <2>2, <2>3 DEF SchemaTypes
    <2>5. Capturing'
      BY <1>1, <2>1, <2>2, <2>3 DEF Capturing, Before
    <2>6. LookedAhead'
      <3>1. \A c \in script.s.of : IF Before(c).exists THEN Undisturbed(c) ELSE ~store[c].written
        BY <1>4 DEF Undisturbed
      <3> QED
        BY <2>1, <2>2, <3>1 DEF LookedAhead, Before, Undisturbed
    <2>7. PuttingBack'
      BY <1>1, <2>1, <2>2 DEF LookedAhead, PuttingBack
    <2> QED
      BY <2>2, <2>4, <2>5, <2>6, <2>7 DEF SchemaInv, Acting
  <1> QED
    BY <1>2, <1>3, <1>4

LEMMA Removes ==
    ASSUME SchemaTypes, NEW c \in Collections, Remove(c)
    PROVE  /\ store' \in [Collections -> Entries] /\ store'[c] = Absent
           /\ \A b \in Collections : b # c => store'[b] = store[b]
  BY EntryShape DEF Remove, SchemaTypes

LEMMA RestoreKeeps ==
    ASSUME SchemaInv, Restore
    PROVE  SchemaInv'
  <1>1. SchemaTypes /\ Capturing /\ LookedAhead /\ PuttingBack
    BY DEF SchemaInv
  <1>2. script.pc = "restore" /\ "restore" \in AtWork
    BY DEF Restore, Sees, AtWork
  <1>3. /\ script.s.of \subseteq Collections /\ script.rest \subseteq script.s.of
        /\ script.s.additive => script.s.removes
        /\ script.s.removes => script.s.counts
        /\ script.s.ahead => script.s.additive
        /\ script.s.additive \in BOOLEAN /\ script.s.removes \in BOOLEAN
    BY <1>1, <1>2, ScriptFacts DEF SchemaTypes, Capturing
  <1>4. PICK c \in script.rest :
          \/ Stop("both_failed") /\ UNCHANGED <<todo, late>>
          \/ /\ Permits(c)
             /\ script' = [script EXCEPT !.pc = "undo", !.rest = script.rest \ {c}]
             /\ todo' = Restoring(c)
             /\ late' = IF script.s.ahead THEN late ELSE late \ {c}
    BY DEF Restore
  <1>6. UNCHANGED <<store, snapshot>>
    BY DEF Restore
  <1>7. CASE Stop("both_failed") /\ UNCHANGED <<todo, late>>
    BY <1>1, <1>6, <1>7, StopKeeps DEF SchemaTypes
  <1>8. CASE /\ Permits(c)
             /\ script' = [script EXCEPT !.pc = "undo", !.rest = script.rest \ {c}]
             /\ todo' = Restoring(c)
             /\ late' = IF script.s.ahead THEN late ELSE late \ {c}
    <2>1. /\ script' = [f \in {"pc", "s", "touched", "rest", "outcome"} |-> script'[f]]
          /\ script'.pc = "undo" /\ script'.s = script.s /\ script'.rest = script.rest \ {c}
          /\ script'.outcome = script.outcome
      BY <1>1, <1>8 DEF SchemaTypes
    <2>2. "undo" \in AtWork /\ c \in Collections
      BY <1>3, <1>4 DEF AtWork
    <2>3. /\ Before(c).index \in [AllNames -> SomeForm] /\ store[c].index \in [AllNames -> SomeForm]
          /\ Before(c).exists \in BOOLEAN
      BY <1>1, <2>2, EntryFields
    <2>4. /\ Extra \in AllNames /\ "none" \in SomeForm /\ Names \subseteq AllNames
          /\ \A form \in SomeForm : form \in Forms <=> form # "none"
      BY DEF AllNames, SomeForm, Forms
    <2>5. \A operation \in {"drop", "create", "remove"}, n \in AllNames, form \in SomeForm :
            /\ Change(operation, c, n, form) \in AllChanges /\ Change(operation, c, n, form).operation = operation
            /\ Change(operation, c, n, form).c = c /\ Change(operation, c, n, form).n = n
            /\ Change(operation, c, n, form).form = form
      BY <2>2 DEF Change, AllChanges
    <2>6. \A n \in AllNames : n \in Having(c, Forms) <=> store[c].index[n] # "none"
      BY <2>3, <2>4 DEF Having
    <2>7. \A b \in Collections : Before(b)' = Before(b) /\ store'[b] = store[b]
      BY <1>6 DEF Before
    <2>8. todo' \subseteq AllChanges /\ Undoing(c)'
      <3>1. CASE Made(c)
        <4>1. todo' = {Change("remove", c, Extra, "none")}
          BY <1>8, <3>1 DEF Restoring, Made
        <4>2. store[c].written => c \in late'
          <5>1. CASE script.s.ahead
            BY <1>1, <1>2, <1>3, <1>4, <1>8, <3>1, <5>1 DEF LookedAhead, Made
          <5>2. CASE ~script.s.ahead
            <6>1. script.s.counts
              BY <1>3, <3>1 DEF Made
            <6> QED
              BY <1>8, <3>1, <5>2, <6>1 DEF Permits, Undisturbed, Made
          <5> QED
            BY <5>1, <5>2
        <4> QED
          BY <2>1, <2>2, <2>4, <2>5, <2>7, <3>1, <4>1, <4>2 DEF Undoing, Made
      <3>2. CASE ~Made(c) /\ script.s.additive
        <4>0. Before(c).exists
          BY <1>3, <3>2 DEF Made
        <4>1. todo' = {Change("drop", c, n, "none") : n \in Added(c)}
          BY <1>8, <3>2, <4>0 DEF Restoring
        <4>2. Undisturbed(c)
          BY <1>1, <1>2, <1>3, <1>4, <1>8, <3>2, <4>0 DEF LookedAhead, Permits
        <4>3. \A n \in AllNames : Before(c).index[n] # "none" => store[c].index[n] = Before(c).index[n]
          BY <4>0, <4>2 DEF Undisturbed
        <4>4. \A n \in Added(c) : n \in AllNames /\ Before(c).index[n] = "none"
          BY DEF Added
        <4>5. \A t \in todo' : t \in AllChanges /\ t.c = c /\ t.operation = "drop" /\ t.form = "none"
                               /\ Before(c).index[t.n] = "none"
          BY <2>4, <2>5, <4>1, <4>4
        <4>6. \A n \in Names : Before(c).index[n] = "none" /\ store[c].index[n] # "none" =>
                Change("drop", c, n, "none") \in todo'
          BY <2>4, <2>6, <4>1 DEF Added
        <4> QED
          BY <2>1, <2>2, <2>7, <3>2, <4>3, <4>5, <4>6 DEF Undoing, Made
      <3>3. CASE ~Made(c) /\ ~script.s.additive
        <4>1. todo' = {Change("drop", c, n, "none") : n \in Having(c, Forms)}
                        \cup {Change("create", c, n, Before(c).index[n]) :
                                n \in {m \in AllNames : Before(c).index[m] # "none"}}
          BY <1>8, <3>3 DEF Restoring, Made
        <4>2. Having(c, Forms) \subseteq AllNames
          BY DEF Having
        <4>3. ASSUME NEW t \in todo'
              PROVE  /\ t \in AllChanges /\ t.c = c /\ t.operation # "remove"
                     /\ t.form = IF t.operation = "drop" THEN "none" ELSE Before(c).index[t.n]
          <5>1. CASE \E n \in Having(c, Forms) : t = Change("drop", c, n, "none")
            BY <2>4, <2>5, <4>2, <5>1
          <5>2. CASE \E n \in AllNames : t = Change("create", c, n, Before(c).index[n])
            <6>1. PICK n \in AllNames : t = Change("create", c, n, Before(c).index[n])
              BY <5>2
            <6>2. Before(c).index[n] \in SomeForm
              BY <2>3
            <6>3. t \in AllChanges /\ t.c = c /\ t.operation = "create" /\ t.n = n /\ t.form = Before(c).index[n]
              BY <2>5, <6>1, <6>2
            <6> QED
              BY <6>3
          <5> QED
            BY <4>1, <5>1, <5>2
        <4>4. \A n \in Names : store[c].index[n] # "none" => Change("drop", c, n, "none") \in todo'
          BY <2>4, <2>6, <4>1
        <4>5. \A n \in AllNames : Before(c).index[n] = "none" \/ Change("create", c, n, Before(c).index[n]) \in todo'
          BY <4>1
        <4> QED
          BY <2>1, <2>2, <2>7, <3>3, <4>3, <4>4, <4>5 DEF Undoing, Made
      <3> QED
        BY <2>3, <3>1, <3>2, <3>3
    <2>9. \A b \in script.s.of \ script.rest : AsFound(b)'
      <3>1. \A b \in script.s.of \ script.rest : AsFound(b) /\ b \in Collections /\ b # c
        BY <1>1, <1>2, <1>3, <1>4 DEF PuttingBack
      <3>2. \A b \in late : b # c => b \in late'
        BY <1>8
      <3> QED
        BY <2>1, <2>7, <3>1, <3>2 DEF AsFound
    <2>10. PuttingBack'
      BY <1>3, <1>4, <2>1, <2>8, <2>9 DEF PuttingBack
    <2>11. SchemaTypes'
      BY <1>1, <1>2, <1>6, <2>1, <2>2, <2>8 DEF SchemaTypes
    <2>12. Capturing'
      BY <1>1, <1>2, <1>3, <1>6, <2>1, <2>2, <2>7 DEF Capturing
    <2>13. LookedAhead'
      BY <1>1, <1>2, <1>3, <1>6, <1>8, <2>1, <2>7 DEF LookedAhead, Undisturbed
    <2> QED
      BY <2>1, <2>10, <2>11, <2>12, <2>13 DEF SchemaInv, Acting
  <1> QED
    BY <1>4, <1>7, <1>8

\* What undoing does to the collections, and to what has to be undone.
LEMMA UndoKeeps ==
    ASSUME SchemaInv, Undo
    PROVE  SchemaInv'
  <1>1. SchemaTypes /\ Capturing /\ LookedAhead /\ PuttingBack
    BY DEF SchemaInv
  <1>2. script.pc = "undo" /\ "undo" \in AtWork
    BY DEF Undo, Sees, AtWork
  <1>3. /\ script.s.of \subseteq Collections /\ script.rest \subseteq script.s.of
        /\ script.s.ahead => script.s.additive
        /\ script.s.additive => script.s.removes
    BY <1>1, <1>2, ScriptFacts DEF SchemaTypes, Capturing
  <1>4. PICK c \in script.s.of \ script.rest :
          Undoing(c) /\ \A b \in script.s.of \ (script.rest \cup {c}) : AsFound(b)
    BY <1>1, <1>2 DEF PuttingBack
  <1>5. PICK t \in Foremost(todo) :
          /\ todo' = todo \ {t}
          /\ \/ Stop("both_failed") /\ UNCHANGED store
             \/ /\ ~(t.operation = "create" /\ store[t.c].index[t.n] \notin {"none", t.form})
                /\ IF t.operation = "remove" THEN Remove(t.c) ELSE Carry(t)
                /\ UNCHANGED script
    BY DEF Undo
  <1>6. UNCHANGED <<snapshot, late>>
    BY DEF Undo
  <1>7. t \in todo /\ t \in AllChanges /\ t.c = c /\ c \in Collections /\ todo' \subseteq AllChanges
    BY <1>1, <1>3, <1>4, <1>5, ForemostOf DEF SchemaTypes, Undoing
  <1>8. (\E u \in todo : u.operation = "drop") => t.operation = "drop"
    BY <1>1, <1>4, <1>5, ForemostOf DEF SchemaTypes, Undoing
  <1>9. \A b \in Collections : Before(b)' = Before(b)
    BY <1>6 DEF Before
  <1>10. CASE Stop("both_failed") /\ UNCHANGED store
    BY <1>1, <1>6, <1>7, <1>10, StopKeeps DEF SchemaTypes
  <1>11. ASSUME UNCHANGED script, store' \in [Collections -> Entries],
                \A b \in Collections : b # c => store'[b] = store[b],
                Undoing(c)', Before(c).exists => store'[c].exists,
                Before(c).exists /\ Undisturbed(c) /\ script.s.additive => Undisturbed(c)',
                Made(c) => ~store'[c].written
         PROVE  SchemaInv'
    <2>1. SchemaTypes'
      BY <1>1, <1>6, <1>7, <1>11 DEF SchemaTypes
    <2>2. Capturing'
      BY <1>1, <1>3, <1>6, <1>9, <1>11 DEF Capturing
    <2>3. \A b \in script.s.of \ (script.rest \cup {c}) : AsFound(b)'
      BY <1>3, <1>4, <1>6, <1>9, <1>11 DEF AsFound
    <2>5. PuttingBack'
      BY <1>2, <1>4, <1>11, <2>3 DEF PuttingBack
    <2>6. LookedAhead'
      <3>1. script.s.ahead => \A b \in script.s.of : IF Before(b).exists THEN Undisturbed(b) ELSE store[b].written => b \in late
        BY <1>1, <1>2 DEF LookedAhead
      <3>2. script.s.ahead => \A b \in script.s.of :
              IF Before(b).exists THEN Undisturbed(b)' ELSE store'[b].written => b \in late
        <4>1. \A b \in Collections \ {c} : Undisturbed(b)' = Undisturbed(b) /\ store'[b].written = store[b].written
          BY <1>9, <1>11 DEF Undisturbed
        <4>2. script.s.ahead => IF Before(c).exists THEN Undisturbed(c)' ELSE store'[c].written => c \in late
          BY <1>3, <1>4, <1>11, <3>1 DEF Made
        <4> QED
          BY <1>3, <3>1, <4>1, <4>2
      <3> QED
        BY <1>2, <1>3, <1>6, <1>9, <1>11, <3>2 DEF LookedAhead
    <2> QED
      BY <1>2, <1>11, <2>1, <2>2, <2>5, <2>6 DEF SchemaInv, Acting
  <1>12. CASE UNCHANGED script /\ Remove(t.c) /\ t.operation = "remove"
    <2>1. Made(c) /\ ~Before(c).exists /\ todo' = {}
      BY <1>4, <1>5, <1>7, <1>12 DEF Undoing, Made
    <2>2. /\ store' \in [Collections -> Entries] /\ store'[c] = Absent
          /\ \A b \in Collections : b # c => store'[b] = store[b]
      BY <1>1, <1>7, <1>12, Removes
    <2>3. Before(c) = Absent /\ Names \subseteq AllNames
      BY <1>1, <1>7, <2>1, EntryFields DEF AllNames
    <2>4. AsFound(c)'
      BY <1>7, <1>9, <2>2, <2>3, EntryShape DEF AsFound
    <2>5. Undoing(c)'
      BY <1>7, <1>9, <1>12, <2>1, <2>4 DEF Undoing, Made
    <2> QED
      BY <1>11, <1>12, <2>1, <2>2, <2>5, EntryShape
  <1>13. CASE /\ UNCHANGED script /\ Carry(t) /\ t.operation # "remove"
              /\ ~(t.operation = "create" /\ store[t.c].index[t.n] \notin {"none", t.form})
    <2>1. ~Made(c) /\ ~Made(c)'
      <3>1. Made(c) => todo = {Change("remove", c, Extra, "none")}
        BY <1>4, <1>7 DEF Undoing
      <3> QED
        BY <1>7, <1>9, <1>13, <3>1 DEF Change, Made
    <2>2. /\ store' \in [Collections -> Entries]
          /\ store[c].exists => store'[c].exists
          /\ \A b \in Collections : b # c => store'[b] = store[b]
          /\ \A n \in AllNames : store'[c].index[n] = IF n = t.n THEN t.form ELSE store[c].index[n]
      BY <1>1, <1>7, <1>13, Carries
    <2>3. Before(c).exists => store'[c].exists
      BY <1>1, <1>7, <2>2 DEF Capturing
    <2>4. t.operation \in {"drop", "create"} /\ t.n \in AllNames /\ Names \subseteq AllNames
      BY <1>7, <1>13 DEF AllChanges, AllNames
    <2>5. \A n : Change("drop", c, n, "none").n = n /\ Change("drop", c, n, "none").operation = "drop"
      BY DEF Change
    <2>6. \A n, form : Change("create", c, n, form).n = n /\ Change("create", c, n, form).operation = "create"
      BY DEF Change
    <2>7. CASE script.s.additive
      <3>1. t.operation = "drop" /\ t.form = "none" /\ Before(c).index[t.n] = "none"
        BY <1>4, <1>7, <2>1, <2>7 DEF Undoing
      <3>2. Before(c).exists /\ Undisturbed(c) => Undisturbed(c)'
        BY <1>7, <1>9, <2>2, <2>3, <3>1 DEF Undisturbed
      <3>3. \A n \in AllNames : Before(c).index[n] # "none" => store'[c].index[n] = Before(c).index[n]
        BY <1>4, <2>1, <2>2, <2>7, <3>1 DEF Undoing
      <3>4. \A n \in Names : Before(c).index[n] = "none" /\ store'[c].index[n] # "none" =>
              Change("drop", c, n, "none") \in todo'
        BY <1>4, <1>5, <2>1, <2>2, <2>4, <2>5, <3>1 DEF Undoing
      <3>5. Undoing(c)'
        BY <1>4, <1>5, <1>7, <1>9, <1>13, <2>1, <2>7, <3>3, <3>4 DEF Undoing
      <3> QED
        BY <1>11, <1>13, <2>1, <2>2, <2>3, <3>2, <3>5
    <2>8. CASE ~script.s.additive
      <3>1. t.form = IF t.operation = "drop" THEN "none" ELSE Before(c).index[t.n]
        BY <1>4, <1>7, <2>1, <2>8 DEF Undoing
      <3>2. \A n \in Names : Before(c).index[n] = "none" /\ store'[c].index[n] # "none" =>
              Change("drop", c, n, "none") \in todo'
        BY <1>4, <1>5, <2>1, <2>2, <2>4, <2>5, <3>1 DEF Undoing
      <3>3. ASSUME NEW n \in AllNames, Before(c).index[n] # "none"
            PROVE  \/ Change("create", c, n, Before(c).index[n]) \in todo'
                   \/ store'[c].index[n] = Before(c).index[n] /\ \A u \in todo' : u.operation # "drop"
        <4>1. CASE Change("create", c, n, Before(c).index[n]) \in todo
          <5>1. CASE Change("create", c, n, Before(c).index[n]) # t
            BY <1>5, <4>1, <5>1
          <5>2. CASE Change("create", c, n, Before(c).index[n]) = t
            <6>1. t.n = n /\ t.operation = "create"
              BY <2>6, <5>2
            <6> QED
              BY <1>5, <1>8, <2>2, <3>1, <6>1
          <5> QED
            BY <5>1, <5>2
        <4>2. CASE Change("create", c, n, Before(c).index[n]) \notin todo
          <5>1. store[c].index[n] = Before(c).index[n] /\ \A u \in todo : u.operation # "drop"
            BY <1>4, <2>1, <2>8, <3>3, <4>2 DEF Undoing
          <5> QED
            BY <1>5, <1>7, <2>2, <2>4, <3>1, <5>1
        <4> QED
          BY <4>1, <4>2
      <3>4. Undoing(c)'
        BY <1>4, <1>5, <1>7, <1>9, <1>13, <2>1, <2>8, <3>2, <3>3 DEF Undoing
      <3> QED
        BY <1>11, <1>13, <2>1, <2>2, <2>3, <2>8, <3>4
    <2> QED
      BY <2>7, <2>8
  <1> QED
    BY <1>5, <1>10, <1>12, <1>13

LEMMA UndoneKeeps ==
    ASSUME SchemaInv, Undone
    PROVE  SchemaInv'
  <1>1. SchemaTypes /\ Capturing /\ LookedAhead /\ PuttingBack
    BY DEF SchemaInv
  <1>2. /\ script.pc = "undo" /\ todo = {} /\ script' = [script EXCEPT !.pc = "restore"]
        /\ UNCHANGED <<store, snapshot, todo, late>>
    BY DEF Undone, Sees, Move
  <1>3. /\ script' = [f \in {"pc", "s", "touched", "rest", "outcome"} |-> script'[f]]
        /\ script'.pc = "restore" /\ script'.s = script.s /\ script'.rest = script.rest
        /\ script'.outcome = script.outcome
    BY <1>1, <1>2 DEF SchemaTypes
  <1>4. "undo" \in AtWork /\ "restore" \in AtWork
    BY DEF AtWork
  <1>5. script.s.of \subseteq Collections
    BY <1>1, ScriptFacts DEF SchemaTypes
  <1>6. PICK c \in script.s.of \ script.rest :
          Undoing(c) /\ \A b \in script.s.of \ (script.rest \cup {c}) : AsFound(b)
    BY <1>1, <1>2 DEF PuttingBack
  <1>7. AsFound(c)
    <2>1. CASE Made(c)
      BY <1>2, <1>6, <2>1 DEF Undoing
    <2>2. CASE ~Made(c)
      <3>1. Before(c).exists => store[c].exists
        BY <1>1, <1>5, <1>6 DEF Capturing
      <3>2. \A n \in AllNames : Before(c).index[n] # "none" => store[c].index[n] = Before(c).index[n]
        BY <1>2, <1>6, <2>2 DEF Undoing
      <3>3. \A n \in Names : Before(c).index[n] = "none" => store[c].index[n] = "none"
        BY <1>2, <1>6, <2>2 DEF Undoing
      <3> QED
        BY <2>2, <3>1, <3>2, <3>3 DEF AsFound, Made
    <2> QED
      BY <2>1, <2>2
  <1>8. \A b \in script.s.of \ script.rest : AsFound(b)'
    BY <1>2, <1>3, <1>6, <1>7 DEF AsFound, Before
  <1>9. SchemaTypes' /\ Capturing'
    BY <1>1, <1>2, <1>3, <1>4 DEF SchemaTypes, Capturing, Before
  <1>10. LookedAhead'
    BY <1>1, <1>2, <1>3 DEF LookedAhead, Undisturbed, Before
  <1>11. PuttingBack'
    BY <1>3, <1>8 DEF PuttingBack
  <1> QED
    BY <1>3, <1>9, <1>10, <1>11 DEF SchemaInv, Acting

\* What a call that raises may have done to the collections.
LEMMA RaisedStores ==
    ASSUME SchemaInv, Raise
    PROVE  \/ UNCHANGED store
           \/ script.pc = "act" /\ \E t \in Foremost(todo) : Carry(t)
           \/ script.pc = "undo" /\ \E t \in Foremost(todo) : t.operation # "remove" /\ Carry(t)
           \/ script.pc = "undo" /\ \E t \in Foremost(todo) : t.operation = "remove" /\ Remove(t.c)
  <1>1. script.pc = "act" => \A t \in Foremost(todo) : t.operation # "remove"
    BY ForemostOf DEF SchemaInv, Acting
  <1> QED
    BY <1>1 DEF Raise

LEMMA RaiseKeeps ==
    ASSUME SchemaInv, Raise
    PROVE  SchemaInv'
  <1>1. SchemaTypes /\ Capturing /\ Acting /\ PuttingBack
    BY DEF SchemaInv
  <1>2. UNCHANGED <<snapshot, late>> /\ todo' = {} /\ script.pc # "idle"
    BY DEF Raise, Sees
  <1>3. Foremost(todo) \subseteq todo /\ todo \subseteq AllChanges /\ script.s.of \subseteq Collections
    BY <1>1, ForemostOf, ScriptFacts DEF SchemaTypes
  <1>4. CASE script.pc = "act"
    <2> DEFINE touched == script.touched \cup {t.c : t \in Foremost(todo)}
    <2>1. Fail(touched)
      BY <1>4 DEF Raise, Sees
    <2>2. touched \subseteq script.s.of /\ script.touched \subseteq touched
      BY <1>1, <1>3, <1>4 DEF Acting
    <2>3. /\ store' \in [Collections -> Entries]
          /\ \A c \in Collections : store[c].exists => store'[c].exists
          /\ \A c \in Collections \ touched : store'[c] = store[c]
      <3>1. CASE UNCHANGED store
        BY <1>1, <3>1 DEF SchemaTypes
      <3>2. CASE \E t \in Foremost(todo) : Carry(t)
        BY <1>1, <1>3, <3>2, Carries
      <3> QED
        BY <1>4, <3>1, <3>2, RaisedStores
    <2> HIDE DEF touched
    <2> QED
      BY <1>2, <1>4, <2>1, <2>2, <2>3, FailKeeps
  <1>5. CASE script.pc # "act"
    <2>1. Stop("refused") \/ Stop("both_failed")
      BY <1>5 DEF Raise, Sees
    <2>2. /\ store' \in [Collections -> Entries]
          /\ \A c \in Collections : store[c].exists /\ Before(c).exists => store'[c].exists
      <3>1. CASE UNCHANGED store
        BY <1>1, <3>1 DEF SchemaTypes
      <3>2. CASE \E t \in Foremost(todo) : Carry(t)
        BY <1>1, <1>3, <3>2, Carries
      <3>3. CASE script.pc = "undo" /\ \E t \in Foremost(todo) : t.operation = "remove" /\ Remove(t.c)
        <4>1. PICK t \in Foremost(todo) : t.operation = "remove" /\ Remove(t.c)
          BY <3>3
        <4>2. t \in todo /\ t.c \in Collections
          BY <1>3, <4>1 DEF AllChanges
        <4>3. PICK c \in script.s.of : Undoing(c)
          BY <1>1, <3>3 DEF PuttingBack
        <4>4. t.c = c /\ ~Before(c).exists
          BY <4>1, <4>2, <4>3 DEF Undoing, Made
        <4> QED
          BY <1>1, <4>1, <4>2, <4>4, Removes
      <3> QED
        BY <3>1, <3>2, <3>3, RaisedStores
    <2> QED
      BY <1>2, <2>1, <2>2, StopKeeps
  <1> QED
    BY <1>4, <1>5

LEMMA SchemaStep == SchemaInv /\ [SchemaNext]_schemaVars => SchemaInv'
  <1> SUFFICES ASSUME SchemaInv, [SchemaNext]_schemaVars PROVE SchemaInv'
    OBVIOUS
  <1>1. CASE Restored
    <2>1. Stop("restored") /\ UNCHANGED <<store, snapshot, todo>>
      BY <1>1 DEF Restored
    <2> QED
      BY <2>1, StopKeeps DEF SchemaInv, SchemaTypes
  <1>2. CASE Lose
    <2>1. Stop("lost") /\ UNCHANGED <<store, snapshot>> /\ todo' = {}
      BY <1>2 DEF Lose
    <2> QED
      BY <2>1, StopKeeps DEF SchemaInv, SchemaTypes
  <1>3. CASE UNCHANGED schemaVars
    <2>1. store' = store /\ script' = script /\ snapshot' = snapshot /\ todo' = todo /\ late' = late
      BY <1>3 DEF schemaVars
    <2>2. chances' = chances
      BY <1>3 DEF schemaVars
    <2>3. SchemaTypes'
      BY <2>1, <2>2 DEF SchemaInv, SchemaTypes
    <2>4. Capturing' /\ Acting'
      BY <2>1 DEF SchemaInv, Capturing, Acting, AsFound, Before
    <2>5. LookedAhead'
      BY <2>1 DEF SchemaInv, LookedAhead, Undisturbed, Before
    <2>6. \A c : Undoing(c)' <=> Undoing(c)
      BY <2>1, SMTT(60) DEF Undoing, Made, AsFound, Before
    <2>7. \A c : AsFound(c)' <=> AsFound(c)
      BY <2>1 DEF AsFound, Before
    <2>8. PuttingBack'
      BY <2>1, <2>6, <2>7 DEF SchemaInv, PuttingBack
    <2> QED
      BY <2>3, <2>4, <2>5, <2>8 DEF SchemaInv
  <1>4. CASE (\E s \in Scripts : StartScript(s)) \/ Capture
    BY <1>4, BeginningKeeps
  <1>5. CASE Act \/ Verify
    BY <1>5, ActingKeeps
  <1>6. CASE RollBackLater \/ Preflight
    BY <1>6, LookingKeeps
  <1>7. CASE Restore \/ Undo \/ Undone \/ Raise
    BY <1>7, RestoreKeeps, UndoKeeps, UndoneKeeps, RaiseKeeps
  <1>8. CASE \E c \in Collections : ServiceWrites(c) \/ OperatorAdds(c)
    BY <1>8, AroundKeeps
  <1> QED
    BY <1>1, <1>2, <1>3, <1>4, <1>5, <1>6, <1>7, <1>8 DEF SchemaNext

LEMMA SchemaStarts == SchemaInit => SchemaInv
  <1> SUFFICES ASSUME SchemaInit PROVE SchemaInv
    OBVIOUS
  <1>1. /\ script = [pc |-> "idle", s |-> AgentMemory, touched |-> {}, rest |-> {}, outcome |-> "none"]
        /\ snapshot = [by |-> AgentMemory, store |-> store] /\ todo = {} /\ store \in [Collections -> Entries]
    BY DEF SchemaInit, Entries, SomeForm
  <1>2. /\ script = [f \in {"pc", "s", "touched", "rest", "outcome"} |-> script[f]]
        /\ script.pc = "idle" /\ script.s = AgentMemory /\ snapshot.by = AgentMemory /\ snapshot.store = store
        /\ snapshot = [by |-> snapshot.by, store |-> snapshot.store]
    BY <1>1
  <1>3. AgentMemory \in Scripts
    BY DEF Scripts
  <1>4. "idle" \notin AtWork \cup {"capture"}
    BY DEF AtWork
  <1>5. SchemaTypes
    BY <1>1, <1>2, <1>3, <1>4 DEF SchemaTypes
  <1> QED
    BY <1>2, <1>4, <1>5 DEF SchemaInv, Capturing, Acting, LookedAhead, PuttingBack, Before

-----------------------------------------------------------------------------

\* A call of a script, whether it raises or not, changes nothing that was there when an adding
\* script took its snapshot, nor documents that it has counted.
LEMMA ChangesAreSafe ==
    ASSUME SchemaInv, NEW t \in Foremost(todo),
           \/ script.pc \in {"act", "undo"} /\ t.operation # "remove" /\ Carry(t)
           \/ script.pc = "undo" /\ t.operation = "remove" /\ Remove(t.c)
    PROVE  /\ \A c \in Collections : store[c].written /\ ~store'[c].written => c \in late
           /\ script.s.additive =>
                \A c \in Collections, n \in AllNames :
                  Before(c).index[n] # "none" => store'[c].index[n] = store[c].index[n]
  <1>1. SchemaTypes /\ Acting /\ PuttingBack
    BY DEF SchemaInv
  <1>2. t \in todo /\ t \in AllChanges /\ t.c \in Collections
    BY <1>1, ForemostOf DEF SchemaTypes, AllChanges
  <1>3. script.pc = "undo" => Undoing(t.c)
    BY <1>1, <1>2 DEF PuttingBack, Undoing
  <1>4. CASE script.pc \in {"act", "undo"} /\ t.operation # "remove" /\ Carry(t)
    <2>1. script.s.additive => Before(t.c).index[t.n] = "none"
      <3>1. CASE script.pc = "act"
        BY <1>1, <1>2, <3>1 DEF Acting
      <3>2. CASE script.pc = "undo"
        <4>1. ~Made(t.c)
          <5>1. Change("remove", t.c, Extra, "none").operation = "remove"
            BY DEF Change
          <5> QED
            BY <1>2, <1>3, <1>4, <3>2, <5>1 DEF Undoing
        <4> QED
          BY <1>2, <1>3, <3>2, <4>1 DEF Undoing
      <3> QED
        BY <1>4, <3>1, <3>2
    <2>2. \A c \in Collections :
            /\ store'[c].written = store[c].written
            /\ \A n \in AllNames : store'[c].index[n] = IF c = t.c /\ n = t.n THEN t.form ELSE store[c].index[n]
      BY <1>1, <1>2, <1>4, Carries
    <2> QED
      BY <2>1, <2>2
  <1>5. CASE script.pc = "undo" /\ t.operation = "remove" /\ Remove(t.c)
    <2>1. ~Before(t.c).exists /\ (store[t.c].written => t.c \in late)
      BY <1>2, <1>3, <1>5 DEF Undoing, Made
    <2>2. \A b \in Collections : b # t.c => store'[b] = store[b]
      BY <1>1, <1>2, <1>5, Removes
    <2>3. \A n \in AllNames : Before(t.c).index[n] = "none"
      BY <1>1, <1>2, <2>1, EntryFields, EntryShape
    <2> QED
      BY <2>1, <2>2, <2>3
  <1> QED
    BY <1>4, <1>5

LEMMA RollbackExact ==
    ASSUME SchemaInv, [SchemaNext]_schemaVars
    PROVE  RollbackIsExact
  <1>1. SchemaTypes
    BY DEF SchemaInv
  <1>2. \/ UNCHANGED store
        \/ \E t \in Foremost(todo) :
             \/ script.pc \in {"act", "undo"} /\ t.operation # "remove" /\ Carry(t)
             \/ script.pc = "undo" /\ t.operation = "remove" /\ Remove(t.c)
        \/ \E c \in Collections : ServiceWrites(c) \/ OperatorAdds(c)
    <2>1. CASE Act
      <3>1. script.pc = "act" /\ (UNCHANGED store \/ \E t \in Foremost(todo) : Carry(t))
        BY <2>1 DEF Act, Sees
      <3>2. \A t \in Foremost(todo) : t.operation # "remove"
        BY <3>1, ForemostOf DEF SchemaInv, Acting
      <3> QED
        BY <3>1, <3>2
    <2>2. CASE Undo
      BY <2>2 DEF Undo, Sees
    <2>3. CASE Raise
      <3>1. script.pc = "act" => \A t \in Foremost(todo) : t.operation # "remove"
        BY ForemostOf DEF SchemaInv, Acting
      <3> QED
        BY <2>3, <3>1, RaisedStores
    <2>4. CASE ~(Act \/ Undo \/ Raise)
      BY <2>4 DEF SchemaNext, schemaVars, StartScript, Capture, Verify, RollBackLater,
         Preflight, Restore, Undone,
                  Restored, Lose
    <2> QED
      BY <2>1, <2>2, <2>3, <2>4
  <1>3. /\ \A c \in Collections : store[c].written /\ ~store'[c].written => c \in late
        /\ script.s.additive =>
             \A c \in Collections, n \in AllNames :
               Before(c).index[n] # "none" /\ Before(c).index[n] = store[c].index[n] => store'[c].index[n] = store[c].index[n]
    <2>1. CASE UNCHANGED store
      BY <2>1
    <2>2. CASE \E t \in Foremost(todo) :
                 \/ script.pc \in {"act", "undo"} /\ t.operation # "remove" /\ Carry(t)
                 \/ script.pc = "undo" /\ t.operation = "remove" /\ Remove(t.c)
      BY <2>2, ChangesAreSafe
    <2>3. CASE \E c \in Collections : ServiceWrites(c) \/ OperatorAdds(c)
      BY <1>1, <2>3, Surroundings
    <2> QED
      BY <1>2, <2>1, <2>2, <2>3
  <1>4. ASSUME script.pc = "restore", script'.outcome = "restored"
        PROVE  \A c \in script.s.of : AsFound(c)
    <2>1. script.outcome = "none" /\ script = [f \in {"pc", "s", "touched", "rest", "outcome"} |-> script[f]]
      BY <1>1, <1>4 DEF SchemaTypes
    <2>2. \A outcome : Stop(outcome) => script'.outcome = outcome
      BY <2>1 DEF Stop
    <2>3. script.rest = {}
      <3>1. script' # script
        BY <1>4, <2>1
      <3>2. Restored \/ Restore \/ Raise \/ Lose
        BY <1>4, <3>1 DEF SchemaNext, schemaVars, StartScript, Capture, Act, Verify,
           RollBackLater, Preflight, Undo,
                          Undone, Sees, ServiceWrites, OperatorAdds
      <3>3. ~Raise /\ ~Lose
        BY <1>4, <2>2 DEF Raise, Lose, Sees
      <3>4. ~Restore
        <4>1. \A rest : [script EXCEPT !.pc = "undo", !.rest = rest].outcome = "none"
          BY <2>1
        <4>2. Restore => script'.outcome \in {"none", "both_failed"}
          BY <2>2, <4>1 DEF Restore
        <4> QED
          BY <1>4, <4>2
      <3> QED
        BY <3>2, <3>3, <3>4 DEF Restored
    <2> QED
      BY <1>4, <2>3 DEF SchemaInv, PuttingBack
  <1> QED
    BY <1>3, <1>4 DEF RollbackIsExact, AsFound

SchemaSpec == SchemaInit /\ [][SchemaNext]_schemaVars

\* A script that is undone, by itself or by an operator, leaves the collections and the
\* indexes it found (_restore_snapshot and _restore of the scripts in storage).
THEOREM ScriptsAreUndone == SchemaSpec => ScriptsRestore
  <1>1. SchemaInit => SchemaInv
    BY SchemaStarts
  <1>2. SchemaInv /\ [SchemaNext]_schemaVars => SchemaInv'
    BY SchemaStep
  <1>3. SchemaInv /\ [SchemaNext]_schemaVars => RollbackIsExact
    BY RollbackExact
  <1> QED
    BY <1>1, <1>2, <1>3, PTL DEF SchemaSpec, ScriptsRestore

=============================================================================
