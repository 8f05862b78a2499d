--------------------------- MODULE IndexMigration ---------------------------
(***************************************************************************)
(* The knowledge base is moved to a new index version: build makes a       *)
(* collection of the published chunks beside the active one, publish       *)
(* switches the alias and the catalogs to it, or puts them back            *)
(* (embedding_index_migration.py).  Publications, restorations and         *)
(* withdrawals go on, each in the index version its worker is configured   *)
(* with.  A document stands for one revision with one chunk.               *)
(***************************************************************************)
EXTENDS Integers, FiniteSets, Sequences

CONSTANTS
    Docs,
    Source, Target,  \* the index versions, which name their collections
    MaxWrites,       \* bound: publications and withdrawals
    MaxCommands,     \* bound: builds and publishes
    MaxMishaps       \* bound: calls that raise, processes that are lost

Versions == {Source, Target}

VARIABLES
    documents, chunks,  \* what document_catalog and chunk_catalog say of each document
    rows,               \* the published rows of each collection
    alias,              \* the collection of semikb_chunks_active
    release,            \* index_releases
    collections,        \* the collections there are
    configured,         \* milvus_index_version of the services
    writer,             \* a publication, restoration or withdrawal, and what it has yet to write
    mig,                \* the command that migrates
    past,               \* what the properties remember
    left                \* writes, commands and mishaps there may still be

catalogs == <<documents, chunks>>
stores == <<documents, chunks, rows, alias, release>>
indexVars == <<stores, collections, configured, writer, mig, past, left>>

Published(catalog) == {d \in Docs : catalog[d].state = "published"}
VersionsOf(catalog) == {catalog[d].version : d \in Published(catalog)}

Spend(what) == left[what] > 0 /\ left' = [left EXCEPT ![what] = @ - 1]

-----------------------------------------------------------------------------
(* Writers of documents *)

Publication == <<"document", "chunks", "rows", "alias", "release">>
Restoration == <<"document", "chunks", "rows", "alias">>
Withdrawal == <<"hide_document", "hide_chunks", "delete_rows">>

Idle == [kind |-> "none", doc |-> {}, version |-> Source, todo |-> <<>>]

\* A worker takes up a document, with the index version it is configured with.
BeginWrite(d) ==
    /\ writer.todo = <<>>
    /\ \/ documents[d].state = "absent"
          /\ writer' = [kind |-> "publication", doc |-> {d}, version |-> configured, todo |-> Publication]
       \/ documents[d].state = "hidden"
          /\ writer' = [kind |-> "restoration", doc |-> {d}, version |-> configured, todo |-> Restoration]
       \/ documents[d].state = "published"
          /\ writer' = [kind |-> "withdrawal", doc |-> {d}, version |-> Source, todo |-> Withdrawal]
    /\ Spend("writes")
    /\ UNCHANGED <<stores, collections, configured, mig, past>>

\* Where the rows of a document that is hidden are deleted.
RowsAt(d) == IF writer.kind = "withdrawal" THEN documents[d].version ELSE writer.version

\* activate_alias moves the alias to the collection of the document.
Activated == writer.version

WriteDocument(d) ==
    \/ /\ Head(writer.todo) = "document"
       /\ documents' = [documents EXCEPT ![d] = [state |-> "published", version |-> writer.version]]
    \/ Head(writer.todo) = "hide_document" /\ documents' = [documents EXCEPT ![d].state = "hidden"]

WriteChunks(d) ==
    \/ /\ Head(writer.todo) = "chunks"
       /\ chunks' = [chunks EXCEPT ![d] = [state |-> "published", version |-> writer.version]]
    \/ Head(writer.todo) = "hide_chunks" /\ chunks' = [chunks EXCEPT ![d].state = "hidden"]

WriteRows(d) ==
    \/ Head(writer.todo) = "rows" /\ rows' = [rows EXCEPT ![writer.version] = @ \cup {d}]
    \/ Head(writer.todo) = "delete_rows" /\ rows' = [rows EXCEPT ![RowsAt(d)] = @ \ {d}]

\* The next write of the worker.
Write(d) ==
    \/ WriteDocument(d) /\ UNCHANGED <<chunks, rows, alias, release>>
    \/ WriteChunks(d) /\ UNCHANGED <<documents, rows, alias, release>>
    \/ WriteRows(d) /\ UNCHANGED <<catalogs, alias, release>>
    \/ Head(writer.todo) = "alias" /\ alias' = Activated /\ UNCHANGED <<catalogs, rows, release>>
    \/ /\ Head(writer.todo) = "release"
       /\ release' = [release EXCEPT ![writer.version].status = "active"]
       /\ UNCHANGED <<catalogs, rows, alias>>

Remember(broken) ==
    past' = [past EXCEPT !.moved = @ \/ alias' # alias, !.broken = @ \cup broken]

WriteStep ==
    /\ writer.todo # <<>>
    /\ \E d \in writer.doc : Write(d)
    /\ writer' = IF Len(writer.todo) = 1 THEN Idle ELSE [writer EXCEPT !.todo = Tail(@)]
    /\ Remember({})
    /\ UNCHANGED <<collections, configured, mig, left>>

\* What follows a call that has raised: a publication or restoration is taken back,
\* as far as that does not raise, too.
AfterRaise ==
    CASE writer.kind = "withdrawal" -> <<>>
      [] writer.todo[1] \notin {"hide_document", "hide_chunks", "delete_rows"} -> Withdrawal
      [] writer.kind = "restoration" /\ writer.todo[1] # "delete_rows" -> <<"delete_rows">>
      [] OTHER -> <<>>

\* A call raises, with its write made or not, or the worker is lost.
WriteFault ==
    /\ writer.todo # <<>>
    /\ \E d \in writer.doc : Write(d) \/ UNCHANGED stores
    /\ \E todo \in {AfterRaise, <<>>} :
         /\ writer' = IF todo = <<>> THEN Idle ELSE [writer EXCEPT !.todo = todo]
         /\ Remember(IF todo = Withdrawal THEN {} ELSE writer.doc)
    /\ Spend("mishaps")
    /\ UNCHANGED <<collections, configured, mig>>

-----------------------------------------------------------------------------
(* The migration *)

\* The documents are kept, of which the code has the number.
NoPlan == [source |-> Source, documents |-> {}, chunks |-> 0]

NoCommand ==
    [pc |-> "idle", command |-> "none", read |-> NoPlan, plan |-> NoPlan, loaded |-> {},
     switched |-> FALSE, errors |-> FALSE, outcome |-> "none"]

At(pc) == mig.pc = pc
Goto(pc) == mig' = [mig EXCEPT !.pc = pc]
End(outcome) == mig' = [NoCommand EXCEPT !.outcome = outcome]
Refuse == End("refused")

Begin(command) ==
    /\ At("idle")
    /\ mig' = [NoCommand EXCEPT !.pc = "plan", !.command = command]
    /\ Spend("commands")
    /\ UNCHANGED <<stores, collections, configured, writer, past>>

\* plan reads the alias and document_catalog,
PlanDocuments ==
    /\ mig.pc \in {"plan", "recount"}
    /\ LET read == [source |-> alias, documents |-> Published(documents), chunks |-> 0] IN
         IF VersionsOf(documents) = {alias}
           THEN mig' = [mig EXCEPT !.pc = IF @ = "plan" THEN "plan_chunks" ELSE "recount_chunks", !.read = read]
           ELSE Refuse
    /\ UNCHANGED <<stores, collections, configured, writer, past, left>>

Plan == [mig.read EXCEPT !.chunks = Cardinality(Published(chunks))]

\* then chunk_catalog, and looks for the collection: the two catalogs and the alias agree.
PlanChunks ==
    /\ At("plan_chunks")
    /\ IF /\ VersionsOf(chunks) = {mig.read.source} /\ mig.read.source # Target
          /\ mig.command = "publish" => Target \in collections
         THEN mig' = [mig EXCEPT !.pc = IF mig.command = "build" THEN "provision" ELSE "candidate",
                                 !.plan = Plan]
         ELSE Refuse
    /\ UNCHANGED <<stores, collections, configured, writer, past, left>>

\* provision_milvus_index
Provision ==
    /\ At("provision")
    /\ collections' = collections \cup {Target}
    /\ Goto("load")
    /\ UNCHANGED <<stores, configured, writer, past, left>>

\* _verify_candidate_release
VerifyCandidate ==
    /\ At("candidate")
    /\ IF release[Target] = [status |-> "candidate", count |-> mig.plan.chunks]
         THEN Goto("load") ELSE Refuse
    /\ UNCHANGED <<stores, collections, configured, writer, past, left>>

Load ==
    /\ At("load")
    /\ IF Cardinality(Published(chunks)) = mig.plan.chunks
         THEN mig' = [mig EXCEPT !.pc = "recount", !.loaded = Published(chunks)]
         ELSE Refuse
    /\ UNCHANGED <<stores, collections, configured, writer, past, left>>

SamePlan ==
    /\ Plan.source = mig.plan.source /\ Plan.chunks = mig.plan.chunks
    /\ Cardinality(Plan.documents) = Cardinality(mig.plan.documents)

\* _verify_catalog_snapshot has planned once more.
VerifySnapshot ==
    /\ At("recount_chunks")
    /\ IF VersionsOf(chunks) = {mig.read.source} /\ SamePlan
         THEN Goto(IF mig.command = "build" THEN "upsert" ELSE "verify") ELSE Refuse
    /\ UNCHANGED <<stores, collections, configured, writer, past, left>>

Versioned(catalog, v) ==
    [d \in Docs |-> IF d \in Published(catalog) THEN [catalog[d] EXCEPT !.version = v] ELSE catalog[d]]

SetStatus(v, status) == release' = [release EXCEPT ![v].status = status]

\* What the step at which the command is writes.
MakeRows ==
    At("upsert") /\ rows' = [rows EXCEPT ![Target] = @ \cup mig.loaded]

MakeAlias ==
    \/ At("switch") /\ alias' = Target
    \/ At("restore_alias") /\ alias' = mig.plan.source

MakeDocuments ==
    \/ At("documents") /\ documents' = Versioned(documents, Target)
    \/ At("restore_documents") /\ documents' = Versioned(documents, mig.plan.source)

MakeChunks ==
    \/ At("chunks") /\ chunks' = Versioned(chunks, Target)
    \/ At("restore_chunks") /\ chunks' = Versioned(chunks, mig.plan.source)

MakeRelease ==
    \/ /\ At("record")
       /\ release' = [release EXCEPT ![Target] = [status |-> "candidate", count |-> mig.plan.chunks]]
    \/ At("deactivate") /\ SetStatus(mig.plan.source, "inactive")
    \/ At("activate") /\ SetStatus(Target, "active")
    \/ At("restore_source") /\ SetStatus(mig.plan.source, "active")
    \/ At("restore_target") /\ SetStatus(Target, "candidate")

Make ==
    \/ MakeRows /\ UNCHANGED <<catalogs, alias, release>>
    \/ MakeAlias /\ UNCHANGED <<catalogs, rows, release>>
    \/ MakeDocuments /\ UNCHANGED <<chunks, rows, alias, release>>
    \/ MakeChunks /\ UNCHANGED <<documents, rows, alias, release>>
    \/ MakeRelease /\ UNCHANGED <<catalogs, rows, alias>>

Upsert ==
    /\ At("upsert") /\ Make /\ Goto("verify")
    /\ UNCHANGED <<collections, configured, writer, past, left>>

\* The collection has a row of each chunk, and as many as there are chunks.
RowsVerified == mig.loaded \subseteq rows[Target] /\ Cardinality(rows[Target]) = Cardinality(mig.loaded)

\* _verify_rows and _verify_dense_probe
VerifyRows ==
    /\ At("verify")
    /\ IF RowsVerified THEN Goto(IF mig.command = "build" THEN "record" ELSE "switch") ELSE Refuse
    /\ UNCHANGED <<stores, collections, configured, writer, past, left>>

RecordCandidate ==
    /\ At("record") /\ Make /\ Goto("check_alias")
    /\ UNCHANGED <<collections, configured, writer, past, left>>

CheckAlias ==
    /\ At("check_alias")
    /\ IF alias = mig.plan.source THEN End("built") ELSE Refuse
    /\ UNCHANGED <<stores, collections, configured, writer, past, left>>

SwitchAlias ==
    /\ At("switch") /\ Make
    /\ mig' = [mig EXCEPT !.pc = "documents", !.switched = TRUE]
    /\ UNCHANGED <<collections, configured, writer, past, left>>

\* _update_catalog_versions changes the documents, then the chunks, and compares how
\* many there were with the plan.
UpdateDocuments ==
    /\ At("documents") /\ Make
    /\ mig' = [mig EXCEPT !.pc = "chunks", !.read.documents = Published(documents)]
    /\ UNCHANGED <<collections, configured, writer, past, left>>

\* Mutant of Rollback: the alias stays where it is.
RollbackWithoutAlias == Goto("restore_documents")

\* The handler of publish restores the alias if it has been switched.
Rollback == Goto(IF mig.switched THEN "restore_alias" ELSE "restore_documents")

\* Mutant of CountsMatch: the counts are not compared.
CountsUnchecked == TRUE

CountsMatch ==
    /\ Cardinality(mig.read.documents) = Cardinality(mig.plan.documents)
    /\ Cardinality(Published(chunks)) = mig.plan.chunks

\* Numbers agree, though others are published than were planned or loaded.
Swapped ==
    \/ mig.read.documents # mig.plan.documents
         /\ Cardinality(mig.read.documents) = Cardinality(mig.plan.documents)
    \/ Published(chunks) # mig.loaded /\ Cardinality(Published(chunks)) = Cardinality(mig.loaded)

UpdateChunks ==
    /\ At("chunks") /\ Make
    /\ IF CountsMatch
         THEN Goto("deactivate") /\ past' = [past EXCEPT !.swapped = @ \/ Swapped]
         ELSE Rollback /\ UNCHANGED past
    /\ UNCHANGED <<collections, configured, writer, left>>

UpdateReleases ==
    /\ \/ At("deactivate") /\ Goto("activate")
       \/ At("activate") /\ Goto("confirm")
    /\ Make
    /\ UNCHANGED <<collections, configured, writer, past, left>>

Confirm ==
    /\ At("confirm")
    /\ IF alias = Target THEN End("published") ELSE Rollback
    /\ UNCHANGED <<stores, collections, configured, writer, past, left>>

RestoreAlias ==
    /\ At("restore_alias") /\ Make /\ Goto("restore_documents")
    /\ UNCHANGED <<collections, configured, writer, past, left>>

\* _restore_catalog_versions
RestoreCatalogs ==
    /\ \/ At("restore_documents") /\ Goto("restore_chunks")
       \/ At("restore_chunks") /\ Goto("restore_source")
       \/ At("restore_source") /\ Goto("restore_target")
       \/ At("restore_target") /\ End(IF mig.errors THEN "repair" ELSE "failed")
    /\ Make
    /\ UNCHANGED <<collections, configured, writer, past, left>>

Command ==
    \/ PlanDocuments \/ PlanChunks \/ Provision \/ VerifyCandidate \/ Load \/ VerifySnapshot
    \/ Upsert \/ VerifyRows \/ RecordCandidate \/ CheckAlias
    \/ SwitchAlias \/ UpdateDocuments \/ UpdateChunks \/ UpdateReleases \/ Confirm
    \/ RestoreAlias \/ RestoreCatalogs

Publishing == {"documents", "chunks", "deactivate", "activate", "confirm"}
RollingBack == {"restore_documents", "restore_chunks", "restore_source", "restore_target"}

\* A call of the command raises, with its write made or not.
CommandFault ==
    /\ ~At("idle")
    /\ Make \/ UNCHANGED stores
    /\ CASE mig.pc \in Publishing \cup {"switch"} -> Rollback
         [] At("restore_alias") -> mig' = [mig EXCEPT !.pc = "restore_documents", !.errors = TRUE]
         [] mig.pc \in RollingBack -> End("repair")
         [] OTHER -> Refuse
    /\ past' = [past EXCEPT !.strayed = @ \/ (At("switch") /\ alias' # alias) \/ At("restore_alias")]
    /\ Spend("mishaps")
    /\ UNCHANGED <<collections, configured, writer>>

\* The process of the command is lost.
CommandLost ==
    /\ ~At("idle")
    /\ End("lost")
    /\ past' = [past EXCEPT !.strayed = @ \/ mig.switched]
    /\ Spend("mishaps")
    /\ UNCHANGED <<stores, collections, configured, writer>>

\* The services are started with the new version once it is published.
Reconfigure ==
    /\ mig.outcome = "published"
    /\ configured' = Target
    /\ UNCHANGED <<stores, collections, writer, mig, past, left>>

-----------------------------------------------------------------------------

IndexInit ==
    /\ \E published \in SUBSET Docs \ {{}} :
         /\ documents = [d \in Docs |-> [state |-> IF d \in published THEN "published" ELSE "absent",
                                         version |-> Source]]
         /\ rows = [v \in Versions |-> IF v = Source THEN published ELSE {}]
    /\ chunks = documents
    /\ alias = Source /\ collections = {Source} /\ configured = Source
    /\ release = [v \in Versions |-> [status |-> IF v = Source THEN "active" ELSE "none", count |-> 0]]
    /\ writer = Idle /\ mig = NoCommand
    /\ past = [moved |-> FALSE, swapped |-> FALSE, strayed |-> FALSE, broken |-> {}]
    /\ left = [writes |-> MaxWrites, commands |-> MaxCommands, mishaps |-> MaxMishaps]

IndexNext ==
    \/ \E d \in Docs : BeginWrite(d)
    \/ WriteStep \/ WriteFault
    \/ \E command \in {"build", "publish"} : Begin(command)
    \/ Command \/ CommandFault \/ CommandLost
    \/ Reconfigure

-----------------------------------------------------------------------------

Switching == Publishing \cup RollingBack \cup {"restore_alias"}

\* Unless a publish is at work, whatever is published in both catalogs has a row in the
\* collection that searches read, through builds, switches and roll-backs among
\* publications and withdrawals (embedding_index_migration.py).  Excused: a document
\* that is being written or whose writing broke off; a publication that has moved the
\* alias to another version than it had; a switch that raised after it was made, whose
\* command was lost, or that could not be undone; and a switch of other documents than
\* were planned, or other chunks than were loaded, but as many.
PublishedIsFound ==
    mig.pc \notin Switching /\ ~past.moved /\ ~past.swapped /\ ~past.strayed
      => (Published(documents) \cap Published(chunks)) \ (writer.doc \cup past.broken) \subseteq rows[alias]

\* A publish that fails, and does not ask for repair, leaves the alias, both catalogs and
\* the releases as they were in the source version (publish and its handler).  Excused:
\* services that have another version, and a switch that raised after it was made, which
\* the handler takes for one that was not made.
FailedPublishRestores ==
    mig.pc # "idle" /\ mig'.outcome = "failed" /\ configured = Source /\ ~past.strayed
      => /\ alias' = mig.plan.source
         /\ VersionsOf(documents') \cup VersionsOf(chunks') \subseteq {mig.plan.source}
         /\ release'[mig.plan.source].status = "active" /\ release'[Target].status = "candidate"

\* FailedPublishRestores, of every step of the migration, a writer or an operator.
RestoredOnFailure == [][FailedPublishRestores]_indexVars

=============================================================================
