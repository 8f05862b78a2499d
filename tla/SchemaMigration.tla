--------------------------- MODULE SchemaMigration ---------------------------
(***************************************************************************)
(* The scripts that bring the indexes of MongoDB to a new contract         *)
(* (storage/*_migration.py): each takes a snapshot, plans or refuses,      *)
(* changes one index after another, verifies, and puts back what it found  *)
(* if anything raises; some can be rolled back later from the snapshot.    *)
(* Services write documents, and operators add indexes, at any time.       *)
(*                                                                         *)
(* Of an index, its name and its form are kept: what the contract wants,   *)
(* what an approved earlier provisioning made, or neither.  An operation   *)
(* that raises may have been carried out; a unique index that documents    *)
(* violate is one that raises and was not.                                 *)
(***************************************************************************)
EXTENDS Naturals, FiniteSets

CONSTANTS
    NumCollections,  \* collections that a script changes
    Names,           \* names of the indexes the contract wants
    Extra,           \* a name that the contract does not have
    MaxServiceWrites,       \* bound: collections that services write to
    MaxScripts,     \* bound: migrations and roll-backs
    MaxTroubles       \* bound: calls that raise, processes that are lost, indexes of operators

ASSUME NumCollectionsAssumption == NumCollections \in Nat \ {0}
ASSUME ExtraAssumption == Extra \notin Names

Collections == 1 .. NumCollections
AllNames == Names \cup {Extra}
Forms == {"wanted", "legacy", "other"}

VARIABLES
    store,     \* whether each collection exists and has documents, and the forms of its indexes
    script,    \* the script at work, how far it is, and the collections it has touched
    snapshot,  \* what it found
    todo,      \* the changes it has yet to make
    late,      \* collections written to since the script counted their documents
    chances    \* writes, commands and mishaps there may still be

schemaVars == <<store, script, snapshot, todo, late, chances>>

Take(what) == chances[what] > 0 /\ chances' = [chances EXCEPT ![what] = @ - 1]

Bare == [n \in AllNames |-> "none"]
Absent == [exists |-> FALSE, written |-> FALSE, index |-> Bare]

-----------------------------------------------------------------------------
(* The scripts.  Of each: whether it only adds indexes; the collections it *)
(* changes; whether those may be missing, or have documents; the forms it  *)
(* replaces, in a name of the contract or another; how it rolls back:      *)
(* whether it looks at documents before that, for all collections ahead or *)
(* for each in turn, removes what it made, and keeps to the order of       *)
(* collections; and whether it can be rolled back later.                   *)

\* t9446a_source_governance_migration.py
SourceGovernance ==
    [name |-> "t9446a", additive |-> TRUE, of |-> Collections, makes |-> TRUE, filled |-> TRUE,
     replaces |-> {}, approves |-> {}, counts |-> TRUE, ahead |-> TRUE, removes |-> TRUE, ordered |-> TRUE,
     later |-> TRUE]

\* t9446b_lifecycle_migration.py
LifecycleOperations == [SourceGovernance EXCEPT !.name = "t9446b", !.of = {1}, !.ahead = FALSE]

\* t9446c2_corpus_standardization_migration.py
StandardizationJobs == [LifecycleOperations EXCEPT !.name = "t9446c2"]

\* t9446d_publication_migration.py
PublicationBatches == [SourceGovernance EXCEPT !.name = "t9446d", !.ahead = FALSE]

\* t9444_table_assets_migration.py
TableAssets ==
    [LifecycleOperations EXCEPT !.name = "t9444", !.additive = FALSE, !.filled = FALSE,
                                !.replaces = {"legacy", "other"}]

\* mongo_index_migration.py
CatalogIndexes ==
    [name |-> "mongo_index", additive |-> FALSE, of |-> Collections, makes |-> FALSE, filled |-> FALSE,
     replaces |-> {"legacy"}, approves |-> {"legacy"}, counts |-> FALSE, ahead |-> FALSE, removes |-> FALSE,
     ordered |-> TRUE, later |-> FALSE]

\* t6_mongo_migration.py: a collection that is missing counts as one that is empty and has no
\* indexes, and what has been touched is a set.
AgentMemory == [CatalogIndexes EXCEPT !.name = "t6", !.makes = TRUE, !.ordered = FALSE]

Scripts ==
    {SourceGovernance, LifecycleOperations, StandardizationJobs, PublicationBatches,
     TableAssets, CatalogIndexes, AgentMemory}

-----------------------------------------------------------------------------
(* Planning *)

Sees(pc) == script.pc = pc
Move(pc) == script' = [script EXCEPT !.pc = pc]
Stop(outcome) == script' = [script EXCEPT !.pc = "idle", !.outcome = outcome]

\* What raised is caught, and the script restores what it has touched or, if it only adds, all.
Fail(touched) ==
    script' = [script EXCEPT !.pc = IF @ = "act" /\ script.s.ahead THEN "preflight" ELSE "restore",
                             !.rest = IF script.s.counts THEN script.s.of ELSE touched]

\* What a script accepts to find in a collection.
Clear(s, c) ==
    /\ s.makes \/ store[c].exists
    /\ s.filled \/ ~store[c].written
    /\ \A n \in Names : store[c].index[n] \in {"none", "wanted"} \cup s.replaces
    /\ store[c].index[Extra] \in {"none"} \cup s.approves

Having(c, forms) == {n \in AllNames : store[c].index[n] \in forms}

Change(operation, c, n, form) == [operation |-> operation, c |-> c, n |-> n, form |-> form]

\* build_migration_plan: the indexes to drop, and those to create.
Changes(s) ==
    UNION {{Change("drop", c, n, "none") : n \in Having(c, s.replaces)}
             \cup {Change("create", c, n, "wanted") : n \in Names \ Having(c, {"wanted"})} : c \in s.of}

StartScript(s) ==
    /\ Sees("idle")
    /\ script' = [pc |-> "capture", s |-> s, touched |-> {}, rest |-> {}, outcome |-> "none"]
    /\ Take("commands")
    /\ UNCHANGED <<store, snapshot, todo, late>>

\* capture_snapshot and build_migration_plan, which refuses what it does not accept.
Capture ==
    /\ Sees("capture")
    /\ IF \A c \in script.s.of : Clear(script.s, c)
         THEN /\ Move("act")
              /\ snapshot' = [by |-> script.s, store |-> store] /\ todo' = Changes(script.s)
         ELSE Stop("refused") /\ UNCHANGED <<snapshot, todo>>
    /\ late' = {}
    /\ UNCHANGED <<store, chances>>

-----------------------------------------------------------------------------
(* Changing indexes *)

\* Collections one after another, and in each the indexes to drop before those to create.
Foremost(changes) ==
    LET here == {t \in changes : \A u \in changes : t.c <= u.c}
        drops == {t \in here : t.operation = "drop"}
    IN  IF drops = {} THEN here ELSE drops

Carry(t) ==
    store' = [store EXCEPT ![t.c].index[t.n] = t.form, ![t.c].exists = TRUE]

\* The next change; MongoDB refuses to create an index that is there in another form.
Act ==
    /\ Sees("act") /\ todo # {}
    /\ \E t \in Foremost(todo) :
         /\ todo' = todo \ {t}
         /\ IF t.operation = "create" /\ store[t.c].index[t.n] \notin {"none", "wanted"}
              THEN Fail(script.touched \cup {t.c}) /\ UNCHANGED store
              ELSE Carry(t) /\ script' = [script EXCEPT !.touched = @ \cup {t.c}]
    /\ UNCHANGED <<snapshot, late, chances>>

\* Planned once more, nothing is left to do.
Verify ==
    /\ Sees("act") /\ todo = {}
    /\ IF (\A c \in script.s.of : Clear(script.s, c)) /\ Changes(script.s) = {}
         THEN Stop("migrated") ELSE Fail(script.touched)
    /\ UNCHANGED <<store, snapshot, todo, late, chances>>

-----------------------------------------------------------------------------
(* Restoring *)

Before(c) == snapshot.store[c]

\* rollback, of a script that has it, from the snapshot it has left.
RollBackLater ==
    /\ Sees("idle") /\ snapshot.by.later
    /\ script' = [pc |-> IF snapshot.by.ahead THEN "preflight" ELSE "restore", s |-> snapshot.by,
                  touched |-> {}, rest |-> snapshot.by.of, outcome |-> "none"]
    /\ todo' = {} /\ late' = {}
    /\ Take("commands")
    /\ UNCHANGED <<store, snapshot>>

\* A collection that was not there has no documents; one that was is there, with the
\* indexes that it had.
Undisturbed(c) ==
    IF Before(c).exists
      THEN store[c].exists /\ \A n \in AllNames : Before(c).index[n] \in {"none", store[c].index[n]}
      ELSE ~store[c].written

\* _preflight_rollback
Preflight ==
    /\ Sees("preflight")
    /\ IF \A c \in script.s.of : Undisturbed(c) THEN Move("restore") ELSE Stop("both_failed")
    /\ late' = {}
    /\ UNCHANGED <<store, snapshot, todo, chances>>

Added(c) == {n \in AllNames : Before(c).index[n] = "none"} \cap Having(c, Forms)

\* Mutant of Permits: the documents are not counted.
PermitsUncounted(c) ==
    script.s.additive /\ Before(c).exists =>
      Undisturbed(c) /\ Added(c) \subseteq Names \cap Having(c, {"wanted"})

\* Whether a script goes on to restore a collection, and the changes that takes: one that
\* it made is removed, by a script that does so; of another the indexes that were added are
\* dropped, if the contract wants them; a script that replaces drops all indexes and creates
\* those that were there, which is none of a collection that was not.
Permits(c) ==
    /\ script.s.counts /\ ~script.s.ahead =>
         IF script.s.additive THEN Undisturbed(c) ELSE ~store[c].written
    /\ script.s.additive /\ Before(c).exists => Added(c) \subseteq Names \cap Having(c, {"wanted"})

Restoring(c) ==
    IF ~Before(c).exists /\ script.s.removes THEN {Change("remove", c, Extra, "none")}
    ELSE IF script.s.additive THEN {Change("drop", c, n, "none") : n \in Added(c)}
    ELSE {Change("drop", c, n, "none") : n \in Having(c, Forms)}
           \cup {Change("create", c, n, Before(c).index[n]) :
                   n \in {m \in AllNames : Before(c).index[m] # "none"}}

\* _restore_snapshot comes to a collection.
Restore ==
    /\ Sees("restore")
    /\ \E c \in script.rest :
         /\ script.s.ordered => \A b \in script.rest : c <= b
         /\ IF Permits(c)
              THEN /\ script' = [script EXCEPT !.pc = "undo", !.rest = @ \ {c}]
                   /\ todo' = Restoring(c)
                   /\ late' = IF script.s.ahead THEN late ELSE late \ {c}
              ELSE Stop("both_failed") /\ UNCHANGED <<todo, late>>
    /\ UNCHANGED <<store, snapshot, chances>>

Remove(c) == store' = [store EXCEPT ![c] = Absent]

Undo ==
    /\ Sees("undo") /\ todo # {}
    /\ \E t \in Foremost(todo) :
         /\ todo' = todo \ {t}
         /\ IF t.operation = "create" /\ store[t.c].index[t.n] \notin {"none", t.form}
              THEN Stop("both_failed") /\ UNCHANGED store
              ELSE /\ IF t.operation = "remove" THEN Remove(t.c) ELSE Carry(t)
                   /\ UNCHANGED script
    /\ UNCHANGED <<snapshot, late, chances>>

Undone == Sees("undo") /\ todo = {} /\ Move("restore") /\ UNCHANGED <<store, snapshot, todo, late, chances>>

Restored ==
    /\ Sees("restore") /\ script.rest = {} /\ Stop("restored")
    /\ UNCHANGED <<store, snapshot, todo, late, chances>>

-----------------------------------------------------------------------------
(* What happens around a script *)

\* A call of the script raises, with its change made or not.
Raise ==
    /\ ~Sees("idle") /\ Take("mishaps")
    /\ \/ /\ \E t \in Foremost(todo) : IF t.operation = "remove" THEN Remove(t.c) ELSE Carry(t)
          /\ script.pc \in {"act", "undo"}
       \/ UNCHANGED store
    /\ CASE Sees("act") -> Fail(script.touched \cup {t.c : t \in Foremost(todo)})
         [] Sees("capture") -> Stop("refused")
         [] OTHER -> Stop("both_failed")
    /\ todo' = {}
    /\ UNCHANGED <<snapshot, late>>

\* Its process is lost.
Lose == ~Sees("idle") /\ Take("mishaps") /\ Stop("lost") /\ todo' = {} /\ UNCHANGED <<store, snapshot, late>>

\* A service writes a document, which makes the collection.
ServiceWrites(c) ==
    /\ ~store[c].written /\ Take("writes")
    /\ store' = [store EXCEPT ![c].exists = TRUE, ![c].written = TRUE]
    /\ late' = late \cup {c}
    /\ UNCHANGED <<script, snapshot, todo>>

\* An operator adds an index of another name.
OperatorAdds(c) ==
    /\ store[c].exists /\ store[c].index[Extra] = "none" /\ Take("mishaps")
    /\ store' = [store EXCEPT ![c].index[Extra] = "other"]
    /\ UNCHANGED <<script, snapshot, todo, late>>

-----------------------------------------------------------------------------

SchemaInit ==
    /\ store \in [Collections -> {Absent} \cup
                    [exists : {TRUE}, written : BOOLEAN, index : [AllNames -> Forms \cup {"none"}]]]
    /\ script = [pc |-> "idle", s |-> AgentMemory, touched |-> {}, rest |-> {}, outcome |-> "none"]
    /\ snapshot = [by |-> AgentMemory, store |-> store]
    /\ todo = {} /\ late = {}
    /\ chances = [writes |-> MaxServiceWrites, commands |-> MaxScripts, mishaps |-> MaxTroubles]

SchemaNext ==
    \/ \E s \in Scripts : StartScript(s)
    \/ Capture \/ Act \/ Verify
    \/ RollBackLater \/ Preflight \/ Restore \/ Undo \/ Undone \/ Restored
    \/ Raise \/ Lose
    \/ \E c \in Collections : ServiceWrites(c) \/ OperatorAdds(c)

-----------------------------------------------------------------------------

\* Documents survive whatever the scripts do, but for those a service wrote after the
\* script had counted; a script that only adds leaves every index alone that was there
\* when it took its snapshot; and one that says it has restored has put back the
\* indexes of the contract as they were, wherever a call raised, and each index of another
\* name that was there (the _restore_snapshot of each script, migrate of t6).  It has kept
\* the collections, and removed those it made, but for t6, which says so of indexes alone.
\* Excused: a collection that a service has written to, or written to anew, since.
RollbackIsExact ==
    /\ \A c \in Collections : store[c].written /\ ~store'[c].written => c \in late
    /\ script.s.additive /\ script.pc # "idle" =>
         \A c \in Collections, n \in AllNames :
           Before(c).index[n] # "none" /\ Before(c).index[n] = store[c].index[n] => store'[c].index[n] = store[c].index[n]
    /\ script.pc = "restore" /\ script'.outcome = "restored" =>
         \A c \in script.s.of :
           /\ Before(c).exists => store[c].exists
           /\ store[c].exists /\ script.s.removes => Before(c).exists \/ c \in late
           /\ \A n \in AllNames : Before(c).index[n] # "none" => store[c].index[n] = Before(c).index[n]
           /\ \A n \in Names : Before(c).index[n] = "none" => store[c].index[n] = "none"

\* RollbackIsExact, of every step of a script, a service or an operator.
ScriptsRestore == [][RollbackIsExact]_schemaVars

=============================================================================
