-------------------------- MODULE MCIndexAndSearch --------------------------
(***************************************************************************)
(* Searches among publications, withdrawals and the migration of the       *)
(* index; and, in behaviours of their own, the scripts that migrate the    *)
(* schema of MongoDB.                                                      *)
(***************************************************************************)
EXTENDS GovernedSearch, SchemaMigration, TLC

CONSTANTS d1, d2, key, fab, F1

VARIABLE part

\* d1 is of the fab the user is granted; d2 is of none, and is valid for two moments.
MCFacts ==
    (d1 :> [published |-> TRUE, approved |-> TRUE, effective |-> 0, expires |-> Never, key |-> key,
            of |-> [f \in Attributes |-> F1]])
    @@ (d2 :> [published |-> TRUE, approved |-> TRUE, effective |-> 1, expires |-> 3, key |-> key,
               of |-> [f \in Attributes |-> Empty]])

MCAsker == [admin |-> FALSE, keys |-> {key}, granted |-> [f \in Granted |-> {F1}]]

MCAsked == [asOf |-> Never, of |-> [f \in Attributes |-> Empty]]

Init ==
    /\ GovernedInit /\ SchemaInit
    /\ \/ part = "index" /\ \A c \in Collections : store[c] = Absent
       \/ /\ part = "schema" /\ Published(documents) = Docs /\ now = 0
          /\ store[1].index[Extra] # "wanted"
          /\ store[2] \in {Absent, [Absent EXCEPT !.exists = TRUE]}

-----------------------------------------------------------------------------
(* Bounds *)

\* The index migrates at one moment.  A search meets no mishaps, and one write or no
\* migration; its evidence is used again while nothing migrates.
Bounded ==
    /\ left'.commands < MaxCommands => now' = 1
    /\ BeginSearch => asks = MaxSearches
    /\ asks' < MaxSearches =>
         /\ left'.mishaps = MaxMishaps
         /\ \/ left'.commands = MaxCommands
            \/ left'.writes >= MaxWrites - 1 /\ asks' = MaxSearches - 1
    /\ QueryAt("idle") /\ (asks = 0 \/ (asks < MaxSearches /\ left.commands < MaxCommands)) => query'.pc # "idle"

Next ==
    /\ \/ part = "index" /\ GovernedStep /\ Bounded /\ Watching /\ UNCHANGED schemaVars
       \/ part = "schema" /\ SchemaNext /\ UNCHANGED <<indexVars, searchVars>>
    /\ UNCHANGED part

vars == <<part, indexVars, searchVars, schemaVars>>

Spec == Init /\ [][Next]_vars

=============================================================================
