-------------------------- MODULE EvaluationHoldout --------------------------
(***************************************************************************)
(* The sealed holdout: a release freeze names it by version and hash, and  *)
(* the first evaluation run of a frozen release opens both the release and *)
(* the dataset.  Each of the checks and marks is a call of its own.        *)
(***************************************************************************)
EXTENDS TaskQueue

CONSTANT Releases  \* release versions: one freeze each, of one holdout

ASSUME ReleasesAssumption == Releases \subseteq Records

VARIABLES
    dataset,  \* who opened the holdout, if anyone
    opening,  \* what each client has been told of that
    runs      \* runs of the holdout: by whom, of which release, opened by whom

holdoutVars == <<dataset, opening, runs>>

NoFreeze == [status |-> "absent"]

NothingOpened ==
    /\ dataset = None
    /\ opening = [c \in Clients |-> None]
    /\ runs = {}

HoldoutInit == QueueInit("holdout", NoFreeze) /\ NothingOpened

-----------------------------------------------------------------------------
(* create_release_freeze *)

\* The holdout of a new release must not have been opened.
FreezeRead(c, r) ==
    /\ Arrives(c, r, IF dataset = None THEN "save_freeze" ELSE "done")
    /\ UNCHANGED <<records, holdoutVars>>

\* $setOnInsert by release version.
SaveFreeze(c) ==
    /\ pc[c] = "save_freeze"
    /\ record' = [record EXCEPT ![asked[c]].status = IF @ = "absent" THEN "frozen" ELSE @]
    /\ Returns(c, "done")
    /\ UNCHANGED <<copy, holdoutVars>>

-----------------------------------------------------------------------------
(* create_run of the holdout *)

\* The latest frozen release of the holdout, which any of them may be; or the run is
\* refused.
FindFrozen(c) ==
    /\ \E r \in Releases :
         /\ record[r].status = "frozen" \/ \A o \in Releases : record[o].status # "frozen"
         /\ Arrives(c, r, IF record[r].status = "frozen" THEN "open_release" ELSE "done")
    /\ UNCHANGED <<records, holdoutVars>>

\* One update, from frozen to opened; a release opened meanwhile is given back.
OpenRelease(c) ==
    /\ pc[c] = "open_release"
    /\ record' = [record EXCEPT ![asked[c]].status = "opened"]
    /\ Returns(c, "open_dataset")
    /\ UNCHANGED <<copy, holdoutVars>>

\* Mutant of FirstOpening: the last one counts.
LastOpening(c) == c

FirstOpening(c) == IF dataset = None THEN c ELSE dataset

OpenDataset(c) ==
    /\ pc[c] = "open_dataset"
    /\ dataset' = FirstOpening(c)
    /\ opening' = [opening EXCEPT ![c] = dataset']
    /\ Returns(c, "baseline")
    /\ UNCHANGED <<records, runs>>

\* A baseline that is not there, not completed or of another dataset refuses the run,
\* and the holdout stays opened.
Baseline(c) ==
    /\ pc[c] = "baseline"
    /\ Returns(c, "save_run") \/ Returns(c, "done")
    /\ UNCHANGED <<records, holdoutVars>>

SaveRun(c) ==
    /\ pc[c] = "save_run"
    /\ runs' = runs \cup {[by |-> c, release |-> asked[c], opened |-> opening[c]]}
    /\ Returns(c, "done")
    /\ UNCHANGED <<records, dataset, opening>>

HoldoutNext ==
    \E c \in Clients :
        \/ \E r \in Releases : FreezeRead(c, r)
        \/ SaveFreeze(c) \/ FindFrozen(c) \/ OpenRelease(c) \/ OpenDataset(c)
        \/ Baseline(c) \/ SaveRun(c)
        \/ (LoseRequest(c) /\ UNCHANGED holdoutVars)

HoldoutSpec == HoldoutInit /\ [][HoldoutNext]_<<holdoutVars, queueVars>>

-----------------------------------------------------------------------------
(* Properties *)

\* The holdout is opened once: all runs of it carry the same opening, of a release
\* that is marked as opened too, also if several requests are at it together.
OpenedOnce ==
    \A x, y \in runs : x.opened = y.opened /\ record[x.release].status = "opened"

=============================================================================
