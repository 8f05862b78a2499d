------------------------- MODULE MCDocumentLifecycle -------------------------
(***************************************************************************)
(* One withdrawal and one restoration of a revision: carried out by the    *)
(* one worker process of the deployment through faults of every kind, or   *)
(* by two through those that workers recover from.                         *)
(***************************************************************************)
EXTENDS DocumentLifecycle, FiniteSetsExt

CONSTANTS
    wd, rs,
    Lone,      \* the worker that may be the only one
    MaxTotal   \* faults of all kinds that one worker alone meets

Actions == [o \in Ops |-> IF o = wd THEN "withdraw" ELSE "restore"]

VARIABLE crew  \* the workers at work

mcVars == <<vars, crew>>

AnyFault == [k \in Kinds |-> 1]
WorkersAreLost == [k \in Kinds |-> IF k = "worker" THEN 1 ELSE 0]

Recoverable == {"vector", "worker"}

Bounded ==
    /\ \A w \in Workers \ crew : pc'[w] = "idle"
    /\ IF crew = {Lone} THEN MapThenSumSet(LAMBDA k : faults'[k], Kinds) <= MaxTotal
       ELSE \A k \in Kinds \ Recoverable : faults'[k] = 0

MCInit == Init /\ crew \in {{Lone}, Workers}
MCNext == Next /\ Bounded /\ UNCHANGED crew

MCSpec ==
    /\ MCInit /\ [][MCNext]_mcVars
    /\ \A c \in Clients : WF_mcVars(ClientStep(c) /\ Bounded /\ UNCHANGED crew)
    /\ \A w \in Workers : WF_mcVars(WorkerStep(w) /\ Bounded /\ UNCHANGED crew)

===============================================================================
