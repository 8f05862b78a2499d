---------------------------- MODULE BackgroundJob ----------------------------
(***************************************************************************)
(* What the corpus and the evaluation services promise of a job, whatever  *)
(* the number of requests, messages, retries and lost workers behind it:   *)
(* it is accepted once, starts when it waits, ends one way, starts over    *)
(* only after it has failed, and a job that has succeeded is left alone.   *)
(*                                                                         *)
(* The promise is off from the moment a job is disturbed; what disturbs it *)
(* is for each service to say.                                             *)
(***************************************************************************)

CONSTANT Ids

VARIABLES
    phase,     \* of each job
    disturbed

jobVars == <<phase, disturbed>>

Phases == {"absent", "waiting", "running", "succeeded", "failed"}

Steps == {<<"absent", "waiting">>, <<"waiting", "running">>, <<"waiting", "failed">>,
          <<"running", "succeeded">>, <<"running", "failed">>, <<"failed", "waiting">>}

Init == phase = [j \in Ids |-> "absent"] /\ disturbed = FALSE

Move(j) ==
    /\ phase' \in [Ids -> Phases]
    /\ <<phase[j], phase'[j]>> \in Steps
    /\ \A k \in Ids \ {j} : phase'[k] = phase[k]
    /\ UNCHANGED disturbed

Disturb == disturbed' = TRUE /\ phase' \in [Ids -> Phases]

Next == Disturb \/ \E j \in Ids : Move(j)

Spec == Init /\ [][Next]_jobVars

=============================================================================
