-------------------------- MODULE ClarificationLife --------------------------
(***************************************************************************)
(* What a clarification promises: a request is asked about a bounded       *)
(* number of times, an interruption is followed by the same question, and  *)
(* a frame that is closed is never opened again.                           *)
(***************************************************************************)
EXTENDS Integers

CONSTANTS Frame, MaxRounds, NoId

VARIABLES id, status, round

life == <<id, status, round>>

Init == id = NoId /\ status = "absent" /\ round = 0

Open == /\ status \notin {"waiting", "paused"}
        /\ id' \in Frame \ {id}
        /\ status' = "waiting" /\ round' = 0

Ask == status = "waiting" /\ round < MaxRounds /\ round' = round + 1 /\ UNCHANGED <<id, status>>

Interrupted == status = "waiting" /\ status' = "paused" /\ UNCHANGED <<id, round>>

Resumed == status = "paused" /\ status' = "waiting" /\ UNCHANGED <<id, round>>

Close == /\ status = "waiting" /\ status' \in {"resolved", "cancelled", "superseded"}
         /\ UNCHANGED <<id, round>>

\* A new request is begun from nothing.
Forget == id' = NoId /\ status' = "absent" /\ round' = 0

Next == Open \/ Ask \/ Interrupted \/ Resumed \/ Close \/ Forget

Spec == Init /\ [][Next]_life

=============================================================================
