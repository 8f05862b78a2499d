------------------------------ MODULE ThreadLog ------------------------------
(***************************************************************************)
(* What a conversation thread promises to the requests that write it: it   *)
(* is a log with one writer at a time.  The writer asks its question once, *)
(* under a turn number nobody else uses, and answers it once, under the    *)
(* next number; nothing is ever taken back.  A request is settled once,    *)
(* and only when its answer is there.                                      *)
(***************************************************************************)
EXTENDS Naturals, Sequences

CONSTANTS
    Requests,
    Results,  \* what a settled request is remembered by
    None      \* no writer, no result

VARIABLES
    writer,   \* the request that may write
    issued,   \* turn numbers handed out so far
    log,      \* questions and answers, oldest first
    result    \* of each request

threadLogVars == <<writer, issued, log, result>>

Init ==
    /\ writer = None
    /\ issued = 0
    /\ log = <<>>
    /\ result = [r \in Requests |-> None]

Holds(r, role) == \E i \in DOMAIN log : log[i].req = r /\ log[i].role = role
Spoken(n) == \E i \in DOMAIN log : log[i].seq = n
Write(r, role, n) == log' = Append(log, [req |-> r, role |-> role, seq |-> n])

\* A request becomes the writer, or the writer begins again; a first attempt is
\* handed a turn number for its question.
Open(r) ==
    /\ writer \in {None, r}
    /\ writer' = r
    /\ issued' \in {issued, issued + 1}
    /\ UNCHANGED <<log, result>>

Ask(r) ==
    /\ writer = r
    /\ ~Holds(r, "user") /\ ~Holds(r, "assistant")
    /\ \E n \in 1 .. issued : ~Spoken(n) /\ Write(r, "user", n)
    /\ UNCHANGED <<writer, issued, result>>

Reply(r) ==
    /\ writer = r
    /\ Holds(r, "user") /\ ~Holds(r, "assistant")
    /\ issued' = issued + 1
    /\ Write(r, "assistant", issued + 1)
    /\ UNCHANGED <<writer, result>>

Settle(r) ==
    /\ Holds(r, "assistant")
    /\ result[r] = None
    /\ \E v \in Results : result' = [result EXCEPT ![r] = v]
    /\ UNCHANGED <<writer, issued, log>>

Close ==
    /\ writer' = None
    /\ UNCHANGED <<issued, log, result>>

Next == Close \/ \E r \in Requests : Open(r) \/ Ask(r) \/ Reply(r) \/ Settle(r)

Spec == Init /\ [][Next]_threadLogVars

=============================================================================
