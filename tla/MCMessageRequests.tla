------------------------ MODULE MCMessageRequests ------------------------
(* Two requests of one thread, and enough calls to retry one of them. *)
EXTENDS MessageRequests, TLC

Symmetry == Permutations(Handlers) \cup Permutations(Requests)

\* A handler's local values where it still reads them.  States that differ in
\* the others behave alike, so TLC keeps one of them.
Local(w) ==
    [req   |-> IF pc[w] = "done" /\ late[w] = NoCall THEN None ELSE req[w],
     seq   |-> IF pc[w] \in {"insert", "append"} THEN seq[w] ELSE 0,
     seen  |-> pc[w] \in {"claim_retry", "update"} /\ seen[w] \in Active,
     want  |-> IF pc[w] \in {"terminal", "confirm"} THEN want[w] ELSE "failed",
     after |-> IF pc[w] \in {"terminal", "confirm", "release"}
                 THEN after[w] ELSE "done"]

LateLocal(w) ==
    IF late[w].call \in {"start", "finalize", "release"}
      THEN [late[w] EXCEPT !.want = "failed"] ELSE late[w]

Kept(r) ==
    IF ledger[r].status \in Active THEN ledger[r] ELSE [ledger[r] EXCEPT !.updated = 0]

View == <<now, lease, nextSeq, messages, [r \in Requests |-> Kept(r)], pc,
          [w \in Handlers |-> Local(w)], [w \in Handlers |-> LateLocal(w)], mishaps>>

\* Mishaps while one of the handlers is idle, none once all three are at work.
Mixed == mishaps = 0 \/ \E w \in Handlers : pc[w] = "idle"

==========================================================================
