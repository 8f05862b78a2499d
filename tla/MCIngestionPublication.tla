------------------------ MODULE MCIngestionPublication ------------------------
(* Two sources of a first revision, and a second revision superseding it. *)
EXTENDS IngestionPublication, Sequences, TLC

CONSTANTS a, b, c, R1, R2, k1, k2, k3

Sources == [j \in Jobs |-> IF j = c THEN R2 ELSE R1]
Replaces == [j \in Jobs |-> IF j = c THEN R1 ELSE None]
Publish == [j \in Jobs |-> "published"]
Shelve == [j \in Jobs |-> IF j = b THEN "staged" ELSE "published"]

Symmetry == Permutations(Clients)

\* A worker's local values where it still reads them.
Local(w) ==
    LET sweeping == pc[w] \in {"sweep_documents", "sweep_chunks", "publish_vectors",
                               "delete_previous", "delete_own"}
        undoing == sweeping /\ sweep[w] \in {"restore", "quarantine"} IN
    [job     |-> IF pc[w] = "idle" THEN None ELSE job[w],
     retries |-> IF pc[w] = "idle" THEN 0 ELSE retries[w],
     sweep   |-> IF sweeping THEN sweep[w] ELSE "quarantine",
     inner   |-> undoing /\ inner[w],
     found   |-> pc[w] \in {"sweep_chunks", "delete_previous", "delete_own"} /\ found[w],
     retired |-> sweeping /\ retired[w],
     reason  |-> IF undoing \/ pc[w] = "mark_failed" THEN reason[w] ELSE "permanent"]

View == <<jobVars, stores, queue, pc, spoilt, mishaps,
          [w \in Workers |-> Local(w)],
          [k \in Clients |-> IF pc[k] = "done" THEN None ELSE job[k]]>>

\* One of the two other jobs at most meets a, and the requests arrive in one
\* order, for one is like another.
Order == <<k1, k2, k3>>
Mixed ==
    /\ status[b] = "absent" \/ status[c] = "absent"
    /\ \A i \in 2 .. Len(Order) : pc[Order[i]] # "idle" => pc[Order[i - 1]] # "idle"
    /\ pc[k3] = "idle" \/ mishaps = 0
MixedSpec ==
    /\ Init /\ [][Next /\ Mixed']_vars
    /\ \A k \in Clients : WF_vars(ClientStep(k))
    /\ \A w \in Workers : WF_vars(WorkerStep(w))

===============================================================================
