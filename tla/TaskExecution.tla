---------------------------- MODULE TaskExecution ----------------------------
(***************************************************************************)
(* From a plan to one result for each of its tasks                         *)
(* (agent_runtime/task_execution.py): a task is completed only with the    *)
(* evidence its route promises.  The text of an answer is never empty.      *)
(***************************************************************************)
EXTENDS RoutePolicy

Result(task, status, route, reason) ==
    [task_id |-> task, status |-> status, route |-> route, reason_code |-> reason]

\* The route a task was carried out by.
ActualTaskRoute(planned, actual) ==
    IF planned = "reuse_evidence" /\ actual = "internal_rag" THEN actual
    ELSE IF planned = "internal_rag" /\ actual = "rag_and_web" THEN actual
    ELSE IF planned # None THEN planned ELSE actual

\* Sources of the ledger's entries that the answer cites.
Cited(ledger, citations) == {e.source : e \in {e \in ledger : e.evidence_id \in citations}}

\* Mutant of RouteContract: any citation will do.
RouteContractOfAny(route, cited) == route = "chat_direct" \/ cited # {}

RouteContract(route, cited) ==
    CASE route \in {"reuse_evidence", "internal_rag"} -> "internal" \in cited
      [] route = "tool_only" -> "live" \in cited
      [] route = "rag_and_tool" -> {"internal", "live"} \subseteq cited
      [] route = "rag_and_web" -> cited \cap {"internal", "external"} # {}
      [] OTHER -> TRUE

ExecutedTask(task, route, cited) ==
    IF ~RouteContract(route, cited)
    THEN Result(task, "failed", route, "route_contract_not_satisfied")
    ELSE IF route = "rag_and_web" /\ "external" \notin cited
    THEN Result(task, "completed", route, "completed_with_external_degradation")
    ELSE Result(task, "completed", route, "route_contract_satisfied")

\* What becomes of one task after the results of those before it.
Finalized(d, needs, earlier, actual, cited, errors) ==
    IF d.decision = "execute" /\ \E r \in earlier : r.task_id \in needs /\ r.status # "completed"
    THEN Result(d.task_id, "deferred", d.route, "dependency_not_completed")
    ELSE IF d.decision = "execute" /\ errors # <<>> THEN Result(d.task_id, "refused", None, errors[1])
    ELSE IF d.decision = "clarify" THEN Result(d.task_id, "clarify", "clarify", d.reason_code)
    ELSE IF d.decision = "refuse" THEN Result(d.task_id, "refused", "refuse", d.reason_code)
    ELSE IF d.decision = "defer" THEN Result(d.task_id, "deferred", d.route, d.reason_code)
    ELSE ExecutedTask(d.task_id, ActualTaskRoute(d.route, actual), cited)

Needs(tasks, id) == UNION {t.depends_on : t \in {t \in Of(tasks) : t.task_id = id}}

\* One task after the other: what it depends on comes before it.
Finalize(plan, tasks, actual, ledger, citations, errors) ==
    LET decisions == plan.task_decisions
        kept(d, earlier) ==
            Finalized(d, Needs(tasks, d.task_id), Of(earlier), actual, Cited(ledger, citations), errors)
        results[n \in 0 .. Len(decisions)] ==
            IF n = 0 THEN <<>> ELSE Append(results[n - 1], kept(decisions[n], results[n - 1]))
    IN  results[Len(decisions)]

=============================================================================
