-------------------------- MODULE ManufacturingTools --------------------------
(***************************************************************************)
(* Which read-only tools a plan calls (agent_runtime/tools.py).            *)
(***************************************************************************)
EXTENDS AgentContracts

AggregateShapes == {"aggregate_ranking", "event_list", "trend_analysis"}

\* Nothing is called with less than a product, a tool and a time.
QueryForCase(m, slots) ==
    LET asks(sign, tool) == IF sign \in m.signs THEN {tool} ELSE {}
    IN  IF {"product", "tool_id", "time_range"} \subseteq DOMAIN slots
        THEN asks("yield_words", "query_lot_yield") \cup asks("fdc_words", "get_fdc_alarms")
               \cup asks("change_words", "get_recipe_change_history")
        ELSE {}

QueryForPlan(m, slots, tasks) ==
    IF \A t \in Of(tasks) : t.task_shape \notin AggregateShapes THEN QueryForCase(m, slots)
    ELSE IF "time_range" \in DOMAIN slots THEN {"query_manufacturing_aggregate"}
    ELSE {}

=============================================================================
