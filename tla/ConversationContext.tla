------------------------- MODULE ConversationContext -------------------------
(***************************************************************************)
(* What a thread carries from one message to the next                      *)
(* (agent_runtime/context.py): its messages, the slots known, each from    *)
(* the message that named it, and the evidence that may be asked about     *)
(* again.  The summary of what is older than the recent messages is left   *)
(* out: nothing is decided by it.                                          *)
(***************************************************************************)
EXTENDS Understanding

CONSTANT RecentTurns  \* agent_context_recent_turns

ASSUME TurnsAssumption == RecentTurns \in Nat \ {0}

SlotDependencies(name) ==
    CASE name = "chamber" -> {"tool_id"}
      [] name = "recipe_id" -> {"tool_id", "chamber"}
      [] name = "recipe_version" -> {"recipe_id", "tool_id", "chamber"}
      [] OTHER -> {}

\* Messages are entries [id, role, message]; an entry of the assistant has no message.
NewContext == [slots |-> [n \in {} |-> None], evidence_refs |-> {}, trace_id |-> None]

\* The last messages before the current one, as the graph is given them.
Assemble(thread, current) ==
    LET others == {i \in 1 .. Len(thread.messages) : thread.messages[i].id # current}
        history == Picked(thread.messages, others)
        first == IF Len(history) > 2 * RecentTurns THEN Len(history) - 2 * RecentTurns + 1 ELSE 1
    IN  [slots |-> thread.active_context.slots,
         evidence_refs |-> thread.active_context.evidence_refs,
         trace_id |-> thread.active_context.trace_id,
         recent |-> SubSeq(history, first, Len(history)),
         current |-> current]

-----------------------------------------------------------------------------
(* The context after an answer *)

\* Mutant of InvalidateDependents: what was found under the old value is still shown.
InvalidateDependentsOnly(active, changed) ==
    [active EXCEPT !.slots =
       [n \in DOMAIN @ |-> IF SlotDependencies(n) \cap changed # {} THEN [@[n] EXCEPT !.valid = FALSE] ELSE @[n]]]

\* What depends on a changed slot goes, and all evidence with it.
InvalidateDependents(active, changed) ==
    [active EXCEPT
       !.slots = [n \in DOMAIN @ |->
                    IF SlotDependencies(n) \cap changed # {} THEN [@[n] EXCEPT !.valid = FALSE] ELSE @[n]],
       !.evidence_refs = {[ref EXCEPT !.valid = FALSE] : ref \in @}]

\* The last user message that names the value.
FindSourceMessage(messages, name, value, fallback) ==
    LET naming == {i \in 1 .. Len(messages) :
                     messages[i].role = "user" /\ <<name, value>> \in Said[messages[i].message].named}
        named == Picked(messages, naming)
    IN  IF named = <<>> THEN fallback ELSE named[Len(named)].id

\* "asked" are the slots the request was carried out with; a refused one leaves none.
UpdateActiveContext(thread, result, source) ==
    LET refused == result.route = "refuse"
        asked == IF refused THEN NoSlots ELSE result.slots
        operations == IF refused THEN {} ELSE result.slot_operations
        active == thread.active_context
        known(n) == n \in DOMAIN active.slots /\ active.slots[n].valid
        of(kinds) == {o.slot_name : o \in {o \in operations : o.operation \in kinds}}
        changed == of({"correct", "clear"})
                     \cup {n \in DOMAIN asked : known(n) /\ active.slots[n].value # asked[n]}
        left == IF changed = {} THEN active ELSE InvalidateDependents(active, changed)
        cleared == [n \in DOMAIN left.slots |->
                      IF n \in of({"clear"}) THEN [left.slots[n] EXCEPT !.valid = FALSE] ELSE left.slots[n]]
        stays(n) == n \in of({"inherit"}) /\ n \in DOMAIN cleared /\ cleared[n].valid
        sourceOf(n) == IF n \in of({"inherit"}) /\ n \in DOMAIN active.slots THEN active.slots[n].source
                       ELSE FindSourceMessage(thread.messages, n, asked[n], source)
        set == [n \in {n \in DOMAIN asked : ~stays(n)} |->
                  [value |-> asked[n], source |-> sourceOf(n), valid |-> TRUE]]
    IN  [slots |-> Overlay(cleared, set),
         evidence_refs |-> IF result.ledger # {}
                           THEN {[id |-> e.evidence_id, source |-> source, valid |-> TRUE] : e \in result.ledger}
                           ELSE left.evidence_refs,
         trace_id |-> IF result.trace_id # None THEN result.trace_id ELSE left.trace_id]

=============================================================================
