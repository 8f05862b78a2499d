---------------------------- MODULE AccessFilter ----------------------------
(***************************************************************************)
(* The two places that decide who may read a chunk: the filter that a      *)
(* search sends to Milvus (build_access_filter, on rows made by            *)
(* chunk_to_milvus_row) and the check of the records read from MongoDB     *)
(* (is_accessible), both in production_repository.py.                      *)
(*                                                                         *)
(* An attribute that is missing or empty is Empty.  Times are counted in   *)
(* fractions of a second, of which rows and filters keep whole seconds.    *)
(***************************************************************************)
EXTENDS Integers

CONSTANTS
    Attributes,  \* fab, product, process_layer, tool_id, chamber, recipe_id, recipe_version
    Granted,     \* those an actor has to be granted: fab, product, tool_id
    Empty,
    Never,       \* no expiry
    Second       \* fractions in a second

ASSUME AccessAssumption ==
    /\ Granted \subseteq Attributes
    /\ Never \notin Int
    /\ Second \in Nat \ {0}

Seconds(t) == t \div Second

\* What a row keeps of a record; 0 stands for no expiry.
Row(record) ==
    [record EXCEPT !.effective = Seconds(@), !.expires = IF @ = Never THEN 0 ELSE Seconds(@)]

\* What the constraints of a request ask of an attribute, if anything.
Fits(attributes, constraints) ==
    \A f \in Attributes : constraints.of[f] # Empty => attributes[f] = constraints.of[f]

\* A request may ask for what was valid at another time.
PointInTime(constraints, now) == IF constraints.asOf = Never THEN now ELSE constraints.asOf

Admits(row, actor, constraints, now) ==
    LET epoch == Seconds(PointInTime(constraints, now))
    IN  /\ row.approved /\ row.published
        /\ row.effective <= epoch
        /\ row.expires = 0 \/ row.expires > epoch
        /\ actor.admin \/ /\ row.key \in actor.keys
                          /\ \A f \in Granted : row.of[f] = Empty \/ row.of[f] \in actor.granted[f]
        /\ Fits(row.of, constraints)

Accessible(record, actor, constraints, now) ==
    LET point == PointInTime(constraints, now)
    IN  /\ record.published /\ record.approved
        /\ record.effective <= point
        /\ record.expires = Never \/ record.expires > point
        /\ actor.admin \/ /\ record.key \in actor.keys
                          /\ \A f \in Granted : record.of[f] # Empty => record.of[f] \in actor.granted[f]
        /\ Fits(record.of, constraints)

=============================================================================
