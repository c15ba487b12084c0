--------------------------- MODULE MCDesireStore ---------------------------
(* Two targets' worth of siblings is more than the store ever relates: one  *)
(* target exercises every cross-type rule, two owners compete for it.       *)
EXTENDS DesireStore

CONSTANTS t1, o1, o2

MCTargets == {t1}
MCOwners == {o1, o2}

\* "a" and "a2" are two texts of one JSON value.
MCSpecs == {"a", "a2", "b"}
MCJson == [s \in MCSpecs |-> IF s = "a2" THEN "a" ELSE s]

MCStatuses ==
    {[reason |-> r] : r \in {"Applied", "Deleted", "WaitingForDeletion", "Synced"}}
=============================================================================
