-------------------------- MODULE MCReadController --------------------------
(* One target: the controller treats keys independently of each other, and  *)
(* each has a worker.  "x2" is "x" with other metadata of the server.       *)
EXTENDS ReadController

CONSTANTS t1, o1

MCTargets == {t1}
MCOwners == {o1}
MCBodies == {"x", "x2", "y"}
MCCanonical == [b \in MCBodies |-> IF b = "x2" THEN "x" ELSE b]
MCStatuses == ReadStatuses

\* Versions are interchangeable at first, and other bodies come by changes.
MCInit ==
    /\ Init
    /\ object[t1] \in {Absent, "x"}
    /\ items[read(t1)] # NoRecord => items[read(t1)].spec = "v1"

MCSpec == MCInit /\ [][Next]_vars /\ Fairness
=============================================================================
