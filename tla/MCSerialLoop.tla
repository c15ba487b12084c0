---------------------------- MODULE MCSerialLoop ----------------------------
(* One target: the reconcilers treat the desires of a pass independently of  *)
(* each other.  "a2" is another text of "a", "bad" does not pass the checks. *)
EXTENDS SerialLoop

CONSTANTS t1, o1

MCTargets == {t1}
MCOwners == {o1}
MCSpecs == {"a", "a2", "b", "bad"}
MCJson == [s \in MCSpecs |-> IF s = "a2" THEN "a" ELSE s]
MCStatuses ==
    [reason : Reasons.apply \cup Reasons.delete, observed : 0 .. MaxVersion,
     of : MCSpecs \cup {NoSpec}, life : 0 .. MaxBirths]
=============================================================================
