---------------------------- MODULE ActiveWriter ----------------------------
(***************************************************************************)
(* What leader election promises the controllers: at any time at most one  *)
(* replica is the active writer of a management cluster, and every write   *)
(* that the API server accepts is a write of the replica that is active at *)
(* that moment.  Leadership is shown to implement this specification for   *)
(* the writes it calls prompt, and does not implement it for the others.   *)
(***************************************************************************)
EXTENDS Naturals

CONSTANTS Replicas, NoHolder

VARIABLES
    holder,   \* the active writer, or NoHolder
    term,     \* the number of times a replica became active
    open      \* replicas whose accepted write has not returned to them yet

writerVars == <<holder, term, open>>

WriterInit ==
    /\ holder = NoHolder
    /\ term = 0
    /\ open = {}

Grant(r) ==
    /\ holder # r
    /\ holder' = r
    /\ term' = term + 1
    /\ UNCHANGED open

Withdraw ==
    /\ holder' = NoHolder
    /\ UNCHANGED <<term, open>>

Write(r) ==
    /\ holder = r
    /\ open' = open \cup {r}
    /\ UNCHANGED <<holder, term>>

Return(r) ==
    /\ open' = open \ {r}
    /\ UNCHANGED <<holder, term>>

WriterNext ==
    \/ \E r \in Replicas : Grant(r) \/ Write(r) \/ Return(r)
    \/ Withdraw

WriterSpec == WriterInit /\ [][WriterNext]_writerVars
=============================================================================
