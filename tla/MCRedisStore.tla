---------------------------- MODULE MCRedisStore ----------------------------
(* Two clients and one target.  Each client speaks for one owner, and the    *)
(* one of o1 also reports status, as an applier in the same partition does.  *)
EXTENDS RedisStore, TLC

CONSTANTS t1, c1, c2, o1, o2

MCTargets == {t1}
MCClients == {c1, c2}
MCOwners == {o1, o2}
MCSpecs == {"a", "b"}
MCJson == [s \in MCSpecs |-> s]
MCStatuses == {[reason |-> r] : r \in {"Deleted", "Synced"}}

CreateApplyCall(o) == [op |-> "createApply", target |-> t1, owner |-> o, spec |-> "a"]
CreateDeleteCall(o) == [op |-> "createDelete", target |-> t1, owner |-> o]
CreateReadCall(o) == [op |-> "createRead", target |-> t1, owner |-> o, spec |-> "v1"]
DeleteCall(type, o, v) ==
    [op |-> "delete", type |-> type, target |-> t1, owner |-> o, version |-> v]
UpdateSpecCall(o) ==
    [op |-> "updateSpec", type |-> "apply", target |-> t1, spec |-> "b",
     owner |-> o, version |-> 1]
DeletedCall ==
    [op |-> "status", type |-> "delete", target |-> t1,
     status |-> [reason |-> "Deleted"], version |-> 1]
ReadStatusCall ==
    [op |-> "readStatus", type |-> "read", target |-> t1,
     status |-> [reason |-> "Synced"]]
PrefixCall(types) ==
    [op |-> "prefix", sel |-> [types |-> types, targets |-> {t1}]]

\* redis_calls: creates, updates and deletes against each other.
CrudCalls ==
    (c1 :> {CreateApplyCall(o1), CreateDeleteCall(o1), UpdateSpecCall(o1),
            DeletedCall, DeleteCall("apply", o1, 1)})
    @@
    (c2 :> {CreateApplyCall(o2), CreateDeleteCall(o2), CreateReadCall(o2),
            DeleteCall("delete", o2, 1), ReadStatusCall})

\* redis_prefix: DeleteByPrefix against everything that moves under it.
PrefixCalls ==
    (c1 :> {PrefixCall(DesireTypes)})
    @@
    (c2 :> {CreateApplyCall(o1), CreateDeleteCall(o1), CreateReadCall(o1),
            ReadStatusCall})
=============================================================================
