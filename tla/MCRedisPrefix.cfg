SPECIFICATION RedisSpec
CONSTANTS
    t1 = t1
    c1 = c1
    c2 = c2
    o1 = o1
    o2 = o2
    Targets <- MCTargets
    Owners <- MCOwners
    Specs <- MCSpecs
    Json <- MCJson
    TargetVersions = {"v1"}
    Statuses <- MCStatuses
    NoStatus = NoStatus
    NoSpec = NoSpec
    NoRecord = NoRecord
    NoCall = NoCall
    Clients <- MCClients
    MaxVersion = 2
    MaxBirths = 3
    MaxCASRetries = 2
    Calls <- PrefixCalls
INVARIANTS
    PrefixComplete
PROPERTIES
    StoreSpec
    EveryCallReturns
