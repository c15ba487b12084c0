SPECIFICATION StoreSpec
CONSTANTS
    t1 = t1
    o1 = o1
    o2 = o2
    Targets <- MCTargets
    Owners <- MCOwners
    Specs <- MCSpecs
    Json <- MCJson
    TargetVersions = {"v1", "v2"}
    Statuses <- MCStatuses
    NoStatus = NoStatus
    NoSpec = NoSpec
    NoRecord = NoRecord
    MaxVersion = 3
    MaxBirths = 4
INVARIANTS
    StoreTypeOK
    SingleOwner
    ApplyDeleteExclusive
    RejectedCreateIsPure
    GenerationWithinVersion
PROPERTY
    VersionGuardsContent
