SPECIFICATION MCSpec
CONSTANTS
    t1 = t1
    o1 = o1
    Targets <- MCTargets
    Owners <- MCOwners
    Specs = {}
    Json = {}
    TargetVersions = {"v1", "v2"}
    Statuses <- MCStatuses
    NoStatus = NoStatus
    NoSpec = NoSpec
    NoRecord = NoRecord
    Bodies <- MCBodies
    Canonical <- MCCanonical
    Absent = Absent
    NoInformer = NoInformer
    NoTarget = NoTarget
    Unloaded = Unloaded
    MaxVersion = 1
    MaxBirths = 2
    MaxChanges = 2
    MaxFailures = 0
PROPERTY
    EveryDesireReported
