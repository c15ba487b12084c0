SPECIFICATION Spec
CONSTANTS
    t1 = t1
    o1 = o1
    Targets <- MCTargets
    Owners <- MCOwners
    Specs <- MCSpecs
    Json <- MCJson
    TargetVersions = {}
    Statuses <- MCStatuses
    BadSpecs = {"bad"}
    NoStatus = NoStatus
    NoSpec = NoSpec
    NoRecord = NoRecord
    Absent = Absent
    NoTarget = NoTarget
    MaxVersion = 12
    MaxBirths = 3
    MaxChanges = 3
    MaxFailures = 2
    LateLanding = TRUE
PROPERTY
    AppliesConverge
