SPECIFICATION Spec
CONSTANTS
    r1 = r1
    r2 = r2
    Replicas <- MCReplicas
    NoHolder = NoHolder
    LeaseDuration = 3
    RenewDeadline = 2
    RetryPeriod = 2
    HandOverDuration = 1
    WriteTimeout = 1
    Transit = 1
    MaxTime = 4
    MaxLeaseVersion = 3
SYMMETRY MCSymmetry
CHECK_DEADLOCK FALSE
INVARIANTS
    OnlyHolderWrites
