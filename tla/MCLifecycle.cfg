CONSTANTS
    serial = serial
    read = read
    Controllers <- MCControllers
SPECIFICATION Spec
CHECK_DEADLOCK FALSE
INVARIANTS
    LifecycleTypeOK
    StoreOutlivesControllers
    HandedOverAfterDrain
    GracefulOnlyIfSignaled
PROPERTY StopsAsAWhole
