CONSTANTS
    Drivers <- AllDrivers
SPECIFICATION DSpec
INVARIANTS
    AbsentHoldsNothing
    LoadedIsComplete
    ReleasesOnlyHeld
    NothingDangles
    NothingRunsOnceGone
PROPERTIES
    LoadAndUnloadEnd
CHECK_DEADLOCK FALSE
