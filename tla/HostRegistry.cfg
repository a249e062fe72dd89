SPECIFICATION StoreSpec
CONSTANTS
    HostIds = {a, b, c}
    MaxInFlight = 2
    Faults = {"write", "sync", "rename"}
    Crashes = {"restart", "power"}
SYMMETRY HostSymmetry
INVARIANTS AcknowledgedSurvive NeverHalfWritten
CHECK_DEADLOCK FALSE
