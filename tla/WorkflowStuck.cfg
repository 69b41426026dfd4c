SPECIFICATION Spec
CONSTANTS
    Relays = {r1, r2}
    RetryKeys = {k1, k2}
    Targets = {"existing_session"}
    MaxJobs = 2
    MaxBlocks = 2
    MaxCrashes = 0
SYMMETRY Symmetry
INVARIANT DeliveredBatonsOpenPhase
CHECK_DEADLOCK FALSE
