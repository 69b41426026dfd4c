SPECIFICATION Spec
CONSTANTS
    Relays = {r1, r2}
    RetryKeys = {k1}
    Targets = {"new_workspace"}
    MaxJobs = 3
    MaxBlocks = 1
    MaxCrashes = 1
SYMMETRY Symmetry
CONSTRAINT OneMishap
INVARIANTS BarrierHolds LiveCapabilityIsCurrent ResultIsOfItsAttempt FinalBatonCarriesGrant
CHECK_DEADLOCK FALSE
