SPECIFICATION AllSpec
CONSTANTS
    EffectRelays = {r1, r2}
    Kinds = {"send", "configure", "open"}
    None = None
    MaxAttempts = 1
    Relays = {q1}
    RetryKeys = {k1, k2}
    Targets = {"existing_session", "new_workspace"}
    MaxJobs = 2
    MaxBlocks = 2
    MaxCrashes = 1
INVARIANTS NewAttemptFollowsFailure RequestsLiftOneBlockEach
PROPERTIES OrphanIsSettled HelpersComeBack
CHECK_DEADLOCK FALSE
