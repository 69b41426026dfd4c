SPECIFICATION Spec
CONSTANTS
    Workspaces = {1}
    MAX_ATTEMPTS = 2
    MAX_EARLY_ATTEMPTS = 1
    MaxLocks = 1
    MaxRestarts = 1
    MaxLate = 1
    Relays = {"r1", "r2"}
    MaxAttempts = 1
    MaxEarly = 1
    MaxJobs = 2
    MaxFaults = 1
INVARIANTS FirstPromptIsSentOnce AutoPromptIsSentOnce
PROPERTIES FirstPromptSettles AutoPromptSettles
CHECK_DEADLOCK FALSE
