SPECIFICATION Spec
CONSTANTS
    Jobs = {1}
    maxAttempts = 2
    MaxTurns = 2
    MaxLate = 1
    MaxDeaths = 1
    MaxLost = 1
    Chats = {"c1"}
    MaxAsks = 2
    MaxMoves = 6
    Relays = {"r1", "r2"}
    Ports = {1, 2}
    MaxBridges = 3
    MaxTaps = 2
    MaxFaults = 2
    MaxVersion = 3
    MaxSwaps = 2
    MaxFailures = 1
INVARIANTS ActsAreAccounted LapsAreQuiet UntrackedIsInert
PROPERTIES AnswerWasReadTwice DelegationEnds LastingEndIsTold UpdateSettles
CHECK_DEADLOCK FALSE
