SPECIFICATION AllSpec
CONSTANTS
    Plain = {p1}
    Effects = {e1, e2}
    MAX_UI_QUEUE = 2
    MaxTurns = 2
    None = None
    Other = Other
    MaxSpeech = 1
    MaxTyped = 1
    MaxNudges = 1
    MaxTools = 1
    MaxFailures = 1
    MaxRepeats = 1
    MaxRestarts = 1
    MaxSpent = 3
    MaxLag = 2
INVARIANTS LineIsFair OneResponseAtATime
PROPERTIES EffectKeepsLease WaiterIsAnswered ToolBeginsOnce TurnIsAnswered
CHECK_DEADLOCK FALSE
