SPECIFICATION Spec
CONSTANTS
    Bubbles = {1, 2}
    Texts = {1}
    MAX_ATTEMPTS = 2
    MaxPosts = 2
    MaxMishaps = 2
    MaxWindows = 2
    MaxStops = 1
    MaxLidMoves = 1
    MaxSlips = 1
INVARIANTS OnePromptPerTap AnswersAreBacked SleepIsRestored
PROPERTIES ParkedIsServed 
CHECK_DEADLOCK FALSE
