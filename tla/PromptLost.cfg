SPECIFICATION PromptSpec
CONSTANTS
    Bubbles = {1, 2}
    Texts = {1}
    MAX_ATTEMPTS = 2
    MaxPosts = 3
    MaxMishaps = 2
INVARIANTS FailedSendIsKept
CHECK_DEADLOCK FALSE
