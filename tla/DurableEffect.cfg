SPECIFICATION HoldSpec
CONSTANTS
    Relays = {r1, r2}
    Kinds = {"send", "configure", "open"}
    None = None
    MaxAttempts = 2
SYMMETRY Symmetry
INVARIANTS NoUnconfirmedRepeat ActedIsRemembered AmbiguousBlockIsHeld
PROPERTIES StoppedRunReleasesNothing
CHECK_DEADLOCK FALSE
