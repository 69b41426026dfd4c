SPECIFICATION Spec
CONSTANTS
    Relays = {r1, r2}
    Nonces = {n1, n2, n3, n4}
    Helpers = {h1, h2}
    None = None
    MaxProbeFailures = 1
SYMMETRY Symmetry
INVARIANT LiveOwnerKeepsItsRow
PROPERTY ImplementsWindow
CHECK_DEADLOCK FALSE
