SPECIFICATION FairSpec
CONSTANTS
    Relays = {r1, r2}
    Nonces = {n1, n2, n3}
    Helpers = {h1}
    None = None
    MaxProbeFailures = 1
PROPERTIES DeadOwnerIsReclaimed
CHECK_DEADLOCK FALSE
