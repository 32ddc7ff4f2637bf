\* Two workloads, one of them changed.
CONSTANTS
    Workloads = {w1, w2}
    Listed = {w1, w2}
    Handlers = {h1}
    Syncs = {s1}
    MaxChanges = 1
    MaxEdits = 0
    MaxCuts = 0
SPECIFICATION Spec
CHECK_DEADLOCK FALSE
INVARIANT ServicesInUseKept
