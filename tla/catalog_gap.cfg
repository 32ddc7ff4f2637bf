\* A sync between the bump and the store of a version.
CONSTANTS
    Workloads = {w1}
    Listed = {w1}
    Handlers = {h1}
    Syncs = {s1}
    MaxChanges = 1
    MaxEdits = 0
    MaxCuts = 0
SPECIFICATION Spec
CHECK_DEADLOCK FALSE
INVARIANT UpToDateIsCurrent
