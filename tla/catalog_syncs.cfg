\* One workload, added, changed and edited, two syncs and one cut.
CONSTANTS
    Workloads = {w1}
    Listed = {}
    Handlers = {h1}
    Syncs = {s1, s2}
    MaxChanges = 1
    MaxEdits = 1
    MaxCuts = 1
SPECIFICATION Spec
SYMMETRY Slots
CHECK_DEADLOCK FALSE
INVARIANTS
    Visible
    CatalogTracksSource
    FailedDeployIsRetried
    SyncingHasOwner
