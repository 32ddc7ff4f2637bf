\* Two workloads, two updates at once, a change, an edit and a sync.
CONSTANTS
    Workloads = {w1, w2}
    Listed = {w1, w2}
    Handlers = {h1, h2}
    Syncs = {s1}
    MaxChanges = 1
    MaxEdits = 1
    MaxCuts = 0
SPECIFICATION Spec
SYMMETRY SlotsAndWorkloads
CHECK_DEADLOCK FALSE
INVARIANTS
    TypeOK
    StaleIsVisible
    CatalogTracksSource
