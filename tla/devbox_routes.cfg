\* Two branches, two tasks at a time; four operations, connections and faults.
CONSTANTS
    Branches = {alpha, beta}
    NoBranch = NoBranch
    MaxTasks = 2
    MaxOps = 2
    MaxConns = 2
    MaxFaults = 1
    MaxLoad = 4
SPECIFICATION SpecSmall
CHECK_DEADLOCK FALSE
INVARIANTS
    TypeOK
    RoutesMatchIntercepts
    StreamsFollowTable
    NewestSidecarIsLive
SYMMETRY Symmetric
