\* One namespace of each sort; two requests on one connection, or one request
\* and two connections.
CONSTANTS
    CatalogNamespaces = {prod}
    EnvNamespaces = {dev}
    MaxRequests = 2
    MaxConns = 2
    MaxLoad = 3
    MaxEdits = 2
    MaxCuts = 1
SPECIFICATION Spec
CHECK_DEADLOCK FALSE
INVARIANTS
    TypeOK
    WatchersMatch
    WatchedIsWanted
