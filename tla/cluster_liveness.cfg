\* One namespace of each sort; one request and two connections.
CONSTANTS
    CatalogNamespaces = {prod}
    EnvNamespaces = {dev}
    MaxRequests = 1
    MaxConns = 2
    MaxLoad = 3
    MaxEdits = 1
    MaxCuts = 1
SPECIFICATION Spec
CHECK_DEADLOCK FALSE
PROPERTIES
    LiveConnectionIsPicked
    RegistrySpec
