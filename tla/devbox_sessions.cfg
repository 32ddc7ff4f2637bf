\* Two devices, two environments; five connections, switches and faults.
CONSTANTS
    Devices = {laptop, desktop}
    Envs = {dev, review}
    NoDevice = NoDevice
    NoEnv = NoEnv
    MaxConns = 3
    MaxSwitches = 2
    MaxFaults = 1
    MaxLoad = 5
SPECIFICATION Spec
CHECK_DEADLOCK FALSE
INVARIANTS
    TypeOK
    RoutesFollowSession
    OneSession
SYMMETRY Symmetric
