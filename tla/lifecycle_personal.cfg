\* One personal environment, two requests in flight, two restarts.
CONSTANTS
    Envs = {e1}
    Tasks = {t1, t2}
    NoEnv = NoEnv
    Deployable = {"personal"}
    MaxCrashes = 2
SPECIFICATION FairSpec
CHECK_DEADLOCK FALSE
INVARIANTS
    TransientHasOwner
    RunningIsUp
PROPERTIES
    DeletingIsFinal
    TransientIsLeft
