\* A branch created while its base is being deleted.
CONSTANTS
    Envs = {e1, e2}
    Tasks = {t1, t2}
    NoEnv = NoEnv
    Deployable = {"shared"}
    MaxCrashes = 0
SPECIFICATION Spec
SYMMETRY Symmetry
CHECK_DEADLOCK FALSE
INVARIANT BaseOutlivesBranches
