\* A shared environment and one branch of it, two requests in flight.
CONSTANTS
    Envs = {e1, e2}
    Tasks = {t1, t2}
    NoEnv = NoEnv
    Deployable = {"shared"}
    MaxCrashes = 0
SPECIFICATION Spec
SYMMETRY Symmetry
CONSTRAINT SomeUncontended
CHECK_DEADLOCK FALSE
INVARIANTS
    TypeOK
    DeletedIsNotProxied
    BaseOutlivesUncontended
    DeletedIsGone
    Undisturbed
