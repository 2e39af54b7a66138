SPECIFICATION Spec
CONSTANTS
    User = User
    Sim = Sim
    NULL = NULL
INVARIANTS
    SleepsOnlyWhilePaused
CHECK_DEADLOCK FALSE
