SPECIFICATION Spec
CONSTANTS
    N = 4
    incremental = 1
    Envs = {{"fail"}}
INVARIANTS
    AllRestorable
CHECK_DEADLOCK FALSE
