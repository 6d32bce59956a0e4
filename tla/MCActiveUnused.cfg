SPECIFICATION Spec
CONSTANTS
    Apps = {a, b}
    UnusedAfter = 2
    MaxTracked = 2
    None = none
    Horizon = 4
CHECK_DEADLOCK FALSE
INVARIANT UnusedIsUntouched
