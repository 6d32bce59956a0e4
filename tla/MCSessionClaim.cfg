SPECIFICATION Spec
CONSTANTS
    Procs = {a, b, c}
    NoOne = none
    Here = a
CHECK_DEADLOCK FALSE
INVARIANT LiveSocketStays
