SPECIFICATION Spec
CONSTANTS
    Records = {a, b, bad}
    Accepted = {a, b}
    MaxFaults = 2
CHECK_DEADLOCK FALSE
INVARIANT NoDoubleRecord
