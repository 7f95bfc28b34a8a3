SPECIFICATION Spec
CONSTANTS
    Records = {a, b, bad}
    Accepted = {a, b}
    MaxFaults = 3
CHECK_DEADLOCK FALSE
INVARIANTS TypeOK SpooledNotLost NoLineTwice
PROPERTY SpoolDrains
