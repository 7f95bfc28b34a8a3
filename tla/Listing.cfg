SPECIFICATION ListingSpec
CONSTANTS
    IDs = {1, 2, 3}
    Times = {1, 2, 3}
    MaxNano = 2
    Labels = {moved, running, ended}
    Final = {ended}
    Filters = {{moved, running, ended}, {running}}
    MaxListLimit = 2
    NoRow = NoRow
    Nil = Nil
CHECK_DEADLOCK FALSE
INVARIANTS ListingTypeOK NeverRepeats NeverSkips BackendsAgree
