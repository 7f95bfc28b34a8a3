SPECIFICATION Spec
CONSTANTS
    MainRuns = {m1, m2}
    WorkerRuns = {w1}
    Programs <- MCPrograms
CHECK_DEADLOCK FALSE
CONSTRAINTS FirstStartsFirst TwoUnderUser
INVARIANTS  OutcomesAgree ChainIntact KillWins
PROPERTY SigtermTakesEffect
