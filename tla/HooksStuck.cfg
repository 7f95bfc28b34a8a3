SPECIFICATION Spec
CONSTANTS
    MainRuns = {m1}
    WorkerRuns = {}
    Programs <- MCBare
CHECK_DEADLOCK FALSE
PROPERTY AlwaysDies
