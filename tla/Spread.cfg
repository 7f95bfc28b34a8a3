SPECIFICATION Spec
CONSTANTS
    RunIDs = {r1, r2, r3, r4}
    Projects = {1, 2}
    Seeds = {1}
    Devices = {cpu, cuda}
    MetricKeys = {"acc"}
    MetricValues <- SixAndMinusSix
    MinRuns = {1}
    MaxLimit = 1
    NoRun = NoRun
    None = None
    Mean <- MCMean
    StdDev <- MCStdDev
    CV <- MCCV
CONSTRAINT FirstOrAll
SYMMETRY Symmetry
CHECK_DEADLOCK FALSE
INVARIANTS TypeOK StableTraversal UnmeasuredLast
PROPERTY InFlightInvisible
