SPECIFICATION Spec
CONSTANTS
    Experiments = {"mnist"}
    Blank = "blank"
    Configs = {"cfg"}
    ParamKeys = {"lr"}
    ParamValues <- MCParamValues
    Canon <- MCCanon
    ProvFields = {"host"}
    ProvValues = {"cpu", "cuda"}
    MetricKeys = {"loss", "acc"}
    MetricValues = {1, 2}
    Clients = {"rlctl"}
    None = None
    Empty = ""
    NoRun = NoRun
    Goroutines = {g1, g2}
    MaxConns = 1
    Times = {2}
    Patches <- MCPatches
    RunIDs = {r1}
    Posts <- MCPosts
INVARIANTS TypeOK AckedDurable ReadSound FinishedReadExact
PROPERTIES ImplementsLedger CallsReturn
