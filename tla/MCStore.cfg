SPECIFICATION Spec
CONSTANTS
    Experiments = {"mnist", "cifar"}
    Blank = "blank"
    Configs = {"cfg"}
    ParamKeys = {"lr", "wd"}
    ParamValues <- MCParamValues
    Canon <- MCCanon
    ProvFields = {"host", "device"}
    ProvValues = {"cpu", "cuda"}
    MetricKeys = {"loss", "acc"}
    MetricValues = {1, 2}
    Clients = {"rlctl"}
    None = None
    Empty = ""
    NoRun = NoRun
    Handlers = {h1, h2}
    Bodies <- MCBodies
    Patches <- MCPatches
    RunIDs = {r1}
    MaxClock = 3
INVARIANTS TypeOK LineageSound AckedKept FinishRetriable
PROPERTIES LifecycleForward HistoryKept ImplementsLedger
