SPECIFICATION Spec
CONSTANTS
    Experiments = {"mnist"}
    Blank = "blank"
    Configs = {"cfg"}
    ParamKeys = {"lr"}
    ParamValues <- MCParamValues
    Canon <- MCCanon
    ProvFields = {"host"}
    ProvValues = {Empty, "cuda"}
    MetricKeys = {"loss"}
    MetricValues = {1, 2}
    Clients = {"rlctl"}
    None = None
    Empty = Empty
    Opaque <- MCOpaque
    Precision = 3
    MinExp <- MCMinExp
    MaxExp = 8
    NoExp = NoExp
    NoRun = NoRun
    Times = {2}
    Patches <- MCPatches
    RunIDs = {r1, r2}
    Recordable <- MCRecordable
    LegacyRuns <- MCLegacyRuns
INVARIANTS VerdictLasts DifferenceNamed VerdictByValue
