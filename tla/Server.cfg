SPECIFICATION Spec
CONSTANTS
    Experiments = {"mnist"}
    Blank = "blank"
    Configs = {"cfg"}
    ParamKeys = {"lr"}
    ParamValues = {""}
    Canon <- MCCanon
    ProvFields = {"host"}
    ProvValues = {"", "node1"}
    MetricKeys = {"loss"}
    MetricValues = {1}
    Clients = {"rlctl"}
    None = None
    Empty = ""
    NoRun = NoRun
    Patches = {}
    c1 = c1
    c2 = c2
    c3 = c3
    Callers <- MCCallers
    Sends <- MCSends
    Token <- MCToken
    Given <- MCGiven
    given = given
    Old = old
    Limit = 2
    RunIDs <- MCRunIDs
    Clock <- MCClock
    MaxFaults = 1
CONSTRAINT Concerned
CHECK_DEADLOCK FALSE
INVARIANTS ExitTruthful ScrapeCurrent DrainedExit
PROPERTY Settles
