SPECIFICATION FairSpec
CONSTANTS
    Requests = {r1, r2}
    NBackends = 1
    FailureThreshold = 1
    HalfOpenMax = 1
    Statuses = {"2xx", "5xx"}
    MayLose = FALSE
    NoOne = NoOne
PROPERTY HandlerReturns
CHECK_DEADLOCK FALSE
