SPECIFICATION Spec
CONSTANTS
    Requests = {r1, r2, r3}
    NBackends = 2
    FailureThreshold = 2
    HalfOpenMax = 1
    Statuses = {"2xx", "5xx"}
    MayLose = TRUE
    NoOne = NoOne
SYMMETRY RequestSymmetry
 
PROPERTY OpenForResetTimeout
CHECK_DEADLOCK FALSE
