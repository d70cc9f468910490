SPECIFICATION MCSpec
CONSTANTS
    a = a  b = b  d = d
    Service <- Two
    MaxLog = 2
    MaxElects = 2
    Caller = {a, b, d}
    Op <- Ops
    Value = {"x", "y"}
    MaxRequests = 1
    MaxAttempts <- Attempts
    MaxCrashes = 1
    MaxMutes = 1
INVARIANTS AttemptLinearizable FailedIsNotRun
CHECK_DEADLOCK FALSE
