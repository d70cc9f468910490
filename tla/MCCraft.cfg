SPECIFICATION MCSpec
CONSTANTS
    p = p  a = a  b = b  self = self  nobody = nobody
    Peer = {p}
    Slot = {1}
    Caller = {a}
    Self = self
    Nobody = nobody
    ReadyCap = 1
    TriggerCap = 1
    MaxTerm = 2
    MaxElections = 2
    MaxLog = 3
    MaxRequests = 3
    MaxBatch = 1
    MaxStops = 1
    MaxRestarts = 0
INVARIANTS TypeOK TimerRuns DeliveredDurable WedgeNeedsBacklog
PROPERTIES Delivers SubmitReturns StopReturns
CHECK_DEADLOCK FALSE
