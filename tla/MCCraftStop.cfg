SPECIFICATION Spec
CONSTANTS
    p = p  a = a  b = b  self = self  nobody = nobody
    Peer = {p}
    Slot = {1}
    Caller = {a}
    Self = self
    Nobody = nobody
    ReadyCap = 1
    TriggerCap = 1
    MaxTerm = 1
    MaxElections = 1
    MaxLog = 1
    MaxRequests = 0
    MaxBatch = 1
    MaxStops = 1
    MaxRestarts = 0
INVARIANTS CleanShutdown
CHECK_DEADLOCK FALSE
