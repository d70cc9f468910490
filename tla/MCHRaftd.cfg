SPECIFICATION MCSpec
CONSTANTS
    n1 = n1  n2 = n2  n3 = n3
    a = a  b = b  d = d
    k1 = k1  k2 = k2
    p1 = p1  p2 = p2  p3 = p3
    Service <- Nodes
    Addr = {p1, p2, p3}
    Key = {k1, k2}
    Caller = {a, b, d}
    Request <- Requests
    Founders <- Founding
    MaxLog = 3
    MaxElects = 1
    MaxSnapshots = 1
    MaxRestarts = 1
INVARIANTS StoreIsOfLog AnsweredIsDone
CHECK_DEADLOCK FALSE
