SPECIFICATION MCSpec
CONSTANTS
    a = a  b = b  x = x  y = y
    Service <- Two
    MaxLog = 2
    MaxElects = 2
    Caller = {a, b}
    ClientOf <- OwnClient
    Op <- OneEach
    Piece = {x, y}
    MaxRequests = 1
    MaxAttempts <- Attempts
    MaxRestarts = 1
INVARIANTS ExactlyOnce AnswersItsOwn
CHECK_DEADLOCK FALSE
