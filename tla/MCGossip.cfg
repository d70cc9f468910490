SPECIFICATION MCSpec
CONSTANTS
    n1 = n1
    n2 = n2
    n3 = n3
    Node <- Nodes
    Loopers = {n1}
    NoId = NoId
    BroadcastCount <- Counts
    MaxBroadcasts = 2
    MaxForwards = 3
    MaxAnswers = 1
    MaxEnds = 1
INVARIANTS BroadcastReaches
PROPERTIES BroadcastEnds SilentForgotten
CHECK_DEADLOCK FALSE
