SPECIFICATION SituationsSpec
CONSTANTS
    s1 = s1  s2 = s2  s3 = s3
    a = a  b = b
    Server = {s1, s2, s3}
    Command = {a}
    Lane = {1, 2}
    OneLane = {1}
    Nil = Nil
    MaxElections = 2
    MaxLog = 2
    MaxRounds = 3
    MaxFails = 1
    MaxStops = 1
    MaxRestarts = 1
    Timely = TRUE
SYMMETRY Symmetry
INVARIANTS TypeOK ElectionSafety OneLeaderUnlessForgotten LogMatching NextIndexInRange MatchIndexSound LeaderCompleteness ChosenDurable
PROPERTIES TermGrows Implements
CHECK_DEADLOCK FALSE
