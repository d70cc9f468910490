SPECIFICATION Spec
CONSTANTS
    s1 = s1  s2 = s2  s3 = s3
    a = a  b = b
    Server = {s1, s2, s3}
    Command = {a, b}
    Lane = {1, 2}
    Nil = Nil
    MaxElections = 4
    MaxLog = 0
    MaxRounds = 0
    MaxFails = 0
    MaxStops = 0
    MaxRestarts = 0
    Timely = FALSE
SYMMETRY Symmetry
INVARIANTS ElectionSafety
CHECK_DEADLOCK FALSE
