SPECIFICATION FairDivergedSpec
CONSTANTS
    s1 = s1  s2 = s2  s3 = s3
    a = a  b = b
    Server = {s1, s2, s3}
    Command = {a}
    Lane = {1}
    Nil = Nil
    MaxElections = 0
    MaxLog = 0
    MaxRounds <- Unbounded
    MaxFails = 1
    MaxStops = 1
    MaxRestarts = 0
    Timely = TRUE
PROPERTY Replicates
CHECK_DEADLOCK FALSE
