SPECIFICATION LedSpec
CONSTANTS
    s1 = s1  s2 = s2  s3 = s3  a = a
    Server = {s1, s2, s3}
    Command = {a}
    Batch <- Batches
    Blank = Blank
    MaxEntries = 1
    Nil = Nil
    Lane = {1}
    MaxStarts = 2
    MaxLog = 3
    MaxCrashes = 1
SYMMETRY Symmetry
INVARIANTS Durable VotesOnce
PROPERTY TermGrows
CHECK_DEADLOCK FALSE
