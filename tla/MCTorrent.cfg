SPECIFICATION FairSpec
CONSTANTS
    h = h  f = f
    Worker = {h, f}
    Honest = {h}
    NumPieces = 2
    PieceLength = 3
    Length = 5
    MaxBlockSize = 2
    MaxBacklog = 1
    MaxFaults = 2
INVARIANTS TypeOK PiecesConserved PutBackSafe FileCorrect PipelineBounded
PROPERTIES DownloadEnds
