CONSTANTS
    t1 = t1
    NoHash = NoHash
    Torrents <- OneTorrent
    Pieces <- OnePiece
    MaxTurns = 3
SPECIFICATION Spec
INVARIANTS  QuietAgrees ResumeKnown ExitFinishesWrites
CHECK_DEADLOCK FALSE
