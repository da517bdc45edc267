CONSTANTS
    Bits = 5
    Word = 2
    Short = 2
    ReservedLen = 1
    IdLen = 1
    IpLen = 1
    HashLength = 2
    StandardPacketSize = 2
    Inputs <- AllInputs
SPECIFICATION Spec
INVARIANTS MessagesSurvive OnlyCanonical BitsSurvive TilesFiles HashKept AnnounceFaithful
CHECK_DEADLOCK FALSE
