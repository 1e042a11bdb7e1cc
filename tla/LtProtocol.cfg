SPECIFICATION FairSpec
CONSTANTS
    Base = 4
    LenSz = 2
    TypeSz = 1
    Message <- Commands
    MaxLen = 4
    MaxMsgs = 3
    MaxShort = 1
    MaxConns = 2
CHECK_DEADLOCK FALSE
INVARIANTS TypeOK Reassembles
PROPERTIES AreChannels EventuallyHandled
