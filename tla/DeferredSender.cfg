SPECIFICATION FairSpec
CONSTANTS
    pox = pox
    reactor = reactor
    c1 = c1
    c2 = c2
    Writers = {pox, reactor}
    Pox = pox
    Uses <- SharedAndOwn
    Conns = {c1, c2}
    NoConn = NoConn
    MsgSz = 3
    Slice = 2
    Cap = 1
    MaxMsgs = 3
CHECK_DEADLOCK FALSE
INVARIANTS TypeOK StreamIntact FlagCoversData
PROPERTIES Drains
