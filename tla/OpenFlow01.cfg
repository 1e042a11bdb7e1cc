SPECIFICATION FairSpec
CONSTANTS
    d1 = d1
    NoDpid = NoDpid
    Switches = {d1}
    PortNos = {1}
    MaxConns = 2
    MaxChanges = 2
CHECK_DEADLOCK FALSE
INVARIANTS TypeOK PortsFollow EventsInOrder NexusAccurate
PROPERTIES ComesUp GoesDown
