SPECIFICATION Spec
CONSTANTS
    v1 = v1
    v2 = v2
    e1 = e1
    NoVhost = NoVhost
    NoIntf = NoIntf
    Vhosts = {v1, v2}
    Intfs = {e1}
    Port <- PortNumbers
    Templates = {FALSE, TRUE}
    MaxConns = 2
    MaxUps = 1
    MaxEvents = 2
    QueueCap = 1
CHECK_DEADLOCK FALSE
INVARIANT AssertIface
