SPECIFICATION FairSpec
CONSTANTS
    v1 = v1
    v2 = v2
    v3 = v3
    s = s
    l12 = l12
    l13 = l13
    l23 = l23
    e1 = e1
    e12 = e12
    e21 = e21
    e13 = e13
    e31 = e31
    e23 = e23
    e32 = e32
    NoIface = NoIface
    Routers = {v1, v2, v3}
    Ifaces = {e1, e12, e21, e13, e31, e23, e32}
    Nets = {s, l12, l13, l23}
    Subnets = {s}
    Owner <- TriOwner
    Net <- TriNet
    Peer <- TriPeer
    Dist <- TriDist
    INFINITY = 3
    ExpireAge = 1
    FlapNets = {s}
    MaxFlaps = 1
    ChanCap = 1
INVARIANTS TypeOK NoUnderestimate
PROPERTIES ConvergesToShortest
