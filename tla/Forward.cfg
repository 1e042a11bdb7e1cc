SPECIFICATION Spec
CONSTANTS
    v1 = v1
    v2 = v2
    v3 = v3
    c = c
    w = w
    s1 = s1
    s2 = s2
    l12 = l12
    l13 = l13
    l23 = l23
    e1 = e1
    e2 = e2
    e12 = e12
    e21 = e21
    e13 = e13
    e31 = e31
    e23 = e23
    e32 = e32
    Nowhere = Nowhere
    Broadcast = Broadcast
    Routers = {v1, v2, v3}
    Ifaces = {e1, e2, e12, e21, e13, e31, e23, e32}
    Nets = {s1, s2, l12, l13, l23}
    Owner <- TriOwner
    Net <- TriNet
    Peer <- TriPeer
    Silent = {}
    Senders = {c}
    Targets = {w, e31, Nowhere, Broadcast}
    InitRoutes <- TriAnyRoutes
    Hosts = {c, w}
    ipttl = 3
    MaxChanges = 2
INVARIANTS TypeOK
PROPERTIES PacketsEnd SenderIsTold
CHECK_DEADLOCK FALSE
