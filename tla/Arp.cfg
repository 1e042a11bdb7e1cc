SPECIFICATION FairSpec
CONSTANTS
    p1 = p1
    p2 = p2
    h1 = h1
    h2 = h2
    g1 = g1
    m1 = m1
    i1 = i1
    i2 = i2
    NoGw = NoGw
    NoPkt = NoPkt
    NoIp = NoIp
    NoMac = NoMac
    Packets = {p1, p2}
    Hosts = {h1, h2}
    Gateways = {g1}
    Macs = {m1}
    Ifaces = {i1, i2}
    Dst <- MCDst
    SR_ARPCACHE_SZ = 2
    SR_ARPCACHE_TO = 1
    MaxTimesSent = 3
    Epoch = 2
INVARIANTS TypeOK KnownNeverWaits NoOvertaking OnePlace EntriesExpire
PROPERTIES ImplementsNextHopQueue QueuedIsResolved
