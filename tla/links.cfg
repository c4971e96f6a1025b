SPECIFICATION Spec
CONSTANTS
    d1 = d1
    d2 = d2
    p1 = p1
    p2 = p2
    u1 = u1
    u2 = u2
    u3 = u3
    b1 = b1
    b2 = b2
    z1 = z1
    z2 = z2
    None = None
    Device <- Devices
    Port <- Ports
    Upstream <- Upstreams
    Bridged <- NeedBridge
    BridgePort <- BridgePorts
    Zone <- Zones
    Default = z1
    Given <- Other
    PortMaps <- AllMaps
    MaxSessions = 2
    MaxRotations = 1
    MaxWrong = 1
SYMMETRY Alike
INVARIANTS
    CdpReachesOwnDevice
    OwnUpstream
    ZoneCoherent
CHECK_DEADLOCK FALSE
