SPECIFICATION Spec
CONSTANTS
    c1 = c1
    c2 = c2
    Client <- Clients
    UserIds <- OneOrTwo
    MaxWrong = 2
    MaxSessions = 2
SYMMETRY Either
INVARIANTS
    UdpBlocked
    IPv6Off
CHECK_DEADLOCK FALSE
