SPECIFICATION SessionSafety
CONSTANTS
    USIZE_BITS = 1
    MAX_PACKET_IDENTIFIER = 2
    None = None
    Instants = {0,1,2,3,4,5}
    KeepAlives = {0,2,3}
    ClientIdentifiers = {"a"}
    EmptyIdentifier = ""
    FxHash <- MCFxHash
    ServerIdentifiers = {1}
    Messages = {m1, m2, n1, n2}
    MaxAcks = 2
    ClientMessages = {m1}
    ServerMessages = {n1}
    MaxFaults = 1
    MaxSubscribes = 1
    KeepsStaleAcks = FALSE
INVARIANTS NoPanic PingAgreesWithMachine KeepAliveIsKept
CHECK_DEADLOCK FALSE
