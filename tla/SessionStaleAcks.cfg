SPECIFICATION SessionSpec
CONSTANTS
    USIZE_BITS = 1
    MAX_PACKET_IDENTIFIER = 2
    None = None
    Instants = {0}
    KeepAlives = {0}
    ClientIdentifiers = {"a"}
    EmptyIdentifier = ""
    FxHash <- MCFxHash
    ServerIdentifiers = {1}
    Messages = {m1, m2, n1, n2}
    MaxAcks = 2
    ClientMessages = {}
    ServerMessages = {n1, n2}
    MaxFaults = 2
    MaxSubscribes = 0
    KeepsStaleAcks = TRUE
PROPERTIES ServerForgetsOnlyReceived
CHECK_DEADLOCK FALSE
