SPECIFICATION SessionSpec
CONSTANTS
    USIZE_BITS = 2
    MAX_PACKET_IDENTIFIER = 3
    None = None
    Instants = {0}
    KeepAlives = {0}
    ClientIdentifiers = {"a"}
    EmptyIdentifier = ""
    FxHash <- MCFxHash
    ServerIdentifiers = {1}
    Messages = {m1, m2, n1, n2}
    MaxAcks = 2
    ClientMessages = {m1, m2}
    ServerMessages = {n1, n2}
    MaxFaults = 2
    MaxSubscribes = 1
    KeepsStaleAcks = FALSE
INVARIANTS NoPanic CallerAgreesWithMachine WireAgreesWithMachine
PROPERTIES PublishesAreDelivered ReceivesAreDelivered
CHECK_DEADLOCK FALSE
