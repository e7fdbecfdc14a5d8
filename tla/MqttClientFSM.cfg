SPECIFICATION Spec
CONSTANTS
    USIZE_BITS = 2
    MAX_PACKET_IDENTIFIER = 3
    None = None
    Instants = {0, 1, 3}
    KeepAlives = {0, 2}
    ClientIdentifiers = {"a", "b", "c"}
    EmptyIdentifier = ""
    FxHash <- MCFxHash
    ServerIdentifiers = {1}
    Messages = {m}
    MaxAcks = 2
INVARIANTS TypeOK NonPublishSlotsNeedConnection PublisherOwnsIdentifier
PROPERTIES FreshIdentifiersAreAnnounced IdentityIsStable
CHECK_DEADLOCK FALSE
