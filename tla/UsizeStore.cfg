SPECIFICATION StoreSpec
CONSTANTS
    USIZE_BITS = 4
    MAX_PACKET_IDENTIFIER = 6
    None = None
INVARIANTS StoreTypeOK NoStaleUsage
PROPERTY ImplementsStore
