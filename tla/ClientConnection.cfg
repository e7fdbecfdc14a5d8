SPECIFICATION ClientSpec
CONSTANTS
    USIZE_BITS = 2
    MAX_PACKET_IDENTIFIER = 3
    None = None
    Instants = {0, 1}
    KeepAlives = {1}
    ClientIdentifiers = {"cloudmqtt-0"}
    EmptyIdentifier = ""
    FxHash <- MCFxHash
    ServerIdentifiers = {1}
    Messages <- MCMessages
    MaxAcks = 1
    u1 = u1
    u2 = u2
    one = one
    other = other
    twin = twin
    bad = bad
    long = long
    both = both
    plus = plus
    star = star
    Users = {u1, u2}
    Filters <- MCFilters
    ValidFilters <- MCValidFilters
    LongFilters <- MCLongFilters
    Shard <- MCShards
    Topics <- MCTopics
    RefusedTopics <- MCRefusedTopics
    Matching <- MCMatching
    FilterLists <- MCRefusedLists
    Connectors = {u1, u2}
    Publishers = {u1, u2}
    MaxPublishes = 2
    MaxSubscriptions = 1
    MaxArrivals = 1
INVARIANTS MachineIsAskedInTime MachineHasOneOwnerOrIsLost AcceptedIsWrittenInOrder
SYMMETRY UserSymmetry
CHECK_DEADLOCK FALSE
