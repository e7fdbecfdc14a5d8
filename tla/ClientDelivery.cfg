SPECIFICATION FairSpec
CONSTANTS
    USIZE_BITS = 2
    MAX_PACKET_IDENTIFIER = 2
    None = None
    Instants = {0}
    KeepAlives = {}
    ClientIdentifiers = {"cloudmqtt-0"}
    EmptyIdentifier = ""
    FxHash <- MCFxHash
    ServerIdentifiers = {}
    Messages <- MCMessages
    MaxAcks = 1
    u1 = u1
    u2 = u2
    one = one
    other = other
    twin = twin
    bad = bad
    long = long
    both = both
    plus = plus
    star = star
    Users = {u1, u2}
    Filters <- MCFilters
    ValidFilters <- MCValidFilters
    LongFilters <- MCLongFilters
    Shard <- MCShards
    Topics <- MCValidTopics
    RefusedTopics <- MCRefusedTopics
    Matching <- MCMatching
    FilterLists <- MCFilterLists
    Connectors = {}
    Publishers = {}
    MaxPublishes = 0
    MaxSubscriptions = 2
    MaxArrivals = 2
INVARIANT DeliveredInOrder
PROPERTIES CallsReturn LostConnectionIsReleased RoutedIsDelivered
CHECK_DEADLOCK FALSE
