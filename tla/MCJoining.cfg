SPECIFICATION FairSpec
CONSTANTS
    p1 = p1
    p2 = p2
    p3 = p3
    n1 = n1
    n2 = n2
    a2 = a2
    Channels = 2
    Parent = {p1, p2, p3}
    Net = {n1, n2}
    NetOf <- MCNetOf
    ChannelOf <- MCChannelOf
    Beacon <- MCBeacon
    NetId <- MCNetId
    Near = p1
    Addr = {a1, a2}
    Drawn = {a1}
    Overheard <- MCOverheard
    Refusal = Refusal
    None = None
    QueueSize = 2
    Retries = 2
    Capacity = 3
    ParentRoom = 2
    MaxNoise = 1
INVARIANTS TypeOK
PROPERTIES AnsweredInTheEnd Drained
CHECK_DEADLOCK FALSE
