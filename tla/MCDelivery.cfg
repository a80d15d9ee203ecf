SPECIFICATION DeliverySpec
CONSTANTS
    g1 = g1
    g2 = g2
    Generations = {g1, g2}
    NoGeneration = NoGeneration
    MaxNotifications = 8
    l1 = l1
    l2 = l2
    l3 = l3
    None = None
    Listeners = {l1, l2, l3}
    StateListeners = {l3}
    MaxCommits = 3
    Absent = Absent
    MaxOverlay = 4
    MaxRecent = 4
    MessageSetups <- TimelineSetups
    MaxLive = 2
    MaxReads = 2
INVARIANTS FifoExactlyOnce PublishedInOrder ListenersCaughtUp OneItemPerMessage NothingThrows
PROPERTIES NothingDropped AuthorNeverReverts DeliveryEnds
CHECK_DEADLOCK FALSE
