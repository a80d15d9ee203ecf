SPECIFICATION Spec
CONSTANTS
    c1 = c1
    c2 = c2
    c3 = c3
    c4 = c4
    A = A
    B = B
    None = None
    Calls = {c1, c2, c3}
    Conversations = {A, B}
    Setups <- RaceSetups
SYMMETRY Symmetry
INVARIANTS SubscriptionsAccounted RetiredNeverCommits NoNotificationLost ReadyShowsLive
PROPERTIES ViewNeverRegresses ReloadKeepsEvents
CHECK_DEADLOCK FALSE
