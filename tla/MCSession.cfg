SPECIFICATION SessionSpec
CONSTANTS
    o1 = o1
    o2 = o2
    A = A
    B = B
    t1 = t1
    t2 = t2
    t3 = t3
    None = None
    Nil = Nil
    Calls = {o1, o2}
    Setups <- AllSetups
    MaxRetired = 2
    MaxEpoch = 3
    MaxGeneration = 3
    MaxRevision = 2
    Requests = {t1, t2, t3}
    MaxEntries = 2
    Tasks = {t1, t2, t3}
    Chats = {A, B}
    PageSize = 1
    WorkspaceOps = {"refresh", "more", "create", "rename", "delete", "select", "dispose"}
SYMMETRY Symmetry
INVARIANTS
    NoStuckSending CommandsBelongToView NeverShownTwice OneRequestPerMessage
    AnsweredNotAskedAgain CardsTellTheTruth
    ListAgrees SelectionHolds
PROPERTIES DraftNotLost
CHECK_DEADLOCK FALSE
