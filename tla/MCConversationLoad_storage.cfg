SPECIFICATION Spec
CONSTANTS
    c1 = c1
    c2 = c2
    c3 = c3
    c4 = c4
    A = A
    B = B
    None = None
    Calls = {c1, c2}
    Conversations = {A, B}
    Setups <- StorageSetups
PROPERTIES CommittedLoadSucceeds CallsSettle
CHECK_DEADLOCK FALSE
