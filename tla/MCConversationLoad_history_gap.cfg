SPECIFICATION Spec
CONSTANTS
    c1 = c1
    c2 = c2
    c3 = c3
    c4 = c4
    A = A
    B = B
    None = None
    Calls = {c1, c2, c3, c4}
    Conversations = {A, B}
    Setups <- HistorySetups
SYMMETRY Symmetry
INVARIANTS HistoryContiguous
CHECK_DEADLOCK FALSE
