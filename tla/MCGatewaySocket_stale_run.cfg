SPECIFICATION SocketSpec
CONSTANTS
    s1 = s1
    s2 = s2
    k1 = k1
    k2 = k2
    A = A
    B = B
    Subs = {s1, s2}
    Conns = {k1, k2}
    Conversations = {A, B}
    None = None
    MaxVersion = 1
    SocketSetups <- DiscardingOnly
SYMMETRY Symmetry
INVARIANTS ReconciledRunIsCurrent
CHECK_DEADLOCK FALSE
