SPECIFICATION ToolSpec
CONSTANTS
    r1 = r1
    r2 = r2
    r3 = r3
    None = None
    Requests = {r1, r2, r3}
    MaxConcurrent = 2
    MaxRemembered = 2
    Throwing = {"factory", "retry"}
    MaxGeneration = 4
INVARIANTS AtMostOnce ConnectionInOrder ShownAgrees NoneForgotten
PROPERTIES LateIsIgnored CallsSettle
CHECK_DEADLOCK FALSE
