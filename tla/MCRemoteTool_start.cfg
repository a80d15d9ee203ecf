SPECIFICATION Spec
CONSTANTS
    None = None
    Requests = {r1}
    MaxConcurrent = 1
    MaxRemembered = 1
    Throwing = {"start"}
    MaxGeneration = 2
INVARIANTS ConnectingCanConnect
CHECK_DEADLOCK FALSE
