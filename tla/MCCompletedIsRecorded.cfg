SPECIFICATION Spec

CONSTANTS
    Party = {"s", "e"}
    Call = {1, 2}
    MaxMessages = 0
    MaxFaults = 0
    Null = Null

INVARIANT CompletedIsRecorded

CHECK_DEADLOCK FALSE
