CONSTANTS
    MaxQueue = 3
    EXT_MIN_GAP = 1
    EXT_TIMEOUT = 2
    EXT_KEEP = 2
    GRACE_MIN = 2
    MAX_ATTEMPTS = 2
    MaxFrames = 2
    MaxSealed = 2
SPECIFICATION MCSpec
INVARIANTS SessionsConsistent TokenOfRequest
PROPERTIES CommandsInOrder SessionsKept AllSettle
CHECK_DEADLOCK FALSE
