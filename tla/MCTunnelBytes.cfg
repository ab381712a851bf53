CONSTANTS
    Tids = {1, 2}
    CMDQ = 1
    TUN_LAN_QDEPTH = 1
    TUN_QDEPTH = 1
    STQ = 1
    MaxReads = 3
    MaxData = 0
SPECIFICATION TunSpec
INVARIANTS TunNoByteLost
CHECK_DEADLOCK FALSE
