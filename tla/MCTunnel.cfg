CONSTANTS
    Tids = {1, 2}
    CMDQ = 2
    TUN_LAN_QDEPTH = 2
    TUN_QDEPTH = 2
    STQ = 1
    MaxReads = 3
    MaxData = 2
SPECIFICATION FairTunSpec
INVARIANTS TunFreedSafely TunConsistent
PROPERTIES TunRamReturned
CHECK_DEADLOCK FALSE
