CONSTANTS
    Keys = {"a", "b", "c", "d", "w", "long", "cut"}
    Values = {1, 2, 3}
    UserPrefixes = {"sub", "get"}
    ENTITY_PUB_MAX = 2
    ENTITY_MON_MAX = 2
    ENTITY_OWN_MAX = 1
    ENTITY_TMP_MAX = 2
    ENTITY_POOL_MAX = 2
    NATIVE_MAX = 3
    OWN_TTL_S = 1
    PUB_TTL_S = 1
    SEC_WRAP = 3
    IdCut <- MCIdCut
    ValueCut <- MCValueCut
    BasicsKey = "w"
    BASICS_INTERVAL = 1
    PING_INTERVAL = 1
    MIN_SEND_INTERVAL = 1
    FORCE_SEND_INTERVAL = 2
    MON_INTERVAL = 1
    SCAN_INTERVAL = 1
    FitsInScratch = 1
    MaxScans = 1
    Targets = {"n1", "n2", "n3"}
    SubPrefixes = {"sub", "get"}
    SUB_MAP_MAX = 2
    HttpIds <- MCHttpIds
    ScriptIds <- MCScriptIds
    RemoteKeys = {"a", "b", "long"}
SPECIFICATION MCSpec
INVARIANTS StoreExact OwedIsPending SubPrefixKept
PROPERTIES LostOnlyOldest SenderKeepsUp
CHECK_DEADLOCK FALSE
