CONSTANTS
    None = "none"
    Namespaces = {"sensmos", "sensmos_mesh", "wallet_bak", "sensmos_test"}
    PrefsKeys <- MCKeys
    PrefsValues <- MCValues
    Pairs = {"k1", "k2", "k3", "k4"}
    Owners = {"owner"}
    Regions = {"EU868", "US915"}
    RegionDefault = "EU868"
    MeshCfgDefault <- MCMeshDefault
    MeshOrders <- MCMeshOrders
    Slots = {0, 7}
    OpenSlots = {0}
    Commands = {"factory_reset", "auth", "set_device_id", "register", "trust_round", "trust_sign", "wallet_backup", "set_mesh_cfg"}
    TRUST_MAX_ROUNDS = 2
    NFrag = 2
    MIN_SEND_INTERVAL = 1
    FORCE_SEND_INTERVAL = 3
    MaxUpsets = 1
    MaxEvents = 3
SPECIFICATION MCSpec
INVARIANTS NodeConsistent Durable SignsWhatItShould
PROPERTIES NodeServes
CHECK_DEADLOCK FALSE
