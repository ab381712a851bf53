CONSTANTS
    Regions = {"EU868", "US915"}
    Carriers <- MCCarriers
    RegionDefault = "EU868"
    Envelope <- MCEnvelope
    SmosFreq <- MCSmosFreq
    MeshFreq <- MCMeshFreq
    SubBand <- MCSubBand
    Limit <- MCLimit
    LORA_LINK_MAX_CH = 2
    Plans <- MCPlans
    SecsPerMin = 4
    MaxTime = 7
    NFrag = 2
    MaxBatches = 2
    MaxCmds = 2
    CfgFails = TRUE
    LORA_CFG_FAIL_MAX = 2
SPECIFICATION LinkSpec
INVARIANTS RadioServesPlan LinkFollowsIntent BudgetKept BatchesWhole
CHECK_DEADLOCK FALSE
