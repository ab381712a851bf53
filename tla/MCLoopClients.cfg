CONSTANTS
    NoJob = NoJob
    Jobs <- MCJobs
    Kind <- MCKind
    Outcomes = {"ok", "fail"}
    JOBQ_DEPTH = 1
    RESQ_DEPTH = 1
    Tags <- MCTags
    Copies = {1}
    ScriptIds = {"a", "b", "u"}
    Programs <- MCPrograms
    DsLists <- MCDsLists
    UsLists <- MCUsLists
    MAX_SCRIPTS = 3
    MAX_STEPS = 2
    MaxTokens = 3
    WS_WD_GRACE = 1
    WS_WD_PROPH = 2
    MaxMoments = 2
SPECIFICATION MCSpec
CHECK_DEADLOCK FALSE
INVARIANTS ScConsistent ScResumedOnce ScFreshKept WdConsistent
PROPERTIES WdEpisodeKept NothingHangs
