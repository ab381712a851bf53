CONSTANTS
    NoJob = NoJob
    Jobs <- MCJobs
    Kind <- MCKind
    Outcomes = {"ok", "fail", "deferred"}
    JOBQ_DEPTH = 2
    RESQ_DEPTH = 1
    Tags <- MCTags
    Copies <- MCCopies
    CHECKNET_JOBS = 2
    MaxCycles = 2
    Slots <- MCSlots
    MonIds <- MCMonIds
    MonConfs = {confA, confB}
    FAIL_N = 2
    OK_N = 1
    MaxSets = 3
    CnowIds = {c1}
    NoCnow = NoCnow
    NI_QUEUE_SIZE = 1
    MaxEvents = 2
    Together = {{"cn", "cnow"}, {"cn", "ni"}, {"mon", "cnow"}}
SPECIFICATION ClientsSpec
CHECK_DEADLOCK FALSE
INVARIANTS AwaitedIsUnderWay AskedOnce NiBatchIntact
