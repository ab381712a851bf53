\* Four jobs, two places per job queue, one for results: all queues fill up.
CONSTANTS
    stun = stun
    punch = punch
    p1 = p1
    p2 = p2
    NoJob = NoJob
    Jobs <- MCJobs
    Kind <- MCKind
    Outcomes = {"ok", "fail", "deferred"}
    JOBQ_DEPTH = 2
    RESQ_DEPTH = 1
SPECIFICATION FairNetSpec
INVARIANTS NetTypeOK EachJobOnce OvertakenOnce
PROPERTIES ImplementsService AllAnswered
