SPECIFICATION FairSpec
CONSTANTS
    MaxGateways = 1
    MaxJobs = 3
    Names = {n1}
    NoName = noName
    Threads = {t1, t2}
    Requests = {r1}
    DeleteFrom = {"ready", "deleting"}
    RetryFrom = {}
    MaxCreates = 1
    MaxFaults = 1
INVARIANTS
    PendingRecoverable
    DeletingRecoverable
PROPERTIES
    PromiseKept
    ThreadsEnd
CHECK_DEADLOCK FALSE
