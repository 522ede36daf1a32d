SPECIFICATION Spec
CONSTANTS
    MaxGateways = 2
    MaxJobs = 3
    Names = {n1, n2}
    NoName = noName
    Threads = {t1, t2}
    Requests = {r1, r2}
    DeleteFrom = {"ready"}
    RetryFrom = {}
    MaxCreates = 2
    MaxFaults = 1
SYMMETRY Symm
CONSTRAINT RacesBeforeFaults
INVARIANTS
    CreateJobExists
    RacingDeletionsRecoverable
CHECK_DEADLOCK FALSE
