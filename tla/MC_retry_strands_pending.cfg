SPECIFICATION FairSpec
CONSTANTS
    MaxGateways = 1
    MaxJobs = 2
    Names = {n1}
    NoName = noName
    Threads = {t1, t2}
    Requests = {r1}
    DeleteFrom = {}
    RetryFrom = {"error"}
    MaxCreates = 1
    MaxFaults = 0
PROPERTIES
    ProvisioningEnds
CHECK_DEADLOCK FALSE
