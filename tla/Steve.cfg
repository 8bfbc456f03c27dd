SPECIFICATION FairSpec
CONSTANTS
    Procs = {s1, s2, s3}
    None = None
    Late = {}
    MaxAttempts = 2
    MaxMessages = 3
    MaxFaults = 1
INVARIANT OneSteve
INVARIANT PortIsOwn
PROPERTY StartReturns
PROPERTY EndsUnwanted
\* The changes of the App are bounded: a Steve that runs stays.
CHECK_DEADLOCK FALSE
