SPECIFICATION FairSpec
CONSTANTS
    Pids = {p1, p2}
    NoPid = NoPid
    Templates = {t1, t2}
    FirstTemplate = t1
    MaxOps = 2
    MaxFaults = 2
    SlowStart = FALSE
    Lagging = TRUE
    KillFails = TRUE
INVARIANT ObservedIsRunning
INVARIANT QuietMeansDone
PROPERTY Converges
PROPERTY RestartHonoured
PROPERTY TemplateHonoured
\* The user's operations are bounded: a settled LimaVM stops.
CHECK_DEADLOCK FALSE
