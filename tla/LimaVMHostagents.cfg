SPECIFICATION Spec
CONSTANTS
    Pids = {p1, p2}
    NoPid = NoPid
    Templates = {t1, t2}
    FirstTemplate = t1
    MaxOps = 3
    MaxFaults = 3
    SlowStart = FALSE
    Lagging = FALSE
    KillFails = FALSE
SYMMETRY Symmetry
INVARIANT NoMaskedHostagent
INVARIANT SpawnVisible
PROPERTY ImplementsContract
PROPERTY BootRecorded
PROPERTY ObservedAfterRestart
\* The user's operations are bounded: a settled LimaVM stops.
CHECK_DEADLOCK FALSE
