SPECIFICATION FairSpec
CONSTANTS
    Templates = {t1, t2}
    MaxVMs = 2
    MaxOps = 3
    MaxFaults = 2
    Lagging = TRUE
    Unmarked = TRUE
INVARIANT TypeOK
INVARIANT PatchHitsOwn
INVARIANT QuietMeansSettled
PROPERTY DeletionCompletes
PROPERTY CreationCompletes
\* The names and the user's operations are bounded: a settled LimaVM stops.
CHECK_DEADLOCK FALSE
