SPECIFICATION Spec
CONSTANTS
    Templates = {t1, t2}
    Docker = {t1}
    Off = Off
    MaxEdits = 1
    MaxFaults = 1
    Lagging = {"app"}
    Overlap = FALSE
    GivesUp = FALSE
INVARIANT SettledMeansApplied
INVARIANT QuietMeansSwept
INVARIANT QuietMeansWatched
\* The user's edits are bounded: a settled App stops.
CHECK_DEADLOCK FALSE
