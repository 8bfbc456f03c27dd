SPECIFICATION FromMoby
CONSTANTS
    Templates = {t1, t2}
    Docker = {t1}
    Off = Off
    MaxEdits = 1
    MaxFaults = 0
    Lagging = {"app", "engine"}
    Overlap = FALSE
    GivesUp = TRUE
PROPERTY Settles
\* The user's edits are bounded: a settled App stops.
CHECK_DEADLOCK FALSE
