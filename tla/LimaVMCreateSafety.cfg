SPECIFICATION Spec
CONSTANTS
    Templates = {t1, t2}
    MaxVMs = 2
    MaxOps = 4
    MaxFaults = 2
    Lagging = FALSE
    Unmarked = FALSE
SYMMETRY Symmetry
INVARIANT CreatedHasInstance
INVARIANT GuestHasInstance
INVARIANT ObservedOnDisk
\* The names and the user's operations are bounded: a settled LimaVM stops.
CHECK_DEADLOCK FALSE
