SPECIFICATION Spec
CONSTANTS
    Templates = {t1, t2}
    MaxVMs = 1
    MaxOps = 1
    MaxFaults = 0
    Lagging = FALSE
    Unmarked = FALSE
SYMMETRY Symmetry
INVARIANT ConfigMapGoes
\* The names and the user's operations are bounded: a settled LimaVM stops.
CHECK_DEADLOCK FALSE
