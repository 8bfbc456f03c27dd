SPECIFICATION FromOn
CONSTANTS
    k1 = k1
    k2 = k2
    on = on
    off = off
    auto = auto
    None = None
    Keys <- MCKeys
    Values <- MCValues
    Invalid <- MCInvalid
    MaxOps = 4
    MaxFaults = 1
INVARIANT PendingHasOwner
INVARIANT NothingStale
INVARIANT ModifyWaits
INVARIANT CanApplyMeansValid
PROPERTY EditsSurvive
PROPERTY ModifyReturns
\* The calls and the faults are bounded: a window with nothing to do stops.
CHECK_DEADLOCK FALSE
