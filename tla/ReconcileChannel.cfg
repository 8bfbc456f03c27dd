SPECIFICATION FairSpec
CONSTANTS
    VMs = {v1, v2}
    NoVM = NoVM
    Capacity = 1
    MaxOps = 3
    MaxFaults = 2
INVARIANT LostOnlyBeside
PROPERTY Follows
\* The user rests, and settled LimaVMs wait.
CHECK_DEADLOCK FALSE
