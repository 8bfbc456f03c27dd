SPECIFICATION FairSpec
CONSTANTS
    o1 = o1
    o2 = o2
    n1 = n1
    n2 = n2
    Objs <- MCObjs
    Namespaces <- MCNamespaces
    NsOf <- MCNsOf
    Existing = {o1}
    Slots = 3
    MaxVersion = 2
    MaxRefs = 2
    MaxOps = 3
    MaxFaults = 1
INVARIANT OneRuns
INVARIANT NeverStuck
INVARIANT CacheIsHistory
INVARIANT ChangesAreShown
PROPERTY Converges
PROPERTY WaitersReleased
\* The operations, versions and faults are bounded: a settled GUI stops.
CHECK_DEADLOCK FALSE
