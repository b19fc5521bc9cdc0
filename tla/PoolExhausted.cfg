\* A worker of two mail handlers whose pool has two connections.
SPECIFICATION FairSpec
CONSTANTS
    r1 = r1  s1 = s1  l1 = l1  l2 = l2  j1 = j1
    Callers = {l1, l2}
    Kind <- CallerKind
    MaxOpen = 2
CHECK_DEADLOCK FALSE
PROPERTIES
    FailuresAreStored
