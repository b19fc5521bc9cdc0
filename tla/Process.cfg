\* A server of one request, a worker of an SMS handler and two mail
\* handlers, or a cron process.  The pool has three connections, one more than
\* there are callers that ask for a second one, and two less than the worker
\* may ask for.
SPECIFICATION FairSpec
CONSTANTS
    r1 = r1  s1 = s1  l1 = l1  l2 = l2  j1 = j1
    Callers = {r1, s1, l1, l2, j1}
    Kind <- CallerKind
    MaxOpen = 3
\* A process ends.
CHECK_DEADLOCK FALSE
INVARIANTS
    TypeOK
    NoCircularWait
    UsedIsOpen
    RegisteredBeforeConsumed
PROPERTIES
    WaitersServed
