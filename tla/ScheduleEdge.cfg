\* One call, a limit of two, a job that runs at least every second tick.
SPECIFICATION Spec
CONSTANTS
    u1 = u1  b1 = b1
    Calls = {u1}
    Streams = {}
    Limit = 2
    JobLimit = 2
    Period = 2
    PageSize = 1
    MaxMessages = 1
    MaxTime = 6
    Receivers <- TheReceivers
    MaxLimit = 1
CHECK_DEADLOCK FALSE
INVARIANTS
    AcceptedIsDispatchedInTime
