\* A unary call and a stream of one or two messages, or two of the stream; a
\* limit of two ticks and a run of the job at every tick, so that messages are
\* due both in the middle of the limit and at its end; pages of one row.
SPECIFICATION Spec
CONSTANTS
    u1 = u1  b1 = b1
    Calls = {u1, b1}
    Streams = {b1}
    Limit = 2
    JobLimit = 2
    Period = 1
    PageSize = 1
    MaxMessages = 2
    MaxTime = 3
    Receivers <- TheReceivers
    MaxLimit = 6
\* Calls end, and so does time.
CHECK_DEADLOCK FALSE
INVARIANTS
    TypeOK
    ChunksPartition
    UnconfirmedAtMostOne
    DispatchedInTime
    PagesMissNothing
