\* Liveness, and types: one SMS message in two queues, one goroutine at a time, a
\* cron process; no cancellation and no late ids.
SPECIFICATION FairSpec
CONSTANTS
    m1 = m1  p1 = p1  p2 = p2  w1 = w1  w2 = w2  c1 = c1  c2 = c2
    Nil = Nil
    Messages = {m1}
    Queues = {1, 2}
    Targets = {1}
    MessageId <- OneMessageTwoQueues
    QueueId <- OneTarget
    Type <- SmsOnly
    Partitions = {p1}
    Topic <- SmsTopic
    MaxFaults = 2
    Crons = {c1}
    MaxRetries = 1
    MaxCopies = 1
    MaxInFlight = 1
    Cancelable = {}
    ClockCrossing = FALSE
    Workers = {w1}
    RowStatuses = {}
\* The system rests when every request is answered and every record read.
CHECK_DEADLOCK FALSE
INVARIANTS
    TypeOK
PROPERTIES
    EnqueueReturns
    RecordsAttempted
    DueIsDispatched
