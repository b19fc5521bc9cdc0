\* A record whose queue the handler cannot find kills every worker that reads it.
SPECIFICATION FairSpec
CONSTANTS
    m1 = m1  p1 = p1  p2 = p2  w1 = w1  w2 = w2  c1 = c1  c2 = c2
    Nil = Nil
    Messages = {m1}
    Queues = {1, 2}
    Targets = {1}
    MessageId <- OneMessageTwoQueues
    QueueId <- OneTarget
    Type <- SmsOnly
    Partitions = {p1}
    Topic <- SmsTopic
    MaxFaults = 0
    Crons = {}
    MaxRetries = 1
    MaxCopies = 1
    MaxInFlight = 1
    Cancelable = {}
    ClockCrossing = TRUE
    Workers = {w1}
    RowStatuses = {}
CHECK_DEADLOCK FALSE
PROPERTIES
    RecordsAttempted
