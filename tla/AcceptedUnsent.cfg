\* A request is answered with success although its records never reached Kafka.
SPECIFICATION Spec
CONSTANTS
    m1 = m1  p1 = p1  p2 = p2  w1 = w1  w2 = w2  c1 = c1  c2 = c2
    Nil = Nil
    Messages = {m1}
    Queues = {1, 2}
    Targets = {1, 2}
    MessageId <- OneMessageTwoQueues
    QueueId <- OneEach
    Type <- SmsOnly
    Partitions = {p1}
    Topic <- SmsTopic
    MaxFaults = 0
    Crons = {}
    MaxRetries = 1
    MaxCopies = 1
    MaxInFlight = 2
    Cancelable = {}
    ClockCrossing = FALSE
    Workers = {w1, w2}
    RowStatuses = {"sent", "failed"}
CHECK_DEADLOCK FALSE
INVARIANTS
    AcceptedIsDispatched
