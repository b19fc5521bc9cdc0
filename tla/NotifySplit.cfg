\* One SMS message in two queues of one target each, on one partition;
\* two workers; the message may be canceled and its ids may be late.
SPECIFICATION Spec
CONSTANTS
    m1 = m1  p1 = p1  p2 = p2  w1 = w1  w2 = w2  c1 = c1  c2 = c2
    Nil = Nil
    Messages = {m1}
    Queues = {1, 2}
    Targets = {1, 2}
    MessageId <- OneMessageTwoQueues
    QueueId <- OneEach
    Type <- SmsOnly
    Partitions = {p1}
    Topic <- SmsTopic
    MaxFaults = 1
    Crons = {}
    MaxRetries = 1
    MaxCopies = 1
    MaxInFlight = 2
    Cancelable = {m1}
    ClockCrossing = TRUE
    Workers = {w1, w2}
    RowStatuses = {"sent", "failed"}
SYMMETRY WorkersAlike
\* The system rests when every request is answered and every record read.
CHECK_DEADLOCK FALSE
INVARIANTS
    DispatchedIsMarked
    EnqueuedInTopic
    OutcomeNeedsCall
    CancelAllOrNothing
PROPERTIES
    CanceledStaysOut
    ImplementsLifecycle
