\* One mail message in two queues, whose records go to the same or to two
\* partitions; two workers, one fault.
SPECIFICATION Spec
CONSTANTS
    m1 = m1  p1 = p1  p2 = p2  w1 = w1  w2 = w2  c1 = c1  c2 = c2
    Nil = Nil
    Messages = {m1}
    Queues = {1, 2}
    Targets = {1, 2}
    MessageId <- OneMessageTwoQueues
    QueueId <- OneEach
    Type <- MailOnly
    Partitions = {p1, p2}
    Topic <- TwoMailPartitions
    MaxFaults = 1
    Crons = {}
    MaxRetries = 1
    MaxCopies = 1
    MaxInFlight = 2
    Cancelable = {}
    ClockCrossing = FALSE
    Workers = {w1, w2}
    RowStatuses = {"sent"}
SYMMETRY WorkersAlike
\* The system rests when every request is answered and every record read.
CHECK_DEADLOCK FALSE
INVARIANTS
    OutcomeHasEvent
    CommittedAccounted
PROPERTIES
    CommitNeverMovesBack
