\* One mail message in two queues, dispatched by its request or by two cron
\* processes, with one slot, two attempts per record and one
\* fault; nobody reads the topic.
SPECIFICATION Spec
CONSTANTS
    m1 = m1  p1 = p1  p2 = p2  w1 = w1  w2 = w2  c1 = c1  c2 = c2
    Nil = Nil
    Messages = {m1}
    Queues = {1, 2}
    Targets = {1}
    MessageId <- OneMessageTwoQueues
    QueueId <- OneTarget
    Type <- MailOnly
    Partitions = {p1}
    Topic <- MailTopic
    MaxFaults = 1
    Crons = {c1, c2}
    MaxRetries = 2
    MaxCopies = 1
    MaxInFlight = 1
    Cancelable = {}
    ClockCrossing = FALSE
    Workers = {}
    RowStatuses = {}
SYMMETRY CronsAlike
\* The system rests when every request is answered and every cron run over.
CHECK_DEADLOCK FALSE
INVARIANTS
    DispatchBounded
    SendersNeverStuck
    ErrorSendsNothing
PROPERTIES
    SendsGoForward
