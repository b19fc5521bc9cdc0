# A model of the notify service

TLA+ modules, TLC runs and TLAPS proofs for the service in `src/`: a gRPC server
that takes SMS and mail notifications, a cron job that dispatches the scheduled
ones, and workers that consume them from Kafka and call the providers.

## The system

| Part | Code | State it keeps | Operations |
| --- | --- | --- | --- |
| Server | `internal/servers`, `internal/components/validator.go` | the stream of a streaming call | `SendSms`, `SendBatchSms`, `SendMail`, `SendBatchMail`, cancel and status calls: validate, call `NotifyService`, reply |
| `NotifyService` | `internal/services/notify.go` | rows of `messages`, `queues`, `targets`; per call ten semaphore slots, a wait group, the map of successes | `PublishSmsMessage`, `PublishMailMessage`, `HandleEnqueue`, `CancelScheduledByMessageId`, `ListStatusWithPaging` |
| Cron job | `internal/jobs` | the messages it selected | `Execute` |
| Producer | `internal/components/producer.go` | the records of two topics | `SendMessage`, retried by sarama and by `withRetry` |
| Consumer group | `internal/components/consumer_group.go`, `internal/consumer` | session, position, marks, committed offset of each partition | `ConsumeClaim`: handle, mark, commit |
| Handlers | `internal/handlers` | rows as above and `events`; the queue they fetched | `Handle`: fetch, set sending, call the provider, store the result |
| Providers | `internal/smser`, `internal/mailer`, `internal/services/{sms,mail}.go` | outside | one batch call, one answer |
| Ids | `internal/components/snowflake.go`, `internal/utils/helper.go` | node number, clock | `Generate`, `ConvertSnowflakeToTime` |
| Connection pool | `internal/components/db.go` | the connections of a process, and who waits for one | every query and transaction |
| Processes | `cmd/*/main.go`, `internal/components/{grpc_server,otel}.go` | the hooks of fx, the registered handlers | construct, invoke, start, serve, stop |

The processes share nothing but PostgreSQL and Kafka. A request inserts a message,
its queues (one for each batch of receivers) and its targets; unless it is
scheduled, the same request marks the rows `process`, sends one record for each
queue, and marks what was acknowledged `enqueued`. For a scheduled message the cron
job does the same later. A worker reads the record, fetches the queue, marks it
`sending`, calls the provider, stores `success`/`sent` or `failed`, marks and
commits the offset.

What is hard about it:

- no row is locked or claimed. The last update of `HandleEnqueue` races with the
  worker that already has the record, a cancellation with both, and one cron run
  with the next;
- a send may be acknowledged, lost, or appended and not acknowledged, and is
  repeated;
- a handler outlives its session when the group rebalances, and goes on writing;
- a process may die between any two steps, and several error paths of the worker
  end the process (`log.Fatalf` in `ConvertSnowflakeToTime`, a nil response that is
  dereferenced);
- the worker finds a queue by its id and by `created_at >= the id's time`, two
  clock readings of the publisher;
- a failed record is passed over by the commit of the next one;
- the validator and the cron job each have a window of days, one counted from the
  request and forward, the other from the run and back;
- a stream publishes its messages one by one, and may end after any of them;
- the mail handler and the cron job ask the pool for a connection while they keep
  one;
- hooks are started in the order in which fx happens to build what the `Invoke`
  functions ask for, and stopped in the reverse one with callers still at work;
- pages are read by offset while rows are inserted, dispatched and deleted.

What makes each part correct is stated, line by line, by the hazards of
`PROJECT.json` and the properties they name.

## Modules

| Module | What it models |
| --- | --- |
| `NotifyDb` | the tables as functions from ids to rows (status and soft-delete mark), gorm's soft-delete filter (`Visible`), the updates, the partitions of the topics, the budget of faults |
| `NotifyService` | publish, `HandleEnqueue`, cancel and the cron job |
| `NotifyWorker` | the consumer group, `ConsumeClaim`, the two handlers, the provider's answers |
| `Notify` | the three composed by interleaving, and their properties |
| `Lifecycle` | abstract: what the tables promise to whoever reads them |
| `NotifyRefinement` | `Notify` as an implementation of `Lifecycle` |
| `ConnectionPool` | the connections of one process and the goroutines that share them |
| `Process` | one process from its constructors to its end, over `ConnectionPool` |
| `NotifyServer` | the calls of clients against the clock: validation, streams, the cron job's window, pages |
| `MCNotify`, `MCProcess`, `MCNotifyServer` | instances for TLC |
| `NotifyProofs` | type correctness of `Notify` |
| `NotifyGroupProofs` | what the group commits |
| `NotifyRowsProofs` | what a cancellation takes |
| `NotifyStatusProofs` | what a status says about topics, calls and events |
| `NotifyDispatchProofs` | what may get into a topic and how often, that sending goes on, and what may be called |
| `NotifyRefinementProofs` | `Notify` implements `Lifecycle` |
| `ProcessProofs`, `NotifyServerProofs` | the safety properties of `Process` and of `NotifyServer` |

There are three state machines, of different grain. In `Notify` a step is a
transaction, a send or a call, time is the order of steps, and a message is in or out
of the cron job's window. `NotifyServer` has the clock and the calls, and takes a
message as done when `HandleEnqueue` has it. `Process` has no messages: its
callers only take and return connections.

### Correspondence

*Service.* A caller of `HandleEnqueue` is a request, named by the message it
publishes, or a cron process. `pc[c]` is where it is; `send[c][q]` is the goroutine
it runs for queue `q` (state, attempts, partition). `Publish` is the transaction of
the publish calls, `MarkProcess` the first update, `Spawn` taking a slot,
`SendMessage` one call of the producer (it appends 0 to `MaxCopies` records and is
acknowledged or not), `StopRetrying` the cancelled context in `withRetry`,
`MarkEnqueued` `wg.Wait` and the last update with whatever follows it in the caller
(`Return`). `SelectScheduled`, `PreloadQueues`, `NextMessage` and `FinishJob` are
`Execute`. `CancelCheck` and `CancelCommit` are the two halves of
`CancelScheduledByMessageId`; refused calls change nothing and are left out. A
`message_id` that is no number ends the whole server (`notify.go:238`, and
`log.Fatalf` in `helper.go:34`); to the other calls that is a crash, and
`CrashCaller` has it. `lateIds` holds the queues whose id is of a later millisecond than their
`created_at`.

*Worker.* `owner[p]` is the worker whose session has partition `p`, `next[p]` the
offset it reads next, `marked[p]` its last mark, `committed[p]` the group's commit.
`claim[w][p]` is the handler of `w` on `p`; after `Rebalance` it may still be at
work, and then `w` gets no new partition (`Rejoined`) and its commits are refused
(`InSession`). `Fetch`, `FetchNothing` and `FetchError` are the three ends of
`fetchQueueData`'s query, `Preload` the statement for the targets,
`UpdateProcessingStatus`, `SendSms`, `SendEmail` and `HandleSendResult` the rest of
`Handle`, `MarkAndCommit` what `ConsumeClaim` does then. `HandlerError` is its error
path. Records that a session read ahead and its goroutine takes up after the session
ended are left out (`Fetch` needs the partition); the handler at work then goes on.
`handed`, `events`, `handled` and `errored` record which queues a provider was
called with, the statuses of a queue's events, and the offsets whose handler
returned.

*Faults.* A database error, a crash, a lost commit, a rebalance and a client that
goes away each use one unit of `MaxFaults`; broker failures of `SendMessage` need
none. A transaction is one action because its statements run in one closure and
PostgreSQL commits all of them or none; where the code uses a second statement
outside, the model has a second step (`Preload`, `EscapedEvents`). A transaction that
returns an error was rolled back, or was committed and the confirmation did not
arrive, because the connection broke or the request's context ended: every error
branch leaves the tables as they were or as the transaction left them. A publish that
fails so may leave a scheduled message, which the cron job later dispatches.

*Lifecycle.* `head`, `shown` and `receiver` are the `status` columns of the three
tables, `topic` the queues with a record in the log, `called` the queues handed to a
provider. A step of `Lifecycle` is one transaction: `Accept` the insert, `Dispatch`
and `Acknowledge` the two updates of `HandleEnqueue`, `Take` the handler's
update to `sending`, `Succeed` and `Fail` the two result transactions, `Cancel`
the cancellation; `Append` and `Call` are what happens outside the database. It says
for which reason each status may appear, that the rows touched together belong
together, and that a canceled row keeps its status; it knows nothing of processes,
sessions, retries and crashes. `called` is a set, so a second call for the same
queue is a stutter.

*Server.* A call is at `calls[c].pc`: `receive` for its request, `prepared` with id
and time taken, `stored` when its transaction committed, then `ok`, `error`, or for
a stream again `receive`. `Reject` stands for every failed check of a request,
`Accept` for a valid one (`CheckScheduledAt`), `PublishFails` for every error after
it, with or without the rows in the table, `Reply` and `ReplyLost` for `Send` on
the stream that returned nil or an error. A `Send` that returned nil has only handed
its reply to the transport (`sent`); the client knows of it for certain when it has
the status of the call, which the transport delivers last (`ReceiveStatus`, `told`,
`ended`). A connection that is lost is a `ReceiveStatus` that never happens.
`messages` is in the order of ids; a row appears when its state is no
longer `absent`, perhaps after one with a later id. `created` is the time taken
with the id, `since` that of the commit. `RunJob` is a run of the cron job that
reaches the database: it takes whatever is scheduled and `InWindow`. That it is
wholly successful is assumed; how it fails for one message, or dies half way, is in
`Notify`. `Cancel` is
allowed for every stored message, as `Notify` decides when the code refuses it.
`reader` is a client that follows `ListStatusWithPaging` from page to page. `Rank` is
the number of rows a query sorts before a row, so a page is the rows whose ranks lie
between its offset and the next one's, which is what `ORDER BY`, `LIMIT` and `OFFSET`
return for a unique column.

*Process.* `kind` is the program. `built`, `up` and `down` count the hooks appended,
started and stopped; `HooksOf` lists them in the order in which the constructors run.
`RunJob`, `JobReturns` and `JobFails` are the cron job, which runs inside its
`Invoke`; `MainReturns` is `main` returning when the job is done. `StopReturns` says
which stops wait: `GracefulStop` for the calls, the group's `Close` for the
claims. `Abort` is the end of the 15 seconds, a kill, or a `Serve` or `Consume` that
fails. `stage[c]` is what a caller does with the pool: it works without a
connection, waits for one, holds one, and, for a mail handler and the job, waits for
or holds a second one (`QueryInside`).

## Runs

The bound of each constant is in its cfg. An operator marked "Mutation:" is no part
of the model: it is a faulty form of the definition that follows it, with which the
run named in `PROJECT.json` finds the property violated.

| Run | Module | Question | Result |
| --- | --- | --- | --- |
| `NotifySplit` | `MCNotify` | Do tables and topic agree for a message of two queues, cancellation, late ids and two workers, with one fault, and is each step one of the abstract life of a message? | `DispatchedIsMarked`, `EnqueuedInTopic`, `OutcomeNeedsCall`, `CancelAllOrNothing`, `CanceledStaysOut`, `ImplementsLifecycle` hold |
| `NotifyGroup` | `MCNotify` | Are commits sound with two records on one or two partitions and two workers, with one fault? | `OutcomeHasEvent`, `CommittedAccounted`, `CommitNeverMovesBack` hold |
| `NotifyCron` | `MCNotify` | What has a request that ends with an error in the topic, though its commit may have taken place and two cron processes look for it; how often does a queue get there, with two attempts and overlapping cron runs; is `HandleEnqueue` ever stuck while it sends, and does a queue go back? | `ErrorSendsNothing`, `DispatchBounded`, `SendersNeverStuck`, `SendsGoForward` hold |
| `NotifyLive` | `MCNotify` | Does everything that must happen happen, with two faults? | `TypeOK`, `EnqueueReturns`, `RecordsAttempted`, `DueIsDispatched` hold |
| `CancelSent` | `MCNotify` | Is a sent message beyond cancellation? | no: `SentIsNotCanceled` is violated |
| `OffsetOverError` | `MCNotify` | Is everything committed handled? | no: `CommittedWereHandled` is violated |
| `PoisonRecord` | `MCNotify` | Is every record attempted when the clock may tick inside a publish? | no: `RecordsAttempted` is violated |
| `AcceptedUnsent` | `MCNotify` | Is an accepted message dispatched? | no: `AcceptedIsDispatched` is violated |
| `Process` | `MCProcess` | With a pool that is large enough, does nobody wait for good, is nothing closed that is used, and no record read before its handler is there? | `TypeOK`, `NoCircularWait`, `UsedIsOpen`, `RegisteredBeforeConsumed`, `WaitersServed` hold |
| `PoolExhausted` | `MCProcess` | And with as many connections as mail handlers? | two handlers wait for each other: `FailuresAreStored` is violated |
| `NotifyServer` | `MCNotifyServer` | What does a client know that got the status of its call, is what was scheduled dispatched in time, do chunks and pages leave out nothing? | `TypeOK`, `ChunksPartition`, `UnconfirmedAtMostOne`, `DispatchedInTime`, `PagesMissNothing` hold |
| `ScheduleEdge` | `MCNotifyServer` | Is every time the validator accepts one the cron job gets to? | no: `AcceptedIsDispatchedInTime` is violated |

**Bounds of `Notify`.** Two queues are enough for a message to be partly sent, for
one record's commit to cover another, and for a neighbour's result to reach a row;
two workers for a handler to outlive its session; two cron processes for an overlap;
two attempts, of which the first is appended and not acknowledged, for the product in
`DispatchBounded` to show (a resend inside one call, `MaxCopies` above 1, adds records
in the same way; no run has it, the theorem has any number). One
semaphore slot in `NotifyCron` and `NotifyLive` makes the second goroutine wait. One
fault lets each error path happen once; `NotifyLive` has two, so a handler may fail
after a rebalance. `NotifyCron` has no workers, which write no record and nothing that
sending depends on. No run has cancellations and cron processes at once; that they
interleave is in the model, and the theorems below, which bound neither, cover it.

**Bounds of `NotifyServer`.** One unary call and one stream with two messages
between them: a stream that stores its second message, two calls whose ids and
commits cross, a cancellation of one row while the other is read. Pages of one row
make every insert and cancellation cross a page border. The limit of two ticks with
a run of the job in every tick puts due times inside the limit and at its end, and
three ticks let both pass; no request is taken so late that the bound of time cuts
off its limit. Four and five receivers against limits of a batch of 1 to 6 give
exact multiples, remainders, one receiver each and a batch that is larger than all.
`ScheduleEdge` has a run only every second tick, as the job then misses the one
instant at which such a message is due and in the window.

**Bounds of `Process`.** A request, an SMS handler, two mail handlers and a job, of
which the program that was started uses its own. Two mail handlers are enough for a
circular wait; three connections are one more than the callers that nest in a
worker, and fewer than it may ask for. `PoolExhausted` has two.

**Deadlock** is not checked, because each of the systems may rest: with every request
answered, every record read and the budget of faults used; with every call ended and
the time used up; with the process exited.

**Fairness of `Notify`.** `NotifyLive` and `PoisonRecord` assume weak fairness of
each caller's `HandleEnqueue`, of the cron job's `Execute`, of each handler and of
the assignment of a free partition. A goroutine that can go on does; the producer
and the database answer within their timeouts; the cron job is started again by its
schedule (and a crashed one with the next); the group coordinator hands out free
partitions; a worker that died is restarted by whoever runs it, as the process
itself does not survive. Nothing is assumed of a client, of a cancellation, of a
fault, of a provider's answer or of the clock. In `DueIsDispatched` a message may
also leave the window. `RecordsAttempted` is stated for a system without cancellations and
without late ids (`Cancelable` and `ClockCrossing` of `NotifyLive`): with either of
them a record's queue may not be found, and that ends every worker that reads it.

**Fairness of the pool.** `WaitersServed` and `PoolExhausted` assume strong fairness
of `Grant` and `GrantInside`, since `database/sql` hands a free connection to a waiter
picked at random, so none is passed over forever; strong fairness of `Release` and
weak fairness of `ReleaseInside`, since the database answers and a transaction runs
finitely many statements. That the violation in `PoolExhausted` remains under it shows
that no luck with the order of the waiters helps. Nothing is assumed of the start, the
calls and the stop of a process.

**Symmetry** is used for workers and for cron processes in safety runs only.

**Other assumptions.** Something outside the repository starts the cron job;
`DispatchedInTime` takes for granted a run that reaches the database in every
`Period`, and `Tick` waits for it. The reader of pages sorts by a column that is
unique and does not change. All clocks are in UTC, as the containers are by default:
the code compares `scheduled_at`, which it converts to UTC, with local times. `JobFails` may end the cron process at any step of the
job, although only the first query's error does.

## Findings

1. `CancelSent`: the check of `CancelScheduledByMessageId` (`notify.go:261`) refuses
   the status `enqueued` only, so a message that is being sent or was sent can be
   canceled; its rows are then soft-deleted.
2. `OffsetOverError`: a record whose handler failed is covered by the commit of the
   next one (`consumer.go:54`), although nothing retried it.
3. `PoisonRecord`: `prepareTargetsAndQueues` reads the clock before it generates ids
   (`notify.go:166`, `:180`); if the millisecond changes in between, no worker finds
   the queue and each one exits on the record. The record of a message that was
   canceled after its dispatch and before a worker fetched it has the same end.
4. `AcceptedUnsent`: `HandleEnqueue` returns no error when sends failed
   (`notify.go:415-425`), and nothing takes those queues up again, although the table
   `notify.queues` is there to ensure reliable delivery
   (`docs/notify-service-table-schema.md:69`).
5. `PoolExhausted`: the mail handler stores its failure event with `h.db` inside the
   transaction of the result (`mail.go:181`), and so needs a second connection; as
   many failures at once as there are connections, and all of them wait for good.
6. `ScheduleEdge`: the cron job reads messages created within the last
   `ScheduleLimitDays` (`dispatch_scheduled_messages.go:45`), the validator accepts
   times up to as many days ahead (`validator.go:58`). A message for the end of the
   limit is in the window at one instant only, and is then left scheduled.

## Proofs

TLAPS checks every proof, for all values of the constants that meet the named
assumptions (`DataAssumption`, `ServiceAssumption`, `WorkerAssumption`,
`PoolAssumption`, `ServerAssumption`, and for `SendersNeverStuck` also
`TopicAssumption`, that each kind of message has a partition). Every invariant and
every action property of a passing run is the property of a theorem; `NoCircularWait`,
which is not so for every pool, is proved with the exceptions named below.

*Types.* `NotifyProofs` proves `Spec => []TypeOK` (`TypeCorrect`). `TypeOK` is
inductive as it stands, because it carries the facts its own steps need: a handler
at work holds an offset of its partition's log, a goroutine that sends has a
partition, a cron process that dispatches has a message. `LogGrows` carries the first
of these over the steps of the service, which only append. Every other proof about
`Notify` rests on it.

*The group.* `NotifyGroupProofs` proves `CommittedAccounted` and
`CommitNeverMovesBack`. Neither is inductive: what a commit sends is the session's
marks. `SessionInv` adds, for each owned partition, that everything below the record
its owner is at (`Reached`) was attempted, that the mark is of a handled record below
it, and that the commit is not above the mark. A handler left over from an earlier
session needs no clause: it is not the owner's, because a worker with such a handler
is assigned nothing.

*Rows.* `NotifyRowsProofs` proves `CancelAllOrNothing` from `RowsInv`: the rows of a
message are all absent, all visible or all canceled, and absent while the request
has not inserted them. Every update other than the insert and the cancellation
changes visible rows only, and leaves them visible (`Updated`).

*Statuses.* `NotifyStatusProofs` proves `EnqueuedInTopic`, `OutcomeNeedsCall` and
`OutcomeHasEvent`. The argument has two halves. Whoever writes a status has the fact
behind it in hand: `SendInv` says that a goroutine whose send was acknowledged has a
record in the topic, `ClaimInv` that a handler with an answer has called the
provider and loaded only the targets of its queue, and the transaction that stores
its outcome stores the event with it. And topics, calls and events only grow.
`StepLabels` says, once for all actions, that a row keeps its status or gets one from
such a writer.

*Dispatch.* `NotifyDispatchProofs` proves `DispatchedIsMarked`, `ErrorSendsNothing`
and `CanceledStaysOut`. `DispatchInv` says that the message of a caller that sends,
and of every record in a topic, has left `pending` and `scheduled`. `ErrorInv` says
that a message whose request has not come to its sends, or ended with an error, is in
no cron process's hands and in no topic (`HeldBack`) unless it was due, and becomes
due only where the request has ended: such a message may be `scheduled`, by an insert
that was committed and not confirmed. For
`CanceledStaysOut` a deleted queue stays deleted, and a handler gets hold of a queue
only by a query that does not see deleted rows.

*How often.* `DispatchBounded` counts, and what it counts grows with every send, so
its invariant counts what can still come as well. `Tokens(q)` has one token for each
copy of each attempt that some caller which has the message in hand or on its list has
left; `BoundInv` says that records and tokens together are at most `MaxDispatches`.
A send adds no more records than it spends tokens (`BoundStep`). New tokens come only
with a request's insert and with a cron run's selection, and a message is not taken up
so once it is in a topic (`TokensShrink`), which follows from `DispatchedIsMarked`,
`ErrorInv` and the end of a request being final (`EndsStay`). While there is no record yet, `FewTokens` is bound enough: `OwnerInv` says
that a message is either its request's or the cron processes', as one published for now
is never selected, and the tokens of either are at most `MaxDispatches`. A partition
therefore holds at most `MaxRecords` records, up to which `RecordsAttempted` counts.

*Sending.* `RetryInv` says that a goroutine at work has an attempt left. It gives
`SendersNeverStuck`, as a slot is taken only by a goroutine at work, and, with what each
action may do to a goroutine (`SendChanges`), `SendsGoForward`. The two are the safety
half of `EnqueueReturns`: until it is through, `HandleEnqueue` has a step of its own,
and each takes one of its queues up in `Stage`, which ends at `MaxRetries + 1`. What
remains to be assumed is that such a step is taken.

*Refinement.* `NotifyRefinementProofs` proves `Spec => ImplementsLifecycle`: each
transaction of `Notify` is one step of `Lifecycle`, every other step a stutter. The
abstract specification knows no soft-delete mark; `HonestInv` says that a row is
marked exactly when its status is `canceled`, so an update of the visible rows is
one of the rows not canceled. The guards of the abstract steps come from the
invariants above.

*Processes.* `ProcessProofs` proves `TypeOK`, `UsedIsOpen` and
`RegisteredBeforeConsumed`, and of the pool `PoolStuckOnlyByNesting`: for every size
of it, `NoCircularWait` fails in two situations only (`TakenByNesting`), in a worker
as many mail handlers of which as there are connections are storing a failed result,
and in a cron process with a single connection. The server has neither. The argument
counts (`PoolWithin`): connections in use are never more than there are, and if all
who hold one wait, each of them nests and has exactly one. Nothing in the code keeps
a worker out of the first situation, and its defaults (5 connections, 24 partitions
of mail) allow it; `PoolExhausted` shows it. `Process.cfg` has a pool that excludes
it, as `NoCircularWait` and `WaitersServed` hold there without exception.

*Server.* `NotifyServerProofs` proves `TypeOK`, `UnconfirmedAtMostOne` (what a call
has stored and not handed to the transport is the message it is at, and with the
status the client has all that was handed over) and `DispatchedInTime`, from
`Timely`: the last run is at most a period ago, and came before a message that is
still scheduled was due. `ChunksPartition` is a fact about `ChunkArray` for every sequence
and every limit (`ChunkArrayCuts`): by division each receiver is in one chunk, at one
place. `PagesMissNothing` follows from `PagesInv`, that a row still unseen is listed and
has a rank at or behind the offset to be read next. Ranks only grow, because the query
counts deleted rows in and so a listed row stays listed (`ListedStays`), and a page that
is not full has no row behind it (`PageIsFull`), because ranks leave no gap (`RankOnto`).

Model-checked only: liveness (`EnqueueReturns`, `RecordsAttempted`, `DueIsDispatched`,
`WaitersServed`), as fairness and `ENABLED` are beyond the prover. For the first of them
*Sending* above proves all but the last step, and for the last `PoolStuckOnlyByNesting`
proves where nobody can go on. The violations are TLC's.

## Not modelled

- Encryption and hashing of receivers, the HTTP client's set-up, configuration:
  no state depends on them. The configured numbers are constants of the modules.
- Generated protobuf code, which is more than a third of the lines of `src/`.
- The text of Mitake's answer and its table of codes (`mitake.go`), which decide
  which of the answers in `SmsAnswers` a handler gets; the handlers are checked with
  every one. What Mitake writes before its first section, and what a provider does
  with a request without receivers, cannot be known from the repository.
- Ids of two processes that collide because all generate as node 1. The second insert
  is refused, and this is modelled as any database error is (`PublishFails`,
  `HandlerError`); how often it happens is a matter of the deployment.
- The page offset's 32-bit arithmetic, which overflows only for pages no reader
  reaches by following them, and a sort by a column that is not unique, which is the
  client's choice.
- A provider that never answers. The code gives it no timeout; `NotifyLive` assumes an
  answer, and `Process` has the shutdown that then runs into its 15 seconds.

What could be done next: Mitake's answer, section by
section, with a fixed set of answers taken from its documentation; two instances of
the id generator with the same node number.
