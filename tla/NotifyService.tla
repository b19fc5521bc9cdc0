--------------------------- MODULE NotifyService ---------------------------
(***************************************************************************)
(* The producing half: the gRPC server's publish and cancel calls and the  *)
(* cron job, all built on NotifyService (internal/services/notify.go).     *)
(*                                                                         *)
(* A caller runs HandleEnqueue: one request per message (so a request is   *)
(* named by the message it publishes) or one cron process.  Its goroutines *)
(* are the rows of send[c].  A cron process may run Execute again, and     *)
(* nothing keeps two of them apart.                                        *)
(*                                                                         *)
(* A transaction returns an error when it was rolled back, but also when   *)
(* it was committed and the confirmation did not arrive (the connection    *)
(* broke, the request's context was cancelled): an error branch therefore  *)
(* leaves the tables as they were, or as the transaction left them.        *)
(***************************************************************************)
EXTENDS NotifyDb

CONSTANTS
    Crons,          \* cron processes
    MaxRetries,     \* calls of SendMessage that withRetry makes: 3
    MaxCopies,      \* records one call may append: the producer resends on a lost ack
    MaxInFlight,    \* goroutines HandleEnqueue lets run at once: 10
    Cancelable,     \* bound: the messages somebody tries to cancel
    ClockCrossing   \* whether the clock may tick while prepareTargetsAndQueues runs

Callers == Messages \cup Crons

ASSUME ServiceAssumption ==
    /\ Messages \cap Crons = {}
    /\ IsFiniteSet(Crons)
    /\ MaxRetries \in Nat \ {0}
    /\ MaxCopies \in Nat \ {0}
    /\ MaxInFlight \in Nat \ {0}
    /\ Cancelable \subseteq Messages
    /\ ClockCrossing \in BOOLEAN

VARIABLES
    pc,      \* where each caller is
    job,     \* the message a cron process is dispatching
    todo,    \* the messages it selected and has not dispatched
    send,    \* the goroutine a caller runs for a queue
    gone,    \* requests whose client went away: their context is cancelled
    phase,   \* a scheduled message is "early", then "due", then "expired"
    cancel   \* the CancelScheduledByMessageId call on a message

serviceVars == <<pc, job, todo, send, gone, phase, cancel>>

RequestPC == {"new", "process", "send", "ok", "error", "crashed"}
CronPC == {"idle", "selected", "take", "process", "send"}
SendState == [st : {"none", "trying", "ok", "failed"},
              tries : 0 .. MaxRetries,
              at : Partitions \cup {Nil}]
NoSend == [st |-> "none", tries |-> 0, at |-> Nil]

ServiceTypeOK ==
    /\ pc \in [Callers -> RequestPC \cup CronPC]
    /\ \A m \in Messages : pc[m] \in RequestPC
    /\ \A c \in Crons : pc[c] \in CronPC
    /\ job \in [Crons -> Messages \cup {Nil}]
    /\ \A c \in Crons : pc[c] \in {"process", "send"} => job[c] # Nil
    /\ todo \in [Crons -> SUBSET Messages]
    /\ send \in [Callers -> [Queues -> SendState]]
    /\ \A c \in Callers, q \in Queues : send[c][q].st = "trying" => send[c][q].at # Nil
    /\ gone \subseteq Messages
    /\ phase \in [Messages -> {"early", "due", "expired"}]
    /\ cancel \in [Messages -> {"none", "checked", "done"}]

ServiceInit ==
    /\ pc = [c \in Callers |-> IF c \in Messages THEN "new" ELSE "idle"]
    /\ job = [c \in Crons |-> Nil]
    /\ todo = [c \in Crons |-> {}]
    /\ send = [c \in Callers |-> [q \in Queues |-> NoSend]]
    /\ gone = {}
    /\ phase = [m \in Messages |-> "early"]
    /\ cancel = [m \in Messages |-> "none"]

-----------------------------------------------------------------------------
(* Publishing: one transaction inserts the message, its targets and its    *)
(* queues.  Ids are generated one after the other, after created_at was    *)
(* read, so once one of them falls into a later millisecond all that       *)
(* follow do.                                                              *)

\* A request's context is the client's; the cron job's is never cancelled.
DbFails(c) == IF c \in gone THEN NoFault ELSE Fault

LateIds(m) ==
    {L \in SUBSET QueuesOf(m) :
        \A q \in L, r \in QueuesOf(m) : r > q => r \in L}

InitialStatus(scheduled) == IF scheduled THEN "scheduled" ELSE "pending"

InsertMessage(m, status) ==
    /\ messages' = Insert(messages, {m}, status)
    /\ queues' = Insert(queues, QueuesOf(m), "pending")
    /\ targets' = Insert(targets, TargetsOf(QueuesOf(m)), "pending")
    /\ \E L \in LateIds(m) :
          /\ L # {} => ClockCrossing
          /\ lateIds' = lateIds \cup L

Publish(m, scheduled) ==
    /\ pc[m] = "new"
    /\ \/ /\ m \notin gone
          /\ NoFault
          /\ InsertMessage(m, InitialStatus(scheduled))
          /\ pc' = [pc EXCEPT ![m] = IF scheduled THEN "ok" ELSE "process"]
       \/ /\ DbFails(m)
          /\ InsertMessage(m, InitialStatus(scheduled)) \/ UNCHANGED dbVars
          /\ pc' = [pc EXCEPT ![m] = "error"]
    /\ UNCHANGED <<log, job, todo, send, gone, phase, cancel>>

PublishSmsMessage(m) ==
    Type[m] = "sms" /\ \E scheduled \in BOOLEAN : Publish(m, scheduled)

PublishMailMessage(m) ==
    Type[m] = "mail" /\ \E scheduled \in BOOLEAN : Publish(m, scheduled)

-----------------------------------------------------------------------------
(* HandleEnqueue(ctx, type, queues).                                       *)

Job(c) == IF c \in Messages THEN c ELSE job[c]
JobQueues(c) == QueuesOf(Job(c))
Sending(c) == {q \in Queues : send[c][q].st = "trying"}

\* Mutation: every goroutine's queue counts as sent.
AckedOrFailed(c) == {q \in Queues : send[c][q].st \in {"ok", "failed"}}

Acked(c) == {q \in Queues : send[c][q].st = "ok"}

\* Mutation: the cron job ends like a request.
ReturnedAsRequest(c, err) == IF err THEN "error" ELSE "ok"

\* Where HandleEnqueue returns to, with or without an error.
Returned(c, err) ==
    IF c \in Crons THEN "take" ELSE IF err THEN "error" ELSE "ok"

Return(c, err) ==
    /\ pc' = [pc EXCEPT ![c] = Returned(c, err)]
    /\ job' = IF c \in Crons THEN [job EXCEPT ![c] = Nil] ELSE job
    /\ send' = [send EXCEPT ![c] = [q \in Queues |-> NoSend]]

\* Mutation: the messages are left as they are.
UpdateNoMessages(Q, status) == messages

\* The status goes to the queues, to their messages and to their targets.
UpdateMessages(Q, status) == SetStatus(messages, {MessageId[q] : q \in Q}, status)

\* Mutation: the targets are left as they are.
BatchUpdateWithoutTargets(Q, status) ==
    /\ queues' = SetStatus(queues, Q, status)
    /\ messages' = UpdateMessages(Q, status)
    /\ UNCHANGED <<targets, lateIds>>

BatchUpdateDatabase(Q, status) ==
    /\ queues' = SetStatus(queues, Q, status)
    /\ messages' = UpdateMessages(Q, status)
    /\ targets' = SetStatus(targets, TargetsOf(Q), status)
    /\ UNCHANGED lateIds

MarkProcess(c) ==
    /\ pc[c] = "process"
    /\ \/ /\ c \notin gone
          /\ NoFault
          /\ BatchUpdateDatabase(JobQueues(c), "process")
          /\ pc' = [pc EXCEPT ![c] = "send"]
          /\ UNCHANGED <<job, send>>
       \/ /\ DbFails(c)
          /\ BatchUpdateDatabase(JobQueues(c), "process") \/ UNCHANGED dbVars
          /\ Return(c, TRUE)
    /\ UNCHANGED <<log, todo, gone, phase, cancel>>

\* The loop starts a goroutine when the semaphore lets it; the record's key,
\* drawn once, decides the partition of every attempt.
\* Mutation: a goroutine whose sends failed keeps its slot.
SlotFreeLeaky(c) ==
    Cardinality({q \in Queues : send[c][q].st \in {"trying", "failed"}}) < MaxInFlight

SlotFree(c) == Cardinality(Sending(c)) < MaxInFlight

\* Mutation: the loop comes back to a queue whose sends failed.
NotSent(c, q) == send[c][q].st \in {"none", "failed"}

NotStarted(c, q) == send[c][q].st = "none"

Spawn(c, q) ==
    /\ pc[c] = "send"
    /\ q \in JobQueues(c)
    /\ NotStarted(c, q)
    /\ SlotFree(c)
    /\ \E p \in PartitionsOf(TypeOf(q)) :
          send' = [send EXCEPT ![c][q] = [st |-> "trying", tries |-> 0, at |-> p]]
    /\ NoFault
    /\ UNCHANGED <<dbVars, log, pc, job, todo, gone, phase, cancel>>

\* What withRetry does with a failed call: a cancelled context ends it.
AfterFailure(c, tries) ==
    IF tries >= MaxRetries \/ c \in gone THEN "failed" ELSE "trying"

Copies(q, n) == [i \in 1 .. n |-> q]

SendMessage(c, q) ==
    /\ send[c][q].st = "trying"
    /\ LET p == send[c][q].at
           tries == send[c][q].tries + 1
       IN  \E n \in 0 .. MaxCopies, acked \in BOOLEAN :
              /\ acked => n > 0
              /\ tries <= MaxRetries
              /\ log' = [log EXCEPT ![p] = @ \o Copies(q, n)]
              /\ send' = [send EXCEPT ![c][q] =
                    [st |-> IF acked THEN "ok" ELSE AfterFailure(c, tries),
                     tries |-> tries,
                     at |-> p]]
    /\ NoFault
    /\ UNCHANGED <<dbVars, pc, job, todo, gone, phase, cancel>>

\* The context is cancelled while withRetry waits for its next attempt.
StopRetrying(c, q) ==
    /\ send[c][q].st = "trying"
    /\ send[c][q].tries > 0
    /\ c \in gone
    /\ send' = [send EXCEPT ![c][q].st = "failed"]
    /\ NoFault
    /\ UNCHANGED <<dbVars, log, pc, job, todo, gone, phase, cancel>>

\* Mutation: HandleEnqueue returns the error of its last update.
ReportUpdateError == TRUE

\* An error of the last update is logged; HandleEnqueue returns nil.
UpdateErrorReturned == FALSE

\* wg.Wait, then one update for the acknowledged queues.
AllSent(c) == \A q \in JobQueues(c) : send[c][q].st \in {"ok", "failed"}

MarkEnqueued(c) ==
    /\ pc[c] = "send"
    /\ AllSent(c)
    /\ \/ /\ c \notin gone
          /\ NoFault
          /\ BatchUpdateDatabase(Acked(c), "enqueued")
          /\ Return(c, FALSE)
       \/ /\ DbFails(c)
          /\ BatchUpdateDatabase(Acked(c), "enqueued") \/ UNCHANGED dbVars
          /\ Return(c, UpdateErrorReturned)
    /\ UNCHANGED <<log, todo, gone, phase, cancel>>

\* The server dies inside a request, or the cron process inside Execute.
CrashCaller(c) ==
    /\ pc[c] \in {"selected", "take", "process", "send"}
    /\ Fault
    /\ pc' = [pc EXCEPT ![c] = IF c \in Crons THEN "idle" ELSE "crashed"]
    /\ job' = IF c \in Crons THEN [job EXCEPT ![c] = Nil] ELSE job
    /\ todo' = IF c \in Crons THEN [todo EXCEPT ![c] = {}] ELSE todo
    /\ send' = [send EXCEPT ![c] = [q \in Queues |-> NoSend]]
    /\ UNCHANGED <<dbVars, log, gone, phase, cancel>>

-----------------------------------------------------------------------------
(* DispatchScheduledMessagesJob.Execute.                                   *)

\* Mutation: the job does not look at the status.
SelectableAnyStatus == {m \in Messages : Visible(messages[m]) /\ phase[m] = "due"}

\* Mutation: the job looks for pending messages.
SelectablePending ==
    {m \in Messages :
        Visible(messages[m]) /\ messages[m].status = "pending" /\ phase[m] = "due"}

Selectable ==
    {m \in Messages :
        Visible(messages[m]) /\ messages[m].status = "scheduled" /\ phase[m] = "due"}

SelectScheduled(c) ==
    /\ pc[c] = "idle"
    /\ Selectable # {}
    /\ pc' = [pc EXCEPT ![c] = "selected"]
    /\ todo' = [todo EXCEPT ![c] = Selectable]
    /\ NoFault
    /\ UNCHANGED <<dbVars, log, job, send, gone, phase, cancel>>

\* Preload("Queues") is a statement of its own, which a cancellation may come
\* before: for a message without queues HandleEnqueue does nothing.
PreloadQueues(c) ==
    /\ pc[c] = "selected"
    /\ pc' = [pc EXCEPT ![c] = "take"]
    /\ todo' = [todo EXCEPT ![c] =
          {m \in @ : \E q \in QueuesOf(m) : Visible(queues[q])}]
    /\ NoFault
    /\ UNCHANGED <<dbVars, log, job, send, gone, phase, cancel>>

NextMessage(c) ==
    /\ pc[c] = "take"
    /\ \E m \in todo[c] :
          /\ job' = [job EXCEPT ![c] = m]
          /\ todo' = [todo EXCEPT ![c] = @ \ {m}]
    /\ pc' = [pc EXCEPT ![c] = "process"]
    /\ NoFault
    /\ UNCHANGED <<dbVars, log, send, gone, phase, cancel>>

FinishJob(c) ==
    /\ pc[c] = "take"
    /\ todo[c] = {}
    /\ pc' = [pc EXCEPT ![c] = "idle"]
    /\ NoFault
    /\ UNCHANGED <<dbVars, log, job, todo, send, gone, phase, cancel>>

-----------------------------------------------------------------------------
(* CancelScheduledByMessageId: the check reads the row, the transaction    *)
(* that follows does not look at it again.  Calls that are refused change  *)
(* nothing and are left out; so is a message_id that is no number, which   *)
(* ends the whole server by log.Fatalf: to the others it is a crash.       *)

CancelAllowed(m) == Visible(messages[m]) /\ messages[m].status # "enqueued"

CancelCheck(m) ==
    /\ m \in Cancelable
    /\ cancel[m] = "none"
    /\ CancelAllowed(m)
    /\ cancel' = [cancel EXCEPT ![m] = "checked"]
    /\ NoFault
    /\ UNCHANGED <<dbVars, log, pc, job, todo, send, gone, phase>>

DeleteMessage(m) ==
    /\ messages' = SoftDelete(messages, {m})
    /\ queues' = SoftDelete(queues, QueuesOf(m))
    /\ targets' = SoftDelete(targets, TargetsOf(QueuesOf(m)))
    /\ UNCHANGED lateIds

CancelCommit(m) ==
    /\ cancel[m] = "checked"
    /\ \/ /\ DeleteMessage(m)
          /\ cancel' = [cancel EXCEPT ![m] = "done"]
          /\ NoFault
       \/ /\ DeleteMessage(m) \/ UNCHANGED dbVars
          /\ cancel' = [cancel EXCEPT ![m] = "none"]
          /\ Fault
    /\ UNCHANGED <<log, pc, job, todo, send, gone, phase>>

-----------------------------------------------------------------------------
(* The environment.                                                        *)

ClientGone(m) ==
    /\ pc[m] \in {"new", "process", "send"}
    /\ m \notin gone
    /\ Fault
    /\ gone' = gone \cup {m}
    /\ UNCHANGED <<dbVars, log, pc, job, todo, send, phase, cancel>>

\* scheduled_at passes, and later created_at leaves the window the job reads.
BecomeDue(m) ==
    /\ messages[m].status = "scheduled"
    /\ phase[m] = "early"
    /\ phase' = [phase EXCEPT ![m] = "due"]
    /\ NoFault
    /\ UNCHANGED <<dbVars, log, pc, job, todo, send, gone, cancel>>

Expire(m) ==
    /\ messages[m].status = "scheduled"
    /\ phase[m] = "due"
    /\ phase' = [phase EXCEPT ![m] = "expired"]
    /\ NoFault
    /\ UNCHANGED <<dbVars, log, pc, job, todo, send, gone, cancel>>

-----------------------------------------------------------------------------
HandleEnqueue(c) ==
    \/ MarkProcess(c)
    \/ \E q \in Queues : Spawn(c, q) \/ SendMessage(c, q) \/ StopRetrying(c, q)
    \/ MarkEnqueued(c)

Execute(c) ==
    SelectScheduled(c) \/ PreloadQueues(c) \/ NextMessage(c) \/ FinishJob(c)

PublishMessage(m) == PublishSmsMessage(m) \/ PublishMailMessage(m)

ServiceNext ==
    \/ \E m \in Messages :
          \/ PublishMessage(m)
          \/ CancelCheck(m)
          \/ CancelCommit(m)
          \/ ClientGone(m)
          \/ BecomeDue(m)
          \/ Expire(m)
    \/ \E c \in Callers : HandleEnqueue(c) \/ CrashCaller(c)
    \/ \E c \in Crons : Execute(c)

\* Goroutines run, and the cron job is started again and again.
ServiceFairness ==
    /\ \A c \in Callers : WF_serviceVars(HandleEnqueue(c))
    /\ \A c \in Crons : WF_serviceVars(Execute(c))
=============================================================================
