------------------------------- MODULE Notify -------------------------------
(***************************************************************************)
(* The notify service: server, cron job and worker processes over one      *)
(* database and one pair of topics, each process taking its own steps.     *)
(***************************************************************************)
EXTENDS NotifyService, NotifyWorker

vars == <<dbVars, log, faults, serviceVars, workerVars>>

Init == DbInit /\ ServiceInit /\ WorkerInit

Next ==
    \/ ServiceNext /\ UNCHANGED workerVars
    \/ WorkerNext /\ UNCHANGED serviceVars

Spec == Init /\ [][Next]_vars

FairSpec == Spec /\ ServiceFairness /\ WorkerFairness

-----------------------------------------------------------------------------
(* Every variable stays in its type.                                       *)
TypeOK == DbTypeOK /\ ServiceTypeOK /\ WorkerTypeOK

(* What is in a topic was committed to the database first, and is out of   *)
(* the cron job's reach: its message is neither pending nor scheduled.     *)
DispatchedIsMarked ==
    \A q \in Queues :
        InTopic(q) => messages[MessageId[q]].status \notin {"absent", "pending", "scheduled"}

(* A row says "enqueued" only if Kafka holds a record for it, whatever the *)
(* mix of acknowledged, failed and half-failed sends of HandleEnqueue.     *)
EnqueuedInTopic ==
    /\ \A q \in Queues : queues[q].status = "enqueued" => InTopic(q)
    /\ \A t \in Targets : targets[t].status = "enqueued" => InTopic(QueueId[t])
    /\ \A m \in Messages :
          messages[m].status = "enqueued" => \E q \in QueuesOf(m) : InTopic(q)

(* No row shows an outcome before a provider was called with its queue:    *)
(* neither a failed update, a crash nor a neighbour's result sets one.     *)
OutcomeNeedsCall ==
    /\ \A q \in Queues : queues[q].status \in {"success", "failed"} => q \in handed
    /\ \A t \in Targets : targets[t].status \in {"sent", "failed", ""} => QueueId[t] \in handed
    /\ \A m \in Messages :
          messages[m].status \in {"sent", "failed"} => \E q \in QueuesOf(m) : q \in handed

(* The audit trail: a queue shown as successful has its "sent" event, a    *)
(* mail queue shown as failed its "failed" event.                          *)
OutcomeHasEvent ==
    \A q \in Queues :
        /\ queues[q].status = "success" => "sent" \in events[q]
        /\ queues[q].status = "failed" /\ TypeOf(q) = "mail" => "failed" \in events[q]

(* A cancellation takes the message, its queues and its targets together,  *)
(* and no worker or caller still at work revives or relabels one of them.  *)
CanceledRow(row) == row = [status |-> "canceled", deleted |-> TRUE]

CancelAllOrNothing ==
    /\ \A m \in Messages :
          \/ /\ CanceledRow(messages[m])
             /\ \A q \in QueuesOf(m) : CanceledRow(queues[q])
             /\ \A t \in TargetsOf(QueuesOf(m)) : CanceledRow(targets[t])
          \/ /\ ~messages[m].deleted
             /\ \A q \in QueuesOf(m) : ~queues[q].deleted
             /\ \A t \in TargetsOf(QueuesOf(m)) : ~targets[t].deleted

(* A request that was answered with an error has put nothing in a topic,   *)
(* nor did anyone for it: if its insert was committed all the same, only   *)
(* the cron job takes the message up, and only once it was due.            *)
ErrorSendsNothing ==
    \A m \in Messages :
        pc[m] = "error" /\ phase[m] = "early" => \A q \in QueuesOf(m) : ~InTopic(q)

MaxDispatches == MaxRetries * MaxCopies * (IF Crons = {} THEN 1 ELSE Cardinality(Crons))

(* However often calls are retried, processes crash and cron runs overlap, *)
(* a queue gets into the topic a bounded number of times: withRetry's      *)
(* attempts, once for each process that may dispatch it.                   *)
DispatchBounded ==
    \A q \in Queues : Cardinality(Records(q)) <= MaxDispatches

(* Before all queues of a message are done, HandleEnqueue has a step to    *)
(* take, and one that needs nobody else: a goroutine with an attempt left, *)
(* or one to start for which there is a slot and a partition.              *)
CanSend(c) ==
    \E q \in JobQueues(c) :
        \/ send[c][q].st = "trying" /\ send[c][q].tries < MaxRetries
        \/ send[c][q].st = "none" /\ SlotFree(c) /\ PartitionsOf(TypeOf(q)) # {}
SendersNeverStuck ==
    \A c \in Callers : pc[c] = "send" => AllSent(c) \/ CanSend(c)

(* And every step it takes there brings a goroutine further: none is       *)
(* started twice, and no attempt is forgotten.                             *)
Stage(c, q) ==
    CASE send[c][q].st = "none" -> 0
      [] send[c][q].st = "trying" -> send[c][q].tries + 1
      [] OTHER -> MaxRetries + 1
SendsGoForward ==
    [][\A c \in Callers, q \in Queues :
        pc[c] = "send" /\ pc'[c] = "send" =>
            send'[c][q] = send[c][q] \/ Stage(c, q)' > Stage(c, q)]_vars

(* The committed offset never covers a record no handler has finished with *)
(* (whether it returned an error or not), and is itself that of a record   *)
(* handled without error: nothing is skipped unseen across rebalances,     *)
(* crashes and lost commits.                                               *)
CommittedAccounted ==
    \A p \in Partitions :
        /\ \A i \in 1 .. committed[p] : i \in handled[p] \cup errored[p]
        /\ committed[p] > 0 => committed[p] \in handled[p]

(* A handler that outlived its session does not move the group back.       *)
CommitNeverMovesBack ==
    [][\A p \in Partitions : committed'[p] >= committed[p]]_vars

(* Once a message is canceled, what no handler has fetched stays so: no    *)
(* provider is ever called for it, whatever lies in the topic.             *)
Held(q) ==
    \E w \in Workers, p \in Partitions : Busy(w, p) /\ Claimed(w, p) = q
Out(q) == queues[q].deleted /\ q \notin handed /\ ~Held(q)
CanceledStaysOut ==
    [][\A q \in Queues : Out(q) => Out(q)']_vars

-----------------------------------------------------------------------------
(* HandleEnqueue returns: its semaphore and its wait group are never held  *)
(* for good, whatever the broker does.                                     *)
Enqueuing(c) == pc[c] \in {"process", "send"}
EnqueueReturns == \A c \in Callers : Enqueuing(c) ~> ~Enqueuing(c)

(* Every record is handled, or its handler returns an error: rebalances,   *)
(* crashes and lost commits leave none behind.  By DispatchBounded a       *)
(* partition holds no more than MaxRecords of them.                        *)
MaxRecords == MaxDispatches * Cardinality(Queues)
Attempted(p, i) == i \in handled[p] \cup errored[p]
RecordsAttempted ==
    \A p \in Partitions, i \in 1 .. MaxRecords : i \in Offsets(p) ~> Attempted(p, i)

(* A scheduled message that is due does not stay scheduled while it is in  *)
(* the window the cron job looks at.                                       *)
Due(m) == messages[m].status = "scheduled" /\ phase[m] = "due"
DueIsDispatched == \A m \in Messages : Due(m) ~> ~Due(m)

-----------------------------------------------------------------------------
(* What the repository says and the code does not keep; each is checked by *)
(* a run that finds it violated.                                           *)

(* notify.proto: the Cancel call cancels a scheduled ("預約") message; one    *)
(* that is sent is no longer that.                                         *)
SentIsNotCanceled ==
    [][\A m \in Messages :
        messages[m].status = "sent" => ~messages'[m].deleted]_vars

(* consumer.go: the offset is marked after the message was handled         *)
(* successfully, so what the group has committed was handled.              *)
CommittedWereHandled ==
    \A p \in Partitions : \A i \in 1 .. committed[p] : i \in handled[p]

(* The table schema: notify.queues manages the state of sending and        *)
(* ensures reliable delivery.  A request answered without an error is      *)
(* scheduled, canceled or in the topic.                                    *)
AcceptedIsDispatched ==
    \A m \in Messages :
        pc[m] = "ok" =>
            \/ messages[m].status \in {"scheduled", "canceled"}
            \/ \E c \in Crons : job[c] = m
            \/ \A q \in QueuesOf(m) : InTopic(q)
=============================================================================
