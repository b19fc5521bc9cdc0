------------------------------ MODULE NotifyDb ------------------------------
(***************************************************************************)
(* What the processes of the notify service share: the three tables of the *)
(* "notify" schema and the Kafka topics.                                   *)
(*                                                                         *)
(* A row is its status and its soft-delete mark.  gorm adds                *)
(* "deleted_at IS NULL" to every query, preload and update of an entity    *)
(* with a gorm.DeletedAt field, so a soft-deleted row is neither read nor  *)
(* written again: Visible is that filter.  A transaction is one action     *)
(* where the code runs its statements in one Transaction closure.          *)
(***************************************************************************)
EXTENDS Naturals, Sequences, FiniteSets

CONSTANTS
    Messages,    \* rows of notify.messages
    Queues,      \* rows of notify.queues, numbered in the order their ids are generated
    Targets,     \* rows of notify.targets
    MessageId,   \* the message a queue belongs to
    QueueId,     \* the queue a target belongs to
    Type,        \* "sms" or "mail", for each message
    Partitions,  \* partitions of the two topics
    Topic,       \* the topic of a partition, named by the type it carries
    Nil,         \* no message, no partition, no worker
    MaxFaults    \* bound: faults injected in one behaviour

Types == {"sms", "mail"}

ASSUME DataAssumption ==
    /\ Queues \subseteq Nat
    /\ MessageId \in [Queues -> Messages]
    /\ QueueId \in [Targets -> Queues]
    /\ Type \in [Messages -> Types]
    /\ Topic \in [Partitions -> Types]
    /\ Nil \notin Messages \cup Partitions
    /\ MaxFaults \in Nat

\* A message must have a partition to go to.
ASSUME TopicAssumption ==
    \A m \in Messages : \E p \in Partitions : Topic[p] = Type[m]

VARIABLES
    messages, queues, targets,  \* the tables
    lateIds,   \* queues whose id holds a later millisecond than their created_at
    log,       \* the records of each partition, each naming its queue
    faults     \* faults injected so far

dbVars == <<messages, queues, targets, lateIds>>

-----------------------------------------------------------------------------
(* Rows.  "absent" stands for a row that was never inserted; "process" is  *)
(* a message and target status only because the code writes it there.      *)

MessageStatus ==
    {"absent", "pending", "scheduled", "process", "enqueued", "sent", "failed", "canceled"}
QueueStatus ==
    {"absent", "pending", "process", "enqueued", "sending", "success", "failed", "canceled"}
TargetStatus ==
    {"absent", "pending", "process", "enqueued", "sending", "sent", "failed", "canceled", ""}

Row(S) == [status : S, deleted : BOOLEAN]
NoRow == [status |-> "absent", deleted |-> FALSE]
Exists(row) == row.status # "absent"
Visible(row) == Exists(row) /\ ~row.deleted

Insert(table, K, status) ==
    [k \in DOMAIN table |->
        IF k \in K THEN [status |-> status, deleted |-> FALSE] ELSE table[k]]

\* Mutation: the update is Unscoped and reaches soft-deleted rows.
SetStatusUnscoped(table, K, status) ==
    [k \in DOMAIN table |->
        IF k \in K /\ Exists(table[k])
        THEN [table[k] EXCEPT !.status = status]
        ELSE table[k]]

\* UPDATE ... SET status = status WHERE id IN K AND deleted_at IS NULL
SetStatus(table, K, status) ==
    [k \in DOMAIN table |->
        IF k \in K /\ Visible(table[k])
        THEN [table[k] EXCEPT !.status = status]
        ELSE table[k]]

\* UPDATE ... SET status = 'canceled', deleted_at = now() WHERE ... IN K
SoftDelete(table, K) ==
    [k \in DOMAIN table |->
        IF k \in K /\ Visible(table[k])
        THEN [status |-> "canceled", deleted |-> TRUE]
        ELSE table[k]]

QueuesOf(m) == {q \in Queues : MessageId[q] = m}
TargetsOf(Q) == {t \in Targets : QueueId[t] \in Q}
TypeOf(q) == Type[MessageId[q]]

-----------------------------------------------------------------------------
(* The topics.  A record's value is the JSON of its queue, of which the    *)
(* consumer reads the id only.                                             *)

PartitionsOf(type) == {p \in Partitions : Topic[p] = type}
Offsets(p) == 1 .. Len(log[p])
InTopic(q) == \E p \in Partitions : \E i \in Offsets(p) : log[p][i] = q
Records(q) == {r \in UNION {{p} \X Offsets(p) : p \in Partitions} : log[r[1]][r[2]] = q}

-----------------------------------------------------------------------------
(* Faults: a database or broker error, a crash, a client that goes away.   *)
(* Their number is bounded, so a run sees what the code does about each.   *)

NoFault == UNCHANGED faults
Fault == faults < MaxFaults /\ faults' = faults + 1

DbTypeOK ==
    /\ messages \in [Messages -> Row(MessageStatus)]
    /\ queues \in [Queues -> Row(QueueStatus)]
    /\ targets \in [Targets -> Row(TargetStatus)]
    /\ lateIds \subseteq Queues
    /\ log \in [Partitions -> Seq(Queues)]
    /\ faults \in 0 .. MaxFaults

DbInit ==
    /\ messages = [m \in Messages |-> NoRow]
    /\ queues = [q \in Queues |-> NoRow]
    /\ targets = [t \in Targets |-> NoRow]
    /\ lateIds = {}
    /\ log = [p \in Partitions |-> <<>>]
    /\ faults = 0
=============================================================================
