------------------------ MODULE NotifyRefinementProofs ------------------------
(***************************************************************************)
(* Notify implements Lifecycle: every transaction is one step of a         *)
(* message's life, and everything else leaves the statuses, the topics and *)
(* the calls as they were.                                                 *)
(*                                                                         *)
(* Lifecycle's tables hold a status only.  What is soft-deleted in Notify  *)
(* is what says "canceled" there, and that takes an invariant of its own.  *)
(***************************************************************************)
EXTENDS NotifyRefinement, NotifyDispatchProofs

-----------------------------------------------------------------------------
(* A row that says "canceled" is one that is soft-deleted. *)
Honest(table) == \A k \in DOMAIN table : table[k].status = "canceled" => table[k].deleted

HonestInv == Honest(messages) /\ Honest(queues) /\ Honest(targets)

LEMMA UpdatesHonest ==
    ASSUME NEW D, NEW S, NEW table \in [D -> Row(S)], Honest(table), NEW K, NEW status
    PROVE  /\ status # "canceled" => Honest(SetStatus(table, K, status))
           /\ status # "canceled" => Honest(Insert(table, K, status))
           /\ Honest(SoftDelete(table, K))
<1>1. ASSUME status # "canceled" PROVE Honest(SetStatus(table, K, status))
  <2> SUFFICES ASSUME NEW k \in D, SetStatus(table, K, status)[k].status = "canceled"
               PROVE  SetStatus(table, K, status)[k].deleted
    BY DEF Honest, SetStatus
  <2>1. SetStatus(table, K, status)[k].status = table[k].status
    BY <1>1, SetStatusLabels
  <2>2. SetStatus(table, K, status)[k] = table[k]
    BY <2>1 DEF SetStatus, Row, Honest, Visible
  <2>3. QED
    BY <2>1, <2>2 DEF Honest
<1>2. ASSUME status # "canceled" PROVE Honest(Insert(table, K, status))
  BY <1>2 DEF Honest, Insert
<1>3. Honest(SoftDelete(table, K))
  BY DEF Honest, SoftDelete
<1>4. QED
  BY <1>1, <1>2, <1>3

LEMMA BatchHonest ==
    ASSUME TypeOK, HonestInv, NEW Q, NEW status, status # "canceled",
           BatchUpdateDatabase(Q, status)
    PROVE  HonestInv'
BY UpdatesHonest DEF HonestInv, BatchUpdateDatabase, UpdateMessages, TypeOK, DbTypeOK

LEMMA ResultHonest ==
    ASSUME TypeOK, HonestInv, NEW q, NEW answer \in Answer, Result(q, answer)
    PROVE  HonestInv'
<1>0. /\ messages \in [Messages -> Row(MessageStatus)]
      /\ queues \in [Queues -> Row(QueueStatus)]
      /\ targets \in [Targets -> Row(TargetStatus)]
      /\ Honest(messages) /\ Honest(queues) /\ Honest(targets)
  BY DEF TypeOK, DbTypeOK, HonestInv
<1>1. Honest(RowUpdates(answer.rows))
  <2>1. \A t \in Targets : answer.rows[t] # "canceled"
    BY WorkerAssumption DEF Answer
  <2>2. \A t \in Targets :
           \/ RowUpdates(answer.rows)[t] = targets[t]
           \/ RowUpdates(answer.rows)[t] = [targets[t] EXCEPT !.status = answer.rows[t]]
    BY <1>0 DEF RowUpdates
  <2>3. \A t \in Targets : [targets[t] EXCEPT !.status = answer.rows[t]].status = answer.rows[t]
    BY <1>0 DEF Row
  <2>4. DOMAIN RowUpdates(answer.rows) = Targets
    BY <1>0 DEF RowUpdates
  <2>5. ASSUME NEW t \in Targets, RowUpdates(answer.rows)[t].status = "canceled"
        PROVE  RowUpdates(answer.rows)[t].deleted
    <3>1. RowUpdates(answer.rows)[t] # [targets[t] EXCEPT !.status = answer.rows[t]]
      BY <2>1, <2>3, <2>5
    <3>2. RowUpdates(answer.rows)[t] = targets[t]
      BY <2>2, <3>1
    <3>3. targets[t].status = "canceled" => targets[t].deleted
      BY <1>0 DEF Honest
    <3>4. QED
      BY <2>5, <3>2, <3>3
  <2>6. QED
    BY <2>4, <2>5 DEF Honest
<1>2. ASSUME NEW queueStatus \in {"success", "failed"}, NEW messageStatus \in {"sent", "failed"},
             NEW table, Honest(table), WriteResult(q, queueStatus, messageStatus, table)
      PROVE  HonestInv'
  BY <1>0, <1>2, UpdatesHonest DEF HonestInv, WriteResult
<1>3. Honest(SetStatus(targets, TargetsOf({q}), "failed"))
  BY <1>0, UpdatesHonest
<1>4. QED
  BY <1>1, <1>2, <1>3 DEF Result, SuccessResult, FailureResult

LEMMA HonestStep ==
    ASSUME TypeOK, HonestInv, [Next]_vars
    PROVE  HonestInv'
<1>0. /\ messages \in [Messages -> Row(MessageStatus)]
      /\ queues \in [Queues -> Row(QueueStatus)]
      /\ targets \in [Targets -> Row(TargetStatus)]
      /\ Honest(messages) /\ Honest(queues) /\ Honest(targets)
  BY DEF TypeOK, DbTypeOK, HonestInv
<1>1. CASE UNCHANGED dbVars
  BY <1>1 DEF dbVars, HonestInv
<1>2. ASSUME NEW m \in Messages, PublishMessage(m)
      PROVE  HonestInv'
  <2>1. PICK scheduled \in BOOLEAN : Publish(m, scheduled)
    BY <1>2 DEF PublishMessage, PublishSmsMessage, PublishMailMessage
  <2>2. CASE InsertMessage(m, InitialStatus(scheduled))
    <3>1. InitialStatus(scheduled) # "canceled"
      BY DEF InitialStatus
    <3>2. QED
      BY <1>0, <2>2, <3>1, UpdatesHonest DEF InsertMessage, HonestInv
  <2>3. QED
    BY <1>1, <2>1, <2>2 DEF Publish
<1>3. ASSUME NEW m \in Messages, CancelCommit(m)
      PROVE  HonestInv'
  BY <1>0, <1>1, <1>3, UpdatesHonest DEF CancelCommit, DeleteMessage, HonestInv
<1>4. ASSUME NEW c \in Callers, MarkProcess(c) \/ MarkEnqueued(c)
      PROVE  HonestInv'
  BY <1>1, <1>4, BatchHonest DEF MarkProcess, MarkEnqueued
<1>5. CASE ServiceNext
  BY <1>1, <1>2, <1>3, <1>4, <1>5 DEF ServiceNext, HandleEnqueue, Execute, CancelCheck, ClientGone,
     BecomeDue, Expire, Spawn, SendMessage, StopRetrying, CrashCaller, SelectScheduled,
     PreloadQueues, NextMessage, FinishJob
<1>6. ASSUME NEW w \in Workers, NEW p \in Partitions, UpdateProcessingStatus(w, p)
      PROVE  HonestInv'
  BY <1>0, <1>1, <1>6, UpdatesHonest DEF UpdateProcessingStatus, ShowSending, HonestInv
<1>7. ASSUME NEW w \in Workers, NEW p \in Partitions, HandleSendResult(w, p)
      PROVE  HonestInv'
  <2>1. claim[w][p].answer \in Answer
    BY DEF TypeOK, WorkerTypeOK, ClaimTypeOK, Claim
  <2>2. QED
    BY <1>1, <1>7, <2>1, ResultHonest DEF HandleSendResult, RolledBack
<1>8. ASSUME NEW w \in Workers, NEW p \in Partitions, Handle(w, p)
      PROVE  HonestInv'
  <2>1. CASE Fetch(w, p) \/ FetchNothing(w, p) \/ FetchError(w, p) \/ Preload(w, p)
    BY <1>1, <2>1 DEF Fetch, FetchNothing, FetchError, Preload
  <2>2. CASE SendSms(w, p) \/ SendEmail(w, p) \/ MarkAndCommit(w, p)
    BY <1>1, <2>2 DEF SendSms, SendEmail, CallProvider, MarkAndCommit
  <2>3. QED
    BY <1>6, <1>7, <1>8, <2>1, <2>2 DEF Handle
<1>9. CASE WorkerNext
  BY <1>1, <1>8, <1>9 DEF WorkerNext, Rebalance, CrashWorker, Assign
<1>10. QED
  BY <1>1, <1>5, <1>9 DEF Next, vars

LEMMA HonestInvariant == Spec => []HonestInv
<1>1. Init => HonestInv
  BY DEF Init, DbInit, HonestInv, Honest, NoRow
<1>2. QED
  BY <1>1, HonestStep, TypeCorrect, PTL DEF Spec

-----------------------------------------------------------------------------
(* What the updates of a table are to those who read its statuses.         *)
LEMMA SetStatusRelabels ==
    ASSUME NEW D, NEW S, NEW table \in [D -> Row(S)], Honest(table),
           NEW K, NEW status, \A k \in D : k \in K => Exists(table[k]),
           \A k \in D : table[k].deleted => table[k].status = "canceled"
    PROVE  Status(SetStatus(table, K, status)) = Lifecycle!Relabel(Status(table), K, status)
<1> DEFINE new == SetStatus(table, K, status)
<1>1. DOMAIN new = D /\ DOMAIN Status(table) = D
  BY DEF SetStatus, Status
<1>2. ASSUME NEW k \in D
      PROVE  new[k].status = IF k \in K /\ table[k].status # "canceled" THEN status
                             ELSE table[k].status
  <2>1. table[k] \in Row(S) /\ (table[k].deleted <=> table[k].status = "canceled")
    BY DEF Honest, Row
  <2>2. CASE k \in K /\ Visible(table[k])
    <3>1. new[k] = [table[k] EXCEPT !.status = status]
      BY <2>2 DEF SetStatus
    <3>2. QED
      BY <2>1, <2>2, <3>1 DEF Row, Visible
  <2>3. CASE ~(k \in K /\ Visible(table[k]))
    <3>1. new[k] = table[k]
      BY <2>3 DEF SetStatus
    <3>2. QED
      BY <2>1, <2>3, <3>1 DEF Visible
  <2>4. QED
    BY <2>2, <2>3
<1> HIDE DEF new
<1>3. Status(new) = [k \in D |-> IF k \in K /\ table[k].status # "canceled" THEN status
                                 ELSE table[k].status]
  BY <1>1, <1>2 DEF Status
<1>4. Lifecycle!Relabel(Status(table), K, status)
         = [k \in D |-> IF k \in K /\ table[k].status # "canceled" THEN status
                        ELSE table[k].status]
  BY <1>1 DEF Status, Lifecycle!Relabel
<1>5. QED
  BY <1>3, <1>4 DEF new

LEMMA InsertRelabels ==
    ASSUME NEW D, NEW S, NEW table \in [D -> Row(S)],
           NEW K, NEW status, \A k \in D : k \in K => table[k].status # "canceled"
    PROVE  Status(Insert(table, K, status)) = Lifecycle!Relabel(Status(table), K, status)
<1>1. Status(Insert(table, K, status))
         = [k \in D |-> IF k \in K THEN status ELSE table[k].status]
  <2>1. /\ DOMAIN Insert(table, K, status) = D
        /\ \A k \in D : Insert(table, K, status)[k].status
                           = IF k \in K THEN status ELSE table[k].status
    BY DEF Insert
  <2>2. QED
    BY <2>1 DEF Status
<1>2. Lifecycle!Relabel(Status(table), K, status)
         = [k \in D |-> IF k \in K THEN status ELSE table[k].status]
  BY DEF Status, Lifecycle!Relabel
<1>3. QED
  BY <1>1, <1>2

LEMMA SoftDeleteRelabels ==
    ASSUME NEW D, NEW S, NEW table \in [D -> Row(S)],
           NEW K, \A k \in D : k \in K => Visible(table[k])
    PROVE  Status(SoftDelete(table, K)) = Lifecycle!Relabel(Status(table), K, "canceled")
<1>1. /\ DOMAIN SoftDelete(table, K) = D
      /\ \A k \in D : SoftDelete(table, K)[k].status
                         = IF k \in K THEN "canceled" ELSE table[k].status
  BY DEF SoftDelete
<1>2. Status(SoftDelete(table, K))
         = [k \in D |-> IF k \in K THEN "canceled" ELSE table[k].status]
  BY <1>1 DEF Status
<1>3. Lifecycle!Relabel(Status(table), K, "canceled")
         = [k \in D |-> IF k \in K THEN "canceled" ELSE table[k].status]
  BY DEF Status, Lifecycle!Relabel
<1>4. QED
  BY <1>2, <1>3

(* The rows of a message exist together, and say "canceled" when they are  *)
(* soft-deleted.                                                           *)
LEMMA RowsKnown ==
    ASSUME TypeOK, RowsInv, HonestInv
    PROVE  /\ \A m \in Messages : messages[m].deleted <=> messages[m].status = "canceled"
           /\ \A q \in Queues :
                 /\ queues[q].deleted <=> queues[q].status = "canceled"
                 /\ Exists(queues[q]) <=> Exists(messages[MessageId[q]])
           /\ \A t \in Targets :
                 /\ targets[t].deleted <=> targets[t].status = "canceled"
                 /\ Exists(targets[t]) <=> Exists(queues[QueueId[t]])
<1> USE DataAssumption
<1>1. \A m \in Messages : messages[m].deleted <=> messages[m].status = "canceled"
  BY DEF TypeOK, DbTypeOK, Row, HonestInv, Honest, RowsInv, Together, Absent, Live, Canceled,
     CanceledRow, NoRow, Visible
<1>2. ASSUME NEW q \in Queues
      PROVE  /\ queues[q].deleted <=> queues[q].status = "canceled"
             /\ Exists(queues[q]) <=> Exists(messages[MessageId[q]])
  <2>1. q \in QueuesOf(MessageId[q]) /\ Together(MessageId[q])
    BY DEF QueuesOf, RowsInv
  <2>2. queues[q].status = "canceled" => queues[q].deleted
    BY DEF TypeOK, DbTypeOK, HonestInv, Honest
  <2>3. queues[q] \in Row(QueueStatus)
    BY DEF TypeOK, DbTypeOK
  <2>4. QED
    BY <2>1, <2>2, <2>3 DEF Together, Absent, Live, Canceled, CanceledRow, NoRow, Visible, Exists, Row
<1>3. ASSUME NEW t \in Targets
      PROVE  /\ targets[t].deleted <=> targets[t].status = "canceled"
             /\ Exists(targets[t]) <=> Exists(queues[QueueId[t]])
  <2>1. LET m == MessageId[QueueId[t]]
        IN  /\ QueueId[t] \in QueuesOf(m) /\ t \in TargetsOf(QueuesOf(m))
            /\ Together(m)
    BY DEF QueuesOf, TargetsOf, RowsInv
  <2>2. targets[t].status = "canceled" => targets[t].deleted
    BY DEF TypeOK, DbTypeOK, HonestInv, Honest
  <2>3. targets[t] \in Row(TargetStatus)
    BY DEF TypeOK, DbTypeOK
  <2>4. QED
    BY <2>1, <2>2, <2>3 DEF Together, Absent, Live, Canceled, CanceledRow, NoRow, Visible, Exists, Row
<1>4. QED
  BY <1>1, <1>2, <1>3

(* The update of a table's rows for some of the queues.                    *)
LEMMA TablesRelabelled ==
    ASSUME TypeOK, RowsInv, HonestInv, NEW Q \in SUBSET Queues, NEW status,
           \A q \in Q : Exists(messages[MessageId[q]])
    PROVE  /\ Status(SetStatus(queues, Q, status)) = Lifecycle!Relabel(Status(queues), Q, status)
           /\ Status(SetStatus(targets, TargetsOf(Q), status))
                 = Lifecycle!Relabel(Status(targets), Lifecycle!TargetsIn(Q), status)
           /\ Status(SetStatus(messages, {MessageId[q] : q \in Q}, status))
                 = Lifecycle!Relabel(Status(messages), {MessageId[q] : q \in Q}, status)
<1>0. /\ messages \in [Messages -> Row(MessageStatus)]
      /\ queues \in [Queues -> Row(QueueStatus)]
      /\ targets \in [Targets -> Row(TargetStatus)]
      /\ Honest(messages) /\ Honest(queues) /\ Honest(targets)
  BY DEF TypeOK, DbTypeOK, HonestInv
<1>1. /\ \A q \in Queues : queues[q].deleted => queues[q].status = "canceled"
      /\ \A t \in Targets : targets[t].deleted => targets[t].status = "canceled"
      /\ \A m \in Messages : messages[m].deleted => messages[m].status = "canceled"
  BY RowsKnown
<1>2. \A q \in Queues : q \in Q => Exists(queues[q])
  BY RowsKnown
<1>3. \A t \in Targets : t \in TargetsOf(Q) => Exists(targets[t])
  BY <1>2, RowsKnown DEF TargetsOf
<1>4. \A m \in Messages : m \in {MessageId[q] : q \in Q} => Exists(messages[m])
  OBVIOUS
<1>5. Lifecycle!TargetsIn(Q) = TargetsOf(Q)
  BY DEF Lifecycle!TargetsIn, TargetsOf
<1>6. Status(SetStatus(queues, Q, status)) = Lifecycle!Relabel(Status(queues), Q, status)
  BY <1>0, <1>1, <1>2, SetStatusRelabels
<1>7. Status(SetStatus(targets, TargetsOf(Q), status))
         = Lifecycle!Relabel(Status(targets), TargetsOf(Q), status)
  BY <1>0, <1>1, <1>3, SetStatusRelabels
<1>8. Status(SetStatus(messages, {MessageId[q] : q \in Q}, status))
         = Lifecycle!Relabel(Status(messages), {MessageId[q] : q \in Q}, status)
  BY <1>0, <1>1, <1>4, SetStatusRelabels
<1>9. QED
  BY <1>5, <1>6, <1>7, <1>8

-----------------------------------------------------------------------------
(* Steps that Lifecycle does not see.                                      *)
LEMMA Stutters ==
    ASSUME UNCHANGED <<messages, queues, targets, log, handed>>
    PROVE  UNCHANGED Lifecycle!vars
BY DEF Lifecycle!vars, Lifecycle!tables, Status, InTopic, Offsets

LEMMA TopicStays ==
    ASSUME UNCHANGED log
    PROVE  UNCHANGED {q \in Queues : InTopic(q)}
BY DEF InTopic, Offsets

(* A request's insert.                                                     *)
LEMMA PublishAccepts ==
    ASSUME TypeOK, RowsInv, NEW m \in Messages, PublishMessage(m), UNCHANGED workerVars
    PROVE  [Lifecycle!Next]_(Lifecycle!vars)
<1>0. /\ messages \in [Messages -> Row(MessageStatus)]
      /\ queues \in [Queues -> Row(QueueStatus)]
      /\ targets \in [Targets -> Row(TargetStatus)]
  BY DEF TypeOK, DbTypeOK
<1>1. PICK scheduled \in BOOLEAN : Publish(m, scheduled)
  BY DEF PublishMessage, PublishSmsMessage, PublishMailMessage
<1>2. CASE UNCHANGED dbVars
  BY <1>1, <1>2, Stutters DEF Publish, dbVars, workerVars
<1>3. CASE InsertMessage(m, InitialStatus(scheduled))
  <2>0. /\ messages' = Insert(messages, {m}, InitialStatus(scheduled))
        /\ queues' = Insert(queues, QueuesOf(m), "pending")
        /\ targets' = Insert(targets, TargetsOf(QueuesOf(m)), "pending")
    BY <1>3 DEF InsertMessage
  <2>1. Absent(m)
    BY <1>1 DEF Publish, RowsInv
  <2>2. /\ Status(messages)[m] = "absent"
        /\ Status(messages') = [Status(messages) EXCEPT ![m] = InitialStatus(scheduled)]
    <3> DEFINE status == InitialStatus(scheduled)
    <3>1. /\ DOMAIN messages' = Messages
          /\ \A n \in Messages : messages'[n].status = IF n = m THEN status ELSE messages[n].status
      BY <1>0, <2>0 DEF Insert
    <3> HIDE DEF status
    <3>2. Status(messages')
             = [n \in Messages |-> IF n = m THEN status ELSE messages[n].status]
      BY <3>1 DEF Status
    <3>3. Status(messages) = [n \in Messages |-> messages[n].status]
      BY <1>0 DEF Status
    <3>4. messages[m].status = "absent"
      BY <2>1 DEF Absent, NoRow
    <3>5. QED
      BY <3>2, <3>3, <3>4 DEF status
  <2>3. Status(queues') = Lifecycle!Relabel(Status(queues), QueuesOf(m), "pending")
    <3>1. \A q \in Queues : q \in QueuesOf(m) => queues[q].status # "canceled"
      BY <2>1 DEF Absent, NoRow
    <3>2. QED
      BY <1>0, <2>0, <3>1, InsertRelabels
  <2>4. Status(targets') = Lifecycle!Relabel(Status(targets), TargetsOf(QueuesOf(m)), "pending")
    <3>1. \A t \in Targets : t \in TargetsOf(QueuesOf(m)) => targets[t].status # "canceled"
      BY <2>1 DEF Absent, NoRow
    <3>2. QED
      BY <1>0, <2>0, <3>1, InsertRelabels
  <2>5. /\ Lifecycle!QueuesIn(m) = QueuesOf(m)
        /\ Lifecycle!TargetsIn(QueuesOf(m)) = TargetsOf(QueuesOf(m))
    BY DEF Lifecycle!QueuesIn, Lifecycle!TargetsIn, QueuesOf, TargetsOf
  <2>6. InitialStatus(scheduled) \in {"pending", "scheduled"}
    BY DEF InitialStatus
  <2>7. UNCHANGED <<log, handed>>
    BY <1>1 DEF Publish, workerVars
  <2>8. Status(messages)' = Status(messages') /\ Status(queues)' = Status(queues')
        /\ Status(targets)' = Status(targets')
    BY DEF Status
  <2>9. Lifecycle!Accept(m)
    BY <2>2, <2>3, <2>4, <2>5, <2>6, <2>7, <2>8, TopicStays DEF Lifecycle!Accept
  <2>10. QED
    BY <2>9 DEF Lifecycle!Next
<1>4. QED
  BY <1>1, <1>2, <1>3 DEF Publish

(* The two updates of HandleEnqueue.                                       *)
LEMMA BatchRelabels ==
    ASSUME TypeOK, RowsInv, HonestInv, NEW Q \in SUBSET Queues, NEW status,
           \A q \in Q : Exists(messages[MessageId[q]]), BatchUpdateDatabase(Q, status)
    PROVE  Lifecycle!RelabelAll(Q, status)
<1>1. /\ queues' = SetStatus(queues, Q, status)
      /\ messages' = SetStatus(messages, {MessageId[q] : q \in Q}, status)
      /\ targets' = SetStatus(targets, TargetsOf(Q), status)
  BY DEF BatchUpdateDatabase, UpdateMessages
<1>2. Status(messages)' = Status(messages') /\ Status(queues)' = Status(queues')
      /\ Status(targets)' = Status(targets')
  BY DEF Status
<1>3. QED
  BY <1>1, <1>2, TablesRelabelled DEF Lifecycle!RelabelAll

LEMMA InTopicExists ==
    ASSUME DispatchedIsMarked, NEW q \in Queues, InTopic(q)
    PROVE  Exists(messages[MessageId[q]])
BY DEF DispatchedIsMarked, Exists

LEMMA EnqueueRefines ==
    ASSUME TypeOK, RowsInv, HonestInv, SendInv, DispatchInv,
           NEW c \in Callers, MarkProcess(c) \/ MarkEnqueued(c), UNCHANGED workerVars
    PROVE  [Lifecycle!Next]_(Lifecycle!vars)
<1>0. UNCHANGED <<log, handed>>
  BY DEF MarkProcess, MarkEnqueued, workerVars
<1>1. CASE UNCHANGED dbVars
  BY <1>0, <1>1, Stutters DEF dbVars
<1>2. CASE MarkProcess(c) /\ BatchUpdateDatabase(JobQueues(c), "process")
  <2>1. Job(c) \in Messages /\ Exists(messages[Job(c)])
    BY <1>2, JobIsMessage DEF MarkProcess, DispatchInv, CallerInv
  <2>2. Lifecycle!RelabelAll(JobQueues(c), "process")
    BY <1>2, <2>1, BatchRelabels DEF JobQueues, QueuesOf
  <2>3. Status(messages)[Job(c)] # "absent"
    BY <2>1 DEF Status, Exists, TypeOK, DbTypeOK
  <2>4. Lifecycle!QueuesIn(Job(c)) = JobQueues(c)
    BY DEF Lifecycle!QueuesIn, JobQueues, QueuesOf
  <2>5. Lifecycle!Dispatch(Job(c))
    BY <1>0, <2>2, <2>3, <2>4, TopicStays DEF Lifecycle!Dispatch
  <2>6. QED
    BY <2>1, <2>5 DEF Lifecycle!Next
<1>3. CASE BatchUpdateDatabase(Acked(c), "enqueued")
  <2>1. \A q \in Acked(c) : q \in Queues /\ InTopic(q)
    BY DEF Acked, SendInv
  <2>2. Lifecycle!RelabelAll(Acked(c), "enqueued")
    BY <1>3, <2>1, BatchRelabels, InTopicExists DEF DispatchInv
  <2>3. Lifecycle!Acknowledge(Acked(c))
    BY <1>0, <2>1, <2>2, TopicStays DEF Lifecycle!Acknowledge
  <2>4. QED
    BY <2>1, <2>3 DEF Lifecycle!Next
<1>4. QED
  BY <1>1, <1>2, <1>3 DEF MarkProcess, MarkEnqueued

(* One record more, or none.                                               *)
LEMMA SendAppends ==
    ASSUME TypeOK, SendInv, DispatchInv, NEW c \in Callers, NEW q \in Queues,
           SendMessage(c, q), ServiceNext, UNCHANGED workerVars
    PROVE  [Lifecycle!Next]_(Lifecycle!vars)
<1>1. UNCHANGED <<messages, queues, targets, handed>>
  BY DEF SendMessage, dbVars, workerVars
<1>2. pc[c] = "send" /\ q \in JobQueues(c)
  BY DEF SendMessage, SendInv
<1>3. Marked(MessageId[q])
  BY <1>2 DEF DispatchInv, CallerInv, JobQueues, QueuesOf
<1>4. \A r \in Queues : InTopic(r) => InTopic(r)'
  BY LogGrows, StaysInTopic
<1>5. \A r \in Queues : InTopic(r)' => InTopic(r) \/ r = q
  BY OnlyItsRecord
<1>6. UNCHANGED Lifecycle!tables
  BY <1>1 DEF Lifecycle!tables, Status
<1>7. CASE InTopic(q)'
  <2>1. {r \in Queues : InTopic(r)}' = {r \in Queues : InTopic(r)} \cup {q}
    BY <1>4, <1>5, <1>7
  <2>2. Status(messages)[MessageId[q]] \notin {"absent", "pending", "scheduled"}
    BY <1>3, DataAssumption DEF Status, Marked, TypeOK, DbTypeOK
  <2>3. Lifecycle!Append(q)
    BY <1>1, <1>6, <2>1, <2>2 DEF Lifecycle!Append
  <2>4. QED
    BY <2>3 DEF Lifecycle!Next
<1>8. CASE ~InTopic(q)'
  <2>1. UNCHANGED {r \in Queues : InTopic(r)}
    BY <1>4, <1>5, <1>8
  <2>2. QED
    BY <1>1, <1>6, <2>1 DEF Lifecycle!vars
<1>9. QED
  BY <1>7, <1>8

(* A cancellation. *)
LEMMA CancelRefines ==
    ASSUME TypeOK, RowsInv, HonestInv, NEW m \in Messages, CancelCommit(m), UNCHANGED workerVars
    PROVE  [Lifecycle!Next]_(Lifecycle!vars)
<1>0. /\ messages \in [Messages -> Row(MessageStatus)]
      /\ queues \in [Queues -> Row(QueueStatus)]
      /\ targets \in [Targets -> Row(TargetStatus)]
      /\ UNCHANGED <<log, handed>>
  BY DEF TypeOK, DbTypeOK, CancelCommit, workerVars
<1>1. CASE UNCHANGED <<messages, queues, targets>>
  BY <1>0, <1>1, Stutters
<1>2. CASE DeleteMessage(m)
  <2>0. /\ messages' = SoftDelete(messages, {m})
        /\ queues' = SoftDelete(queues, QueuesOf(m))
        /\ targets' = SoftDelete(targets, TargetsOf(QueuesOf(m)))
    BY <1>2 DEF DeleteMessage
  <2>1. CASE ~Live(m)
    <3>1. /\ ~Visible(NoRow)
          /\ \A row : CanceledRow(row) => ~Visible(row)
      BY DEF Visible, Exists, NoRow, CanceledRow
    <3>2. /\ ~Visible(messages[m])
          /\ \A q \in QueuesOf(m) : ~Visible(queues[q])
          /\ \A t \in TargetsOf(QueuesOf(m)) : ~Visible(targets[t])
      BY <2>1, <3>1 DEF RowsInv, Together, Absent, Canceled
    <3>3. messages' = messages /\ queues' = queues /\ targets' = targets
      BY <1>0, <2>0, <3>2 DEF SoftDelete
    <3>4. QED
      BY <1>1, <3>3
  <2>2. CASE Live(m)
    <3>1. Status(messages') = Lifecycle!Relabel(Status(messages), {m}, "canceled")
      BY <1>0, <2>0, <2>2, SoftDeleteRelabels DEF Live
    <3>2. Status(queues') = Lifecycle!Relabel(Status(queues), QueuesOf(m), "canceled")
      BY <1>0, <2>0, <2>2, SoftDeleteRelabels DEF Live
    <3>3. Status(targets')
             = Lifecycle!Relabel(Status(targets), TargetsOf(QueuesOf(m)), "canceled")
      BY <1>0, <2>0, <2>2, SoftDeleteRelabels DEF Live
    <3>4. Status(messages)[m] \notin {"absent", "canceled"}
      BY <1>0, <2>2, RowsKnown DEF Live, Visible, Exists, Status
    <3>5. Status(messages') = [Status(messages) EXCEPT ![m] = "canceled"]
      BY <1>0, <3>1, <3>4 DEF Lifecycle!Relabel, Status
    <3>6. /\ Lifecycle!QueuesIn(m) = QueuesOf(m)
          /\ Lifecycle!TargetsIn(QueuesOf(m)) = TargetsOf(QueuesOf(m))
      BY DEF Lifecycle!QueuesIn, Lifecycle!TargetsIn, QueuesOf, TargetsOf
    <3>7. Status(messages)' = Status(messages') /\ Status(queues)' = Status(queues')
          /\ Status(targets)' = Status(targets')
      BY DEF Status
    <3>8. Lifecycle!Cancel(m)
      BY <1>0, <3>2, <3>3, <3>4, <3>5, <3>6, <3>7, TopicStays DEF Lifecycle!Cancel
    <3>9. QED
      BY <3>8 DEF Lifecycle!Next
  <2>3. QED
    BY <2>1, <2>2
<1>3. QED
  BY <1>1, <1>2 DEF CancelCommit, dbVars

LEMMA ServiceRefines ==
    ASSUME TypeOK, RowsInv, HonestInv, SendInv, DispatchInv, ServiceNext, UNCHANGED workerVars
    PROVE  [Lifecycle!Next]_(Lifecycle!vars)
<1>1. CASE UNCHANGED <<dbVars, log>>
  BY <1>1, Stutters DEF dbVars, workerVars
<1>2. ASSUME NEW c \in Callers, NEW q \in Queues, Spawn(c, q) \/ StopRetrying(c, q)
      PROVE  [Lifecycle!Next]_(Lifecycle!vars)
  BY <1>1, <1>2 DEF Spawn, StopRetrying
<1>3. ASSUME NEW m \in Messages, CancelCheck(m) \/ ClientGone(m) \/ BecomeDue(m) \/ Expire(m)
      PROVE  [Lifecycle!Next]_(Lifecycle!vars)
  BY <1>1, <1>3 DEF CancelCheck, ClientGone, BecomeDue, Expire
<1>4. ASSUME NEW c \in Callers, CrashCaller(c) \/ (c \in Crons /\ Execute(c))
      PROVE  [Lifecycle!Next]_(Lifecycle!vars)
  BY <1>1, <1>4 DEF CrashCaller, Execute, SelectScheduled, PreloadQueues, NextMessage, FinishJob
<1>5. Crons \subseteq Callers
  BY DEF Callers
<1>6. QED
  BY <1>2, <1>3, <1>4, <1>5, PublishAccepts, EnqueueRefines, SendAppends, CancelRefines
     DEF ServiceNext, HandleEnqueue

-----------------------------------------------------------------------------
(* The handlers. *)
LEMMA TakeRefines ==
    ASSUME TypeOK, RowsInv, HonestInv, DispatchInv,
           NEW w \in Workers, NEW p \in Partitions, UpdateProcessingStatus(w, p)
    PROVE  [Lifecycle!Next]_(Lifecycle!vars)
<1> DEFINE q == Claimed(w, p)
<1>0. UNCHANGED <<log, handed>>
  BY DEF UpdateProcessingStatus
<1>1. q \in Queues /\ InTopic(q)
  BY DEF UpdateProcessingStatus, TypeOK, DbTypeOK, WorkerTypeOK, ClaimTypeOK, Busy, Claimed,
     InTopic, Offsets
<1>2. CASE UNCHANGED dbVars
  BY <1>0, <1>2, Stutters DEF dbVars
<1>3. CASE ShowSending(q)
  <2> HIDE DEF q
  <2>1. Exists(messages[MessageId[q]])
    BY <1>1, InTopicExists DEF DispatchInv
  <2>2. /\ Status(queues') = Lifecycle!Relabel(Status(queues), {q}, "sending")
        /\ Status(targets') = Lifecycle!Relabel(Status(targets), Lifecycle!TargetsIn({q}), "sending")
    <3>1. {q} \in SUBSET Queues /\ \A r \in {q} : Exists(messages[MessageId[r]])
      BY <1>1, <2>1
    <3>2. QED
      BY <1>3, <3>1, TablesRelabelled DEF ShowSending
  <2>3. Status(messages)' = Status(messages) /\ Status(queues)' = Status(queues')
        /\ Status(targets)' = Status(targets')
    BY <1>3 DEF ShowSending, Status
  <2>4. Lifecycle!Take(q)
    BY <1>0, <1>1, <2>2, <2>3, TopicStays DEF Lifecycle!Take
  <2>5. QED
    BY <1>1, <2>4 DEF Lifecycle!Next
<1>4. QED
  BY <1>2, <1>3 DEF UpdateProcessingStatus

LEMMA CallRefines ==
    ASSUME TypeOK, NEW w \in Workers, NEW p \in Partitions, SendSms(w, p) \/ SendEmail(w, p)
    PROVE  [Lifecycle!Next]_(Lifecycle!vars)
<1> DEFINE q == Claimed(w, p)
<1>1. PICK answers : CallProvider(w, p, answers)
  BY DEF SendSms, SendEmail
<1>2. q \in Queues /\ InTopic(q)
  BY <1>1 DEF CallProvider, TypeOK, DbTypeOK, WorkerTypeOK, ClaimTypeOK, Busy, Claimed,
     InTopic, Offsets
<1>3. handed' = handed \cup {q} /\ UNCHANGED <<messages, queues, targets, log>>
  BY <1>1 DEF CallProvider, dbVars
<1>4. UNCHANGED Lifecycle!tables
  BY <1>3 DEF Lifecycle!tables, Status
<1> HIDE DEF q
<1>5. Lifecycle!Call(q)
  BY <1>2, <1>3, <1>4, TopicStays DEF Lifecycle!Call
<1>6. QED
  BY <1>2, <1>5 DEF Lifecycle!Next

(* The result of a call: its queue's outcome, and what the answer says of  *)
(* each receiver.                                                          *)
LEMMA ResultRefines ==
    ASSUME TypeOK, RowsInv, HonestInv, DispatchInv, ClaimInv,
           NEW w \in Workers, NEW p \in Partitions, HandleSendResult(w, p)
    PROVE  [Lifecycle!Next]_(Lifecycle!vars)
<1> DEFINE q == Claimed(w, p)
           answer == claim[w][p].answer
<1>0. /\ messages \in [Messages -> Row(MessageStatus)]
      /\ queues \in [Queues -> Row(QueueStatus)]
      /\ targets \in [Targets -> Row(TargetStatus)]
      /\ UNCHANGED <<log, handed>>
  BY DEF TypeOK, DbTypeOK, HandleSendResult
<1>1. /\ q \in Queues /\ InTopic(q)
      /\ answer \in Answer
  BY DEF HandleSendResult, TypeOK, DbTypeOK, WorkerTypeOK, ClaimTypeOK, Busy, Claimed, Claim,
     InTopic, Offsets
<1>2. /\ q \in handed
      /\ \A t \in Targets : answer.rows[t] # "none" => QueueId[t] = q
  BY DEF HandleSendResult, ClaimInv, AnswerInv
<1>3. UNCHANGED dbVars \/ Result(q, answer)
  BY DEF HandleSendResult, RolledBack
<1> HIDE DEF q, answer
<1>4. CASE UNCHANGED dbVars
  BY <1>0, <1>4, Stutters DEF dbVars
<1>5. /\ {q} \in SUBSET Queues
      /\ \A r \in {q} : Exists(messages[MessageId[r]])
      /\ {MessageId[r] : r \in {q}} = {MessageId[q]}
  BY <1>1, InTopicExists DEF DispatchInv
<1>6. ASSUME NEW queueStatus, NEW messageStatus, NEW table,
             WriteResult(q, queueStatus, messageStatus, table)
      PROVE  /\ Lifecycle!Outcome(q, queueStatus, messageStatus)
             /\ Status(targets)' = Status(table)
  <2>1. Status(SetStatus(queues, {q}, queueStatus))
           = Lifecycle!Relabel(Status(queues), {q}, queueStatus)
    BY <1>5, TablesRelabelled
  <2>2. Status(SetStatus(messages, {MessageId[q]}, messageStatus))
           = Lifecycle!Relabel(Status(messages), {MessageId[q]}, messageStatus)
    BY <1>5, TablesRelabelled
  <2>3. /\ Status(messages)' = Status(SetStatus(messages, {MessageId[q]}, messageStatus))
        /\ Status(queues)' = Status(SetStatus(queues, {q}, queueStatus))
        /\ Status(targets)' = Status(table)
    BY <1>6 DEF WriteResult, Status
  <2>4. QED
    BY <1>0, <1>2, <2>1, <2>2, <2>3, TopicStays DEF Lifecycle!Outcome
<1>7. CASE SuccessResult(q, answer)
  <2> DEFINE new == RowUpdates(answer.rows)
  <2>1. WriteResult(q, "success", "sent", new)
    BY <1>7 DEF SuccessResult
  <2>2. Lifecycle!Outcome(q, "success", "sent") /\ Status(targets)' = Status(new)
    BY <1>6, <2>1
  <2>3. DOMAIN new = Targets
    BY <1>0 DEF RowUpdates
  <2>4. ASSUME NEW t \in Targets, new[t].status # targets[t].status
        PROVE  /\ t \in TargetsOf({q})
               /\ targets[t].status # "canceled"
               /\ new[t].status \in {"sent", "failed", ""}
    <3>1. answer.rows[t] # "none" /\ Visible(targets[t])
      BY <1>0, <2>4 DEF RowUpdates
    <3>2. new[t].status = answer.rows[t]
      <4>1. new[t] = [targets[t] EXCEPT !.status = answer.rows[t]]
        BY <1>0, <3>1 DEF RowUpdates
      <4>2. QED
        BY <1>0, <4>1 DEF Row
    <3>3. answer.rows[t] \in {"none", "sent", "failed", ""}
      BY <1>1, WorkerAssumption DEF Answer
    <3>4. targets[t].status # "canceled"
      BY <3>1, RowsKnown DEF Visible
    <3>5. QED
      BY <1>2, <3>1, <3>2, <3>3, <3>4 DEF TargetsOf
  <2> HIDE DEF new
  <2>5. /\ DOMAIN Status(targets) = Targets /\ DOMAIN Status(new) = Targets
        /\ \A t \in Targets : /\ Status(targets)[t] = targets[t].status
                              /\ Status(new)[t] = new[t].status
    BY <1>0, <2>3 DEF Status
  <2>6. Lifecycle!TargetsIn({q}) = TargetsOf({q})
    BY DEF Lifecycle!TargetsIn, TargetsOf
  <2>7. Lifecycle!Succeed(q)
    BY <2>2, <2>4, <2>5, <2>6 DEF Lifecycle!Succeed
  <2>8. QED
    BY <1>1, <2>7 DEF Lifecycle!Next
<1>8. CASE FailureResult(q, answer)
  <2>1. WriteResult(q, "failed", "failed", SetStatus(targets, TargetsOf({q}), "failed"))
    BY <1>8 DEF FailureResult
  <2>2. /\ Lifecycle!Outcome(q, "failed", "failed")
        /\ Status(targets)' = Status(SetStatus(targets, TargetsOf({q}), "failed"))
    BY <1>6, <2>1
  <2>3. Lifecycle!Fail(q)
    BY <1>5, <2>2, TablesRelabelled DEF Lifecycle!Fail
  <2>4. QED
    BY <1>1, <2>3 DEF Lifecycle!Next
<1>9. QED
  BY <1>3, <1>4, <1>7, <1>8 DEF Result

LEMMA WorkerRefines ==
    ASSUME TypeOK, RowsInv, HonestInv, DispatchInv, ClaimInv, WorkerNext, UNCHANGED serviceVars
    PROVE  [Lifecycle!Next]_(Lifecycle!vars)
<1>1. CASE UNCHANGED <<dbVars, log, handed>>
  BY <1>1, Stutters DEF dbVars
<1>2. ASSUME NEW w \in Workers, NEW p \in Partitions, Handle(w, p)
      PROVE  [Lifecycle!Next]_(Lifecycle!vars)
  <2>1. CASE Fetch(w, p) \/ FetchNothing(w, p) \/ FetchError(w, p)
    BY <1>1, <2>1 DEF Fetch, FetchNothing, FetchError
  <2>2. CASE Preload(w, p) \/ MarkAndCommit(w, p)
    BY <1>1, <2>2 DEF Preload, MarkAndCommit
  <2>3. QED
    BY <1>2, <2>1, <2>2, TakeRefines, CallRefines, ResultRefines DEF Handle
<1>3. CASE Rebalance \/ \E w \in Workers : CrashWorker(w) \/ \E p \in Partitions : Assign(w, p)
  BY <1>1, <1>3 DEF Rebalance, CrashWorker, Assign
<1>4. QED
  BY <1>2, <1>3 DEF WorkerNext

-----------------------------------------------------------------------------
(* ImplementsLifecycle: whatever was retried, lost, delivered twice or     *)
(* canceled in between, the three tables change as one message's life.     *)
THEOREM NotifyImplementsLifecycle == Spec => ImplementsLifecycle
<1>1. Init => Lifecycle!Init
  <2> SUFFICES ASSUME Init PROVE Lifecycle!Init
    OBVIOUS
  <2>1. /\ Status(messages) = [m \in Messages |-> "absent"]
        /\ Status(queues) = [q \in Queues |-> "absent"]
        /\ Status(targets) = [t \in Targets |-> "absent"]
    BY DEF Init, DbInit, NoRow, Status
  <2>2. {q \in Queues : InTopic(q)} = {} /\ handed = {}
    BY DEF Init, DbInit, WorkerInit, InTopic, Offsets
  <2>3. QED
    BY <2>1, <2>2 DEF Lifecycle!Init
<1>2. /\ TypeOK /\ RowsInv /\ HonestInv /\ StatusInv /\ DispatchInv
      /\ [Next]_vars
      => [Lifecycle!Next]_(Lifecycle!vars)
  <2> SUFFICES ASSUME TypeOK, RowsInv, HonestInv, StatusInv, DispatchInv, [Next]_vars
               PROVE  [Lifecycle!Next]_(Lifecycle!vars)
    OBVIOUS
  <2>1. CASE UNCHANGED vars
    BY <2>1, Stutters DEF vars, dbVars, workerVars
  <2>2. QED
    BY <2>1, ServiceRefines, WorkerRefines DEF Next, StatusInv
<1>3. QED
  BY <1>1, <1>2, TypeCorrect, RowsInvariant, HonestInvariant, StatusInvariant, DispatchInvariant, PTL
     DEF Spec, ImplementsLifecycle, Lifecycle!Spec
=============================================================================
