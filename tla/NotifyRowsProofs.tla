-------------------------- MODULE NotifyRowsProofs --------------------------
(***************************************************************************)
(* What a cancellation takes.  The rows of a message are all absent, all   *)
(* visible or all canceled: the insert and the cancellation change them    *)
(* together, and any other update changes visible rows only and leaves     *)
(* them visible.                                                           *)
(***************************************************************************)
EXTENDS NotifyProofs

Absent(m) ==
    /\ messages[m] = NoRow
    /\ \A q \in QueuesOf(m) : queues[q] = NoRow
    /\ \A t \in TargetsOf(QueuesOf(m)) : targets[t] = NoRow

Live(m) ==
    /\ Visible(messages[m])
    /\ \A q \in QueuesOf(m) : Visible(queues[q])
    /\ \A t \in TargetsOf(QueuesOf(m)) : Visible(targets[t])

Canceled(m) ==
    /\ CanceledRow(messages[m])
    /\ \A q \in QueuesOf(m) : CanceledRow(queues[q])
    /\ \A t \in TargetsOf(QueuesOf(m)) : CanceledRow(targets[t])

Together(m) == Absent(m) \/ Live(m) \/ Canceled(m)

RowsInv ==
    \A m \in Messages : Together(m) /\ (pc[m] = "new" => Absent(m))

(* An update leaves visible rows visible and the others as they were.      *)
Updated(table, new) ==
    \A k \in DOMAIN table :
        IF Visible(table[k]) THEN Visible(new[k]) ELSE new[k] = table[k]

-----------------------------------------------------------------------------
(* SetStatus is such an update. *)
LEMMA SetStatusUpdates ==
    ASSUME NEW D, NEW S, NEW table \in [D -> Row(S)], NEW K, NEW status, status # "absent"
    PROVE  Updated(table, SetStatus(table, K, status))
<1> SUFFICES ASSUME NEW k \in D
             PROVE  IF Visible(table[k])
                    THEN Visible(SetStatus(table, K, status)[k])
                    ELSE SetStatus(table, K, status)[k] = table[k]
  BY DEF Updated
<1>1. table[k] \in Row(S)
  OBVIOUS
<1>2. CASE k \in K /\ Visible(table[k])
  <2>1. SetStatus(table, K, status)[k] = [table[k] EXCEPT !.status = status]
    BY <1>2 DEF SetStatus
  <2>2. QED
    BY <1>1, <1>2, <2>1 DEF Row, Visible, Exists
<1>3. CASE ~(k \in K /\ Visible(table[k]))
  BY <1>3 DEF SetStatus
<1>4. QED
  BY <1>2, <1>3

(* Updates of the three tables keep a message's rows together.             *)
LEMMA UpdatesKeep ==
    ASSUME DbTypeOK, RowsInv,
           Updated(messages, messages'), Updated(queues, queues'), Updated(targets, targets'),
           \A m \in Messages : pc'[m] = "new" => pc[m] = "new"
    PROVE  RowsInv'
<1> SUFFICES ASSUME NEW m \in Messages
             PROVE  Together(m)' /\ (pc'[m] = "new" => Absent(m)')
  BY DEF RowsInv
<1>1. /\ IF Visible(messages[m]) THEN Visible(messages'[m]) ELSE messages'[m] = messages[m]
      /\ \A q \in QueuesOf(m) :
            IF Visible(queues[q]) THEN Visible(queues'[q]) ELSE queues'[q] = queues[q]
      /\ \A t \in TargetsOf(QueuesOf(m)) :
            IF Visible(targets[t]) THEN Visible(targets'[t]) ELSE targets'[t] = targets[t]
  BY DEF DbTypeOK, Updated, QueuesOf, TargetsOf
<1>2. CASE Absent(m)
  <2>1. ~Visible(NoRow)
    BY DEF Visible, Exists, NoRow
  <2>2. Absent(m)'
    BY <1>1, <1>2, <2>1 DEF Absent, QueuesOf, TargetsOf
  <2>3. QED
    BY <2>2 DEF Together
<1>3. CASE Live(m)
  <2>1. Live(m)'
    BY <1>1, <1>3 DEF Live, QueuesOf, TargetsOf
  <2>2. ~Absent(m)
    BY <1>3 DEF Live, Absent, Visible, Exists, NoRow
  <2>3. QED
    BY <2>1, <2>2 DEF Together, RowsInv
<1>4. CASE Canceled(m)
  <2>1. \A row : CanceledRow(row) => ~Visible(row) /\ row # NoRow
    BY DEF CanceledRow, Visible, Exists, NoRow
  <2>2. Canceled(m)'
    BY <1>1, <1>4, <2>1 DEF Canceled, QueuesOf, TargetsOf
  <2>3. ~Absent(m)
    BY <1>4, <2>1 DEF Canceled, Absent
  <2>4. QED
    BY <2>2, <2>3 DEF Together, RowsInv
<1>5. QED
  BY <1>2, <1>3, <1>4 DEF RowsInv, Together

(* A table that stays as it is.                                            *)
LEMMA SameUpdates ==
    ASSUME NEW table
    PROVE  Updated(table, table)
BY DEF Updated

(* HandleEnqueue's update is one of the three tables.                      *)
LEMMA BatchUpdates ==
    ASSUME DbTypeOK, NEW Q, NEW status \in {"process", "enqueued"},
           BatchUpdateDatabase(Q, status)
    PROVE  /\ Updated(messages, messages')
           /\ Updated(queues, queues')
           /\ Updated(targets, targets')
<1>1. status # "absent"
  OBVIOUS
<1>2. Updated(messages, messages')
  BY <1>1, SetStatusUpdates DEF BatchUpdateDatabase, UpdateMessages, DbTypeOK
<1>3. Updated(queues, queues')
  BY <1>1, SetStatusUpdates DEF BatchUpdateDatabase, DbTypeOK
<1>4. Updated(targets, targets')
  BY <1>1, SetStatusUpdates DEF BatchUpdateDatabase, DbTypeOK
<1>5. QED
  BY <1>2, <1>3, <1>4

(* The statuses of an answer's rows leave visible targets visible.         *)
LEMMA RowUpdatesUpdate ==
    ASSUME DbTypeOK, NEW rows \in [Targets -> {"none"} \cup RowStatuses \cup {"sent"}]
    PROVE  Updated(targets, RowUpdates(rows))
<1> SUFFICES ASSUME NEW t \in Targets
             PROVE  IF Visible(targets[t])
                    THEN Visible(RowUpdates(rows)[t])
                    ELSE RowUpdates(rows)[t] = targets[t]
  BY DEF Updated, DbTypeOK
<1>1. targets[t] \in Row(TargetStatus) /\ DOMAIN targets = Targets
  BY DEF DbTypeOK
<1>2. rows[t] # "absent"
  BY WorkerAssumption
<1>3. CASE rows[t] # "none" /\ Visible(targets[t])
  <2>1. RowUpdates(rows)[t] = [targets[t] EXCEPT !.status = rows[t]]
    BY <1>1, <1>3 DEF RowUpdates
  <2>2. QED
    BY <1>1, <1>2, <1>3, <2>1 DEF Row, Visible, Exists
<1>4. CASE ~(rows[t] # "none" /\ Visible(targets[t]))
  BY <1>1, <1>4 DEF RowUpdates
<1>5. QED
  BY <1>3, <1>4

-----------------------------------------------------------------------------
(* Whatever a worker does is an update: a handler that loaded a queue      *)
(* before it was canceled writes to none of its rows.                      *)
LEMMA WorkerUpdates ==
    ASSUME TypeOK, WorkerNext
    PROVE  /\ Updated(messages, messages')
           /\ Updated(queues, queues')
           /\ Updated(targets, targets')
<1> USE DEF TypeOK
<1>1. CASE dbVars' = dbVars
  BY <1>1, SameUpdates DEF dbVars
<1>2. ASSUME NEW w \in Workers, NEW p \in Partitions, UpdateProcessingStatus(w, p)
      PROVE  /\ Updated(messages, messages')
             /\ Updated(queues, queues')
             /\ Updated(targets, targets')
  <2>1. CASE UNCHANGED dbVars
    BY <1>1, <2>1
  <2>2. CASE ShowSending(Claimed(w, p))
    <3>1. Updated(targets, targets')
      BY <2>2, SetStatusUpdates DEF ShowSending, DbTypeOK
    <3>2. Updated(queues, queues')
      BY <2>2, SetStatusUpdates DEF ShowSending, DbTypeOK
    <3>3. QED
      BY <2>2, <3>1, <3>2, SameUpdates DEF ShowSending
  <2>3. QED
    BY <1>2, <2>1, <2>2 DEF UpdateProcessingStatus
<1>3. ASSUME NEW q, NEW queueStatus \in {"success", "failed"},
             NEW messageStatus \in {"sent", "failed"}, NEW targetTable,
             Updated(targets, targetTable),
             WriteResult(q, queueStatus, messageStatus, targetTable)
      PROVE  /\ Updated(messages, messages')
             /\ Updated(queues, queues')
             /\ Updated(targets, targets')
  <2>1. Updated(messages, messages')
    BY <1>3, SetStatusUpdates DEF WriteResult, DbTypeOK
  <2>2. Updated(queues, queues')
    BY <1>3, SetStatusUpdates DEF WriteResult, DbTypeOK
  <2>3. QED
    BY <1>3, <2>1, <2>2 DEF WriteResult
<1>4. ASSUME NEW w \in Workers, NEW p \in Partitions, HandleSendResult(w, p)
      PROVE  /\ Updated(messages, messages')
             /\ Updated(queues, queues')
             /\ Updated(targets, targets')
  <2> DEFINE q == Claimed(w, p)
             answer == claim[w][p].answer
  <2>1. CASE UNCHANGED dbVars
    BY <1>1, <2>1
  <2>2. CASE WriteResult(q, "success", "sent", RowUpdates(answer.rows))
    <3>1. claim[w][p] \in Claim
      BY DEF WorkerTypeOK, ClaimTypeOK
    <3>2. answer.rows \in [Targets -> {"none"} \cup RowStatuses \cup {"sent"}]
      BY <3>1 DEF Claim, Answer
    <3>3. Updated(targets, RowUpdates(answer.rows))
      BY <3>2, RowUpdatesUpdate
    <3>4. QED
      BY <1>3, <2>2, <3>3
  <2>3. CASE WriteResult(q, "failed", "failed", SetStatus(targets, TargetsOf({q}), "failed"))
    <3>1. Updated(targets, SetStatus(targets, TargetsOf({q}), "failed"))
      BY SetStatusUpdates DEF DbTypeOK
    <3>2. QED
      BY <1>3, <2>3, <3>1
  <2>4. QED
    BY <1>4, <2>1, <2>2, <2>3
       DEF HandleSendResult, Result, SuccessResult, FailureResult, RolledBack
<1>5. ASSUME Rebalance \/ (\E w \in Workers : CrashWorker(w) \/ \E p \in Partitions : Assign(w, p))
      PROVE  dbVars' = dbVars
  BY <1>5 DEF Rebalance, CrashWorker, Assign, dbVars
<1>6. ASSUME NEW w \in Workers, NEW p \in Partitions,
             \/ Fetch(w, p) \/ FetchNothing(w, p) \/ FetchError(w, p) \/ Preload(w, p)
             \/ SendSms(w, p) \/ SendEmail(w, p) \/ MarkAndCommit(w, p)
      PROVE  dbVars' = dbVars
  <2>1. CASE Fetch(w, p) \/ FetchNothing(w, p) \/ FetchError(w, p)
    BY <2>1 DEF Fetch, FetchNothing, FetchError, dbVars
  <2>2. CASE Preload(w, p)
    BY <2>2 DEF Preload, dbVars
  <2>3. CASE SendSms(w, p) \/ SendEmail(w, p)
    BY <2>3 DEF SendSms, SendEmail, CallProvider, dbVars
  <2>4. CASE MarkAndCommit(w, p)
    BY <2>4 DEF MarkAndCommit, dbVars
  <2>5. QED
    BY <1>6, <2>1, <2>2, <2>3, <2>4
<1>7. QED
  BY <1>1, <1>2, <1>4, <1>5, <1>6 DEF WorkerNext, Handle

-----------------------------------------------------------------------------
(* A request that was made is never made again.                            *)
LEMMA NeverNewAgain ==
    ASSUME TypeOK, ServiceNext, NEW m \in Messages, pc'[m] = "new"
    PROVE  pc[m] = "new"
<1> USE DEF TypeOK
<1>0. /\ pc \in [Callers -> RequestPC \cup CronPC]
      /\ m \in Callers
  BY DEF ServiceTypeOK, Callers
<1>1. CASE pc' = pc
  BY <1>1
<1>2. CASE \E c \in Callers, label \in (RequestPC \cup CronPC) \ {"new"} :
              pc' = [pc EXCEPT ![c] = label]
  BY <1>0, <1>2
<1>3. ASSUME NEW n \in Messages, NEW scheduled \in BOOLEAN, Publish(n, scheduled)
      PROVE  pc[m] = "new"
  BY <1>2, <1>3 DEF Publish, Callers, RequestPC
<1>4. ASSUME NEW c \in Callers, MarkProcess(c) \/ MarkEnqueued(c) \/ CrashCaller(c)
      PROVE  pc[m] = "new"
  <2>1. \A err : Returned(c, err) \in {"take", "error", "ok"}
    BY DEF Returned
  <2>2. \E label \in {"send", "take", "error", "ok", "idle", "crashed"} :
           pc' = [pc EXCEPT ![c] = label]
    BY <1>4, <2>1 DEF MarkProcess, MarkEnqueued, CrashCaller, Return
  <2>3. QED
    BY <1>2, <2>2 DEF RequestPC, CronPC
<1>5. ASSUME NEW c \in Crons,
             SelectScheduled(c) \/ PreloadQueues(c) \/ NextMessage(c) \/ FinishJob(c)
      PROVE  pc[m] = "new"
  <2>1. \E label \in CronPC : pc' = [pc EXCEPT ![c] = label]
    BY <1>5 DEF SelectScheduled, PreloadQueues, NextMessage, FinishJob, CronPC
  <2>2. QED
    BY <1>2, <2>1 DEF RequestPC, CronPC, Callers
<1>6. ASSUME NEW n \in Messages,
             \/ CancelCheck(n) \/ CancelCommit(n) \/ ClientGone(n) \/ BecomeDue(n) \/ Expire(n)
      PROVE  pc[m] = "new"
  BY <1>1, <1>6 DEF CancelCheck, CancelCommit, ClientGone, BecomeDue, Expire
<1>7. ASSUME NEW c \in Callers, NEW q \in Queues,
             Spawn(c, q) \/ SendMessage(c, q) \/ StopRetrying(c, q)
      PROVE  pc[m] = "new"
  BY <1>1, <1>7 DEF Spawn, SendMessage, StopRetrying
<1>8. QED
  BY <1>3, <1>4, <1>5, <1>6, <1>7 DEF ServiceNext, PublishMessage, PublishSmsMessage,
     PublishMailMessage, HandleEnqueue, Execute

(* The insert of a message brings all of its rows, and no other message's. *)
LEMMA InsertKeeps ==
    ASSUME TypeOK, RowsInv, NEW m \in Messages, NEW status \in {"pending", "scheduled"},
           pc[m] = "new", pc'[m] # "new",
           \A n \in Messages : pc'[n] = "new" => pc[n] = "new",
           messages' = Insert(messages, {m}, status),
           queues' = Insert(queues, QueuesOf(m), "pending"),
           targets' = Insert(targets, TargetsOf(QueuesOf(m)), "pending")
    PROVE  RowsInv'
<1> USE DEF TypeOK, DbTypeOK
<1> SUFFICES ASSUME NEW n \in Messages
             PROVE  Together(n)' /\ (pc'[n] = "new" => Absent(n)')
  BY DEF RowsInv
<1>1. CASE n = m
  <2>1. Visible(messages'[m])
    BY DEF Insert, Visible, Exists
  <2>2. \A q \in QueuesOf(m) : Visible(queues'[q])
    BY DEF Insert, Visible, Exists, QueuesOf
  <2>3. \A t \in TargetsOf(QueuesOf(m)) : Visible(targets'[t])
    BY DEF Insert, Visible, Exists, TargetsOf
  <2>4. QED
    BY <1>1, <2>1, <2>2, <2>3 DEF Together, Live, QueuesOf, TargetsOf
<1>2. CASE n # m
  <2>1. messages'[n] = messages[n]
    BY <1>2 DEF Insert
  <2>2. \A q \in QueuesOf(n) : queues'[q] = queues[q]
    BY <1>2 DEF Insert, QueuesOf
  <2>3. \A t \in TargetsOf(QueuesOf(n)) : targets'[t] = targets[t]
    BY <1>2 DEF Insert, TargetsOf, QueuesOf
  <2>4. Absent(n) => Absent(n)'
    BY <2>1, <2>2, <2>3 DEF Absent, QueuesOf, TargetsOf
  <2>5. Live(n) => Live(n)'
    BY <2>1, <2>2, <2>3 DEF Live, QueuesOf, TargetsOf
  <2>6. Canceled(n) => Canceled(n)'
    BY <2>1, <2>2, <2>3 DEF Canceled, QueuesOf, TargetsOf
  <2>7. QED
    BY <2>4, <2>5, <2>6 DEF RowsInv, Together
<1>3. QED
  BY <1>1, <1>2

(* A cancellation takes the visible rows of a message, which are all of    *)
(* them or none, and no other message's.                                   *)
LEMMA CancelKeeps ==
    ASSUME TypeOK, RowsInv, NEW m \in Messages, pc' = pc,
           messages' = SoftDelete(messages, {m}),
           queues' = SoftDelete(queues, QueuesOf(m)),
           targets' = SoftDelete(targets, TargetsOf(QueuesOf(m)))
    PROVE  RowsInv'
<1> USE DEF TypeOK, DbTypeOK
<1> SUFFICES ASSUME NEW n \in Messages
             PROVE  Together(n)' /\ (pc'[n] = "new" => Absent(n)')
  BY DEF RowsInv
<1>0. /\ ~Visible(NoRow)
      /\ \A row : CanceledRow(row) => ~Visible(row)
  BY DEF Visible, Exists, NoRow, CanceledRow
<1>1. CASE n # m \/ ~Live(n)
  <2>1. messages'[n] = messages[n]
    BY <1>0, <1>1 DEF SoftDelete, RowsInv, Together, Absent, Canceled
  <2>2. \A q \in QueuesOf(n) : queues'[q] = queues[q]
    BY <1>0, <1>1 DEF SoftDelete, QueuesOf, RowsInv, Together, Absent, Canceled
  <2>3. \A t \in TargetsOf(QueuesOf(n)) : targets'[t] = targets[t]
    BY <1>0, <1>1 DEF SoftDelete, TargetsOf, QueuesOf, RowsInv, Together, Absent, Canceled
  <2>4. Absent(n) => Absent(n)'
    BY <2>1, <2>2, <2>3 DEF Absent, QueuesOf, TargetsOf
  <2>5. Live(n) => Live(n)'
    BY <2>1, <2>2, <2>3 DEF Live, QueuesOf, TargetsOf
  <2>6. Canceled(n) => Canceled(n)'
    BY <2>1, <2>2, <2>3 DEF Canceled, QueuesOf, TargetsOf
  <2>7. QED
    BY <2>4, <2>5, <2>6 DEF RowsInv, Together
<1>2. CASE n = m /\ Live(n)
  <2>1. CanceledRow(messages'[m])
    BY <1>2 DEF Live, SoftDelete, CanceledRow
  <2>2. \A q \in QueuesOf(m) : CanceledRow(queues'[q])
    BY <1>2 DEF Live, SoftDelete, CanceledRow, QueuesOf
  <2>3. \A t \in TargetsOf(QueuesOf(m)) : CanceledRow(targets'[t])
    BY <1>2 DEF Live, SoftDelete, CanceledRow, TargetsOf
  <2>4. Canceled(m)'
    BY <2>1, <2>2, <2>3 DEF Canceled, QueuesOf, TargetsOf
  <2>5. ~Absent(m)
    BY <1>0, <1>2 DEF Live, Absent
  <2>6. QED
    BY <1>2, <2>4, <2>5 DEF Together, RowsInv
<1>3. QED
  BY <1>1, <1>2

-----------------------------------------------------------------------------
(* No step takes the rows of a message apart.                              *)
LEMMA StepKeepsRows ==
    ASSUME TypeOK, RowsInv, [Next]_vars
    PROVE  RowsInv'
<1> USE DEF TypeOK
<1>1. CASE WorkerNext /\ UNCHANGED serviceVars
  <2>1. pc' = pc
    BY <1>1 DEF serviceVars
  <2>2. QED
    BY <1>1, <2>1, WorkerUpdates, UpdatesKeep
<1>2. CASE UNCHANGED vars
  BY <1>2 DEF vars, dbVars, serviceVars, RowsInv, Together, Absent, Live, Canceled
<1>3. CASE ServiceNext
  <2>1. \A m \in Messages : pc'[m] = "new" => pc[m] = "new"
    BY <1>3, NeverNewAgain
  <2>2. CASE dbVars' = dbVars
    BY <2>1, <2>2, SameUpdates, UpdatesKeep DEF dbVars
  <2>3. ASSUME NEW m \in Messages, PublishMessage(m)
        PROVE  RowsInv'
    <3>1. PICK scheduled \in BOOLEAN : Publish(m, scheduled)
      BY <2>3 DEF PublishMessage, PublishSmsMessage, PublishMailMessage
    <3>2. InitialStatus(scheduled) \in {"pending", "scheduled"}
      BY DEF InitialStatus
    <3>3. CASE UNCHANGED dbVars
      BY <2>2, <3>3
    <3>4. CASE InsertMessage(m, InitialStatus(scheduled))
      <4>1. pc[m] = "new" /\ pc'[m] # "new"
        BY <3>1 DEF Publish, ServiceTypeOK, Callers
      <4>2. QED
        BY <2>1, <3>2, <3>4, <4>1, InsertKeeps DEF InsertMessage
    <3>5. QED
      BY <3>1, <3>3, <3>4 DEF Publish
  <2>4. ASSUME NEW m \in Messages, CancelCommit(m)
        PROVE  RowsInv'
    <3>1. CASE UNCHANGED dbVars
      BY <2>2, <3>1
    <3>2. CASE DeleteMessage(m)
      BY <2>4, <3>2, CancelKeeps DEF CancelCommit, DeleteMessage
    <3>3. QED
      BY <2>4, <3>1, <3>2 DEF CancelCommit
  <2>5. ASSUME NEW c \in Callers, MarkProcess(c) \/ MarkEnqueued(c)
        PROVE  RowsInv'
    <3>1. CASE UNCHANGED dbVars
      BY <2>2, <3>1
    <3>2. CASE \E Q : \E status \in {"process", "enqueued"} : BatchUpdateDatabase(Q, status)
      <4>1. /\ Updated(messages, messages')
            /\ Updated(queues, queues')
            /\ Updated(targets, targets')
        BY <3>2, BatchUpdates
      <4>2. QED
        BY <2>1, <4>1, UpdatesKeep
    <3>3. QED
      BY <2>5, <3>1, <3>2 DEF MarkProcess, MarkEnqueued
  <2>6. QED
    BY <1>3, <2>2, <2>3, <2>4, <2>5 DEF ServiceNext, HandleEnqueue, Execute, CancelCheck, ClientGone,
       BecomeDue, Expire, Spawn, SendMessage, StopRetrying, CrashCaller, SelectScheduled,
       PreloadQueues, NextMessage, FinishJob
<1>4. QED
  BY <1>1, <1>2, <1>3 DEF Next

LEMMA RowsInvariant == Spec => []RowsInv
<1>1. Init => RowsInv
  BY DataAssumption DEF Init, DbInit, RowsInv, Together, Absent, QueuesOf, TargetsOf
<1>2. TypeOK /\ RowsInv /\ [Next]_vars => RowsInv'
  BY StepKeepsRows
<1>3. QED
  BY <1>1, <1>2, TypeCorrect, PTL DEF Spec

(* CancelAllOrNothing: a cancellation takes a message, its queues and its  *)
(* targets together, and no worker or caller revives one of them.          *)
THEOREM CancelsTakeAll == Spec => []CancelAllOrNothing
<1>1. RowsInv => CancelAllOrNothing
  <2>1. \A row : Visible(row) => ~row.deleted
    BY DEF Visible
  <2>2. ~NoRow.deleted
    BY DEF NoRow
  <2>3. QED
    BY <2>1, <2>2 DEF RowsInv, Together, Absent, Live, Canceled, CancelAllOrNothing
<1>2. QED
  BY <1>1, RowsInvariant, PTL
=============================================================================
