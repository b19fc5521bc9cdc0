---------------------------- MODULE NotifyProofs ----------------------------
(***************************************************************************)
(* What holds of Notify for every value of its constants.                  *)
(***************************************************************************)
EXTENDS Notify, TLAPS

-----------------------------------------------------------------------------
(* The table operators keep a table's type.                                *)

(* An UPDATE of some rows gives a table of the same rows.                  *)
LEMMA SetStatusType ==
    ASSUME NEW D, NEW S, NEW table \in [D -> Row(S)], NEW K, NEW status \in S
    PROVE  SetStatus(table, K, status) \in [D -> Row(S)]
BY DEF SetStatus, Row

(* So does an INSERT. *)
LEMMA InsertType ==
    ASSUME NEW D, NEW S, NEW table \in [D -> Row(S)], NEW K, NEW status \in S
    PROVE  Insert(table, K, status) \in [D -> Row(S)]
BY DEF Insert, Row

(* So does a cancellation. *)
LEMMA SoftDeleteType ==
    ASSUME NEW D, NEW S, NEW table \in [D -> Row(S)], NEW K, "canceled" \in S
    PROVE  SoftDelete(table, K) \in [D -> Row(S)]
BY DEF SoftDelete, Row

(* HandleEnqueue's update keeps the types of the three tables.             *)
LEMMA BatchUpdateType ==
    ASSUME DbTypeOK, NEW Q, NEW status \in {"process", "enqueued"},
           BatchUpdateDatabase(Q, status)
    PROVE  /\ messages' \in [Messages -> Row(MessageStatus)]
           /\ queues' \in [Queues -> Row(QueueStatus)]
           /\ targets' \in [Targets -> Row(TargetStatus)]
           /\ lateIds' \subseteq Queues
<1>1. status \in MessageStatus /\ status \in QueueStatus /\ status \in TargetStatus
  BY DEF MessageStatus, QueueStatus, TargetStatus
<1>2. messages' \in [Messages -> Row(MessageStatus)]
  BY <1>1, SetStatusType DEF BatchUpdateDatabase, UpdateMessages, DbTypeOK
<1>3. queues' \in [Queues -> Row(QueueStatus)]
  BY <1>1, SetStatusType DEF BatchUpdateDatabase, DbTypeOK
<1>4. targets' \in [Targets -> Row(TargetStatus)]
  BY <1>1, SetStatusType DEF BatchUpdateDatabase, DbTypeOK
<1>5. QED
  BY <1>2, <1>3, <1>4 DEF BatchUpdateDatabase, DbTypeOK

(* The budget of faults is never exceeded.                                 *)
LEMMA FaultType ==
    ASSUME DbTypeOK, NoFault \/ Fault
    PROVE  faults' \in 0 .. MaxFaults
BY DataAssumption DEF DbTypeOK, NoFault, Fault

-----------------------------------------------------------------------------
(* The initial state is well typed.                                        *)
LEMMA InitType == Init => TypeOK
<1> SUFFICES ASSUME Init PROVE TypeOK
  OBVIOUS
<1> USE DEF Init
<1>1. DbTypeOK
  BY DataAssumption DEF DbInit, DbTypeOK, Row, NoRow, MessageStatus, QueueStatus, TargetStatus
<1>2. ServiceTypeOK
  BY ServiceAssumption DEF ServiceInit, ServiceTypeOK, Callers, RequestPC, CronPC, SendState, NoSend
<1>3. WorkerTypeOK
  BY WorkerAssumption DEF WorkerInit, WorkerTypeOK, SessionTypeOK, ClaimTypeOK, ProgressTypeOK, CallTypeOK,
     Answer, NoAnswer, NoRows, Claim, NoClaim, ClaimPC, Busy
<1>4. QED
  BY <1>1, <1>2, <1>3 DEF TypeOK

(* Every step of a request, of the cron job and of Cancel is well typed.   *)
LEMMA ServiceType ==
    ASSUME TypeOK, ServiceNext
    PROVE  DbTypeOK' /\ ServiceTypeOK'
<1> USE DataAssumption, ServiceAssumption DEF TypeOK
<1>1. ASSUME NEW m \in Messages, NEW scheduled \in BOOLEAN, Publish(m, scheduled)
      PROVE  DbTypeOK' /\ ServiceTypeOK'
  <2>1. DbTypeOK'
    <3>1. CASE dbVars' = dbVars
      BY <1>1, <3>1, FaultType DEF Publish, DbFails, dbVars, DbTypeOK
    <3>2. CASE InsertMessage(m, InitialStatus(scheduled))
      <4>1. /\ InitialStatus(scheduled) \in MessageStatus
            /\ "pending" \in QueueStatus
            /\ "pending" \in TargetStatus
        BY DEF InitialStatus, MessageStatus, QueueStatus, TargetStatus
      <4>2. /\ messages' \in [Messages -> Row(MessageStatus)]
            /\ queues' \in [Queues -> Row(QueueStatus)]
            /\ targets' \in [Targets -> Row(TargetStatus)]
        BY <3>2, <4>1, InsertType DEF InsertMessage, DbTypeOK
      <4>3. lateIds' \subseteq Queues
        BY <3>2 DEF InsertMessage, DbTypeOK, LateIds, QueuesOf
      <4>4. QED
        BY <1>1, <4>2, <4>3, FaultType DEF Publish, DbFails, DbTypeOK
    <3>3. QED
      BY <1>1, <3>1, <3>2 DEF Publish
  <2>2. /\ \E s \in {"ok", "process", "error"} : pc' = [pc EXCEPT ![m] = s]
        /\ UNCHANGED <<job, todo, send, gone, phase, cancel>>
    BY <1>1 DEF Publish
  <2>3. ServiceTypeOK'
    BY <2>2 DEF ServiceTypeOK, Callers, RequestPC, CronPC
  <2>4. QED
    BY <2>1, <2>3
<1>2. ASSUME NEW c \in Callers, NEW err \in BOOLEAN, Return(c, err), pc[c] \in {"process", "send"},
             UNCHANGED <<todo, gone, phase, cancel>>
      PROVE  ServiceTypeOK'
  <2>1. pc' \in [Callers -> RequestPC \cup CronPC]
    BY <1>2 DEF Return, Returned, ServiceTypeOK, RequestPC, CronPC
  <2>2. /\ \A m \in Messages : pc'[m] \in RequestPC
        /\ \A d \in Crons : pc'[d] \in CronPC
    BY <1>2 DEF Return, Returned, ServiceTypeOK, RequestPC, CronPC, Callers
  <2>3. /\ job' \in [Crons -> Messages \cup {Nil}]
        /\ \A d \in Crons : pc'[d] \in {"process", "send"} => job'[d] # Nil
    BY <1>2 DEF Return, Returned, ServiceTypeOK, Callers
  <2>4. /\ send' \in [Callers -> [Queues -> SendState]]
        /\ \A d \in Callers, q \in Queues : send'[d][q].st = "trying" => send'[d][q].at # Nil
    BY <1>2 DEF Return, ServiceTypeOK, SendState, NoSend
  <2>5. QED
    BY <1>2, <2>1, <2>2, <2>3, <2>4 DEF ServiceTypeOK
<1>3. ASSUME NEW c \in Callers, MarkProcess(c)
      PROVE  DbTypeOK' /\ ServiceTypeOK'
  <2>1. CASE BatchUpdateDatabase(JobQueues(c), "process") /\ NoFault
             /\ pc' = [pc EXCEPT ![c] = "send"] /\ UNCHANGED <<job, send>>
    <3>1. DbTypeOK'
      BY <1>3, <2>1, BatchUpdateType, FaultType DEF MarkProcess, DbTypeOK
    <3>2. ServiceTypeOK'
      BY <1>3, <2>1 DEF MarkProcess, ServiceTypeOK, Callers, RequestPC, CronPC
    <3>3. QED
      BY <3>1, <3>2
  <2>2. CASE /\ DbFails(c) /\ Return(c, TRUE)
             /\ BatchUpdateDatabase(JobQueues(c), "process") \/ UNCHANGED dbVars
    <3>1. DbTypeOK'
      <4>1. CASE UNCHANGED dbVars
        BY <1>3, <2>2, <4>1, FaultType DEF MarkProcess, DbFails, dbVars, DbTypeOK
      <4>2. CASE BatchUpdateDatabase(JobQueues(c), "process")
        BY <1>3, <2>2, <4>2, BatchUpdateType, FaultType DEF MarkProcess, DbFails, DbTypeOK
      <4>3. QED
        BY <2>2, <4>1, <4>2
    <3>2. QED
      BY <1>2, <1>3, <2>2, <3>1 DEF MarkProcess
  <2>3. QED
    BY <1>3, <2>1, <2>2 DEF MarkProcess
<1>4. ASSUME NEW c \in Callers, NEW q \in Queues, Spawn(c, q)
      PROVE  DbTypeOK' /\ ServiceTypeOK'
  <2>1. DbTypeOK'
    BY <1>4, FaultType DEF Spawn, dbVars, DbTypeOK
  <2>2. PICK p \in PartitionsOf(TypeOf(q)) :
          send' = [send EXCEPT ![c][q] = [st |-> "trying", tries |-> 0, at |-> p]]
    BY <1>4 DEF Spawn
  <2>3. p \in Partitions /\ p # Nil
    BY <2>2 DEF PartitionsOf
  <2>4. QED
    BY <1>4, <2>1, <2>2, <2>3 DEF Spawn, ServiceTypeOK, SendState
<1>5. ASSUME NEW c \in Callers, NEW q \in Queues, SendMessage(c, q)
      PROVE  DbTypeOK' /\ ServiceTypeOK'
  <2> DEFINE p == send[c][q].at
             tries == send[c][q].tries + 1
  <2>1. /\ send[c][q].st = "trying"
        /\ tries <= MaxRetries
        /\ NoFault
        /\ UNCHANGED <<dbVars, pc, job, todo, gone, phase, cancel>>
    BY <1>5 DEF SendMessage
  <2>2. PICK n \in 0 .. MaxCopies, acked \in BOOLEAN :
          /\ log' = [log EXCEPT ![p] = @ \o Copies(q, n)]
          /\ send' = [send EXCEPT ![c][q] =
                [st |-> IF acked THEN "ok" ELSE AfterFailure(c, tries),
                 tries |-> tries, at |-> p]]
    BY <1>5 DEF SendMessage
  <2>3. p \in Partitions /\ p # Nil /\ tries \in 0 .. MaxRetries
    BY <2>1 DEF ServiceTypeOK, SendState
  <2>4. Copies(q, n) \in Seq(Queues)
    BY DEF Copies
  <2>5. log' \in [Partitions -> Seq(Queues)]
    BY <2>2, <2>3, <2>4 DEF DbTypeOK
  <2>6. DbTypeOK'
    BY <2>1, <2>5, FaultType DEF dbVars, DbTypeOK
  <2>7. [st |-> IF acked THEN "ok" ELSE AfterFailure(c, tries), tries |-> tries, at |-> p]
          \in SendState
    BY <2>3 DEF AfterFailure, SendState
  <2>8. ServiceTypeOK'
    BY <2>1, <2>2, <2>3, <2>7 DEF ServiceTypeOK
  <2>9. QED
    BY <2>6, <2>8
<1>6. ASSUME NEW c \in Callers, NEW q \in Queues, StopRetrying(c, q)
      PROVE  DbTypeOK' /\ ServiceTypeOK'
  <2>1. DbTypeOK'
    BY <1>6, FaultType DEF StopRetrying, dbVars, DbTypeOK
  <2>2. [send[c][q] EXCEPT !.st = "failed"] \in SendState
    <3>1. send[c][q] \in SendState
      BY DEF ServiceTypeOK
    <3>2. QED
      BY <3>1 DEF SendState
  <2>3. send' = [send EXCEPT ![c][q] = [send[c][q] EXCEPT !.st = "failed"]]
    BY <1>6 DEF StopRetrying, ServiceTypeOK, SendState
  <2>4. QED
    BY <1>6, <2>1, <2>2, <2>3 DEF StopRetrying, ServiceTypeOK
<1>7. ASSUME NEW c \in Callers, MarkEnqueued(c)
      PROVE  DbTypeOK' /\ ServiceTypeOK'
  <2>1. DbTypeOK'
    <3>1. CASE BatchUpdateDatabase(Acked(c), "enqueued")
      BY <1>7, <3>1, BatchUpdateType, FaultType DEF MarkEnqueued, DbFails, DbTypeOK
    <3>2. CASE DbFails(c) /\ UNCHANGED dbVars
      BY <1>7, <3>2, FaultType DEF MarkEnqueued, DbFails, dbVars, DbTypeOK
    <3>3. QED
      BY <1>7, <3>1, <3>2 DEF MarkEnqueued
  <2>2. ServiceTypeOK'
    BY <1>2, <1>7 DEF MarkEnqueued, UpdateErrorReturned
  <2>3. QED
    BY <2>1, <2>2
<1>8. ASSUME NEW c \in Callers, CrashCaller(c)
      PROVE  DbTypeOK' /\ ServiceTypeOK'
  <2>1. DbTypeOK'
    BY <1>8, FaultType DEF CrashCaller, dbVars, DbTypeOK
  <2>2. send' \in [Callers -> [Queues -> SendState]]
        /\ \A d \in Callers, q \in Queues : send'[d][q].st = "trying" => send'[d][q].at # Nil
    BY <1>8 DEF CrashCaller, ServiceTypeOK, SendState, NoSend
  <2>3. QED
    BY <1>8, <2>1, <2>2 DEF CrashCaller, ServiceTypeOK, Callers, RequestPC, CronPC
<1>9. ASSUME NEW c \in Crons, Execute(c)
      PROVE  DbTypeOK' /\ ServiceTypeOK'
  <2>1. DbTypeOK'
    BY <1>9, FaultType DEF Execute, SelectScheduled, PreloadQueues, NextMessage, FinishJob, dbVars, DbTypeOK
  <2>2. CASE SelectScheduled(c)
    BY <2>1, <2>2 DEF SelectScheduled, Selectable, ServiceTypeOK, Callers, RequestPC, CronPC
  <2>3. CASE NextMessage(c)
    BY <2>1, <2>3 DEF NextMessage, ServiceTypeOK, Callers, RequestPC, CronPC
  <2>4. CASE FinishJob(c)
    BY <2>1, <2>4 DEF FinishJob, ServiceTypeOK, Callers, RequestPC, CronPC
  <2>5. CASE PreloadQueues(c)
    BY <2>1, <2>5 DEF PreloadQueues, ServiceTypeOK, Callers, RequestPC, CronPC
  <2>6. QED
    BY <1>9, <2>2, <2>3, <2>4, <2>5 DEF Execute
<1>10. ASSUME NEW m \in Messages, CancelCheck(m) \/ CancelCommit(m)
       PROVE  DbTypeOK' /\ ServiceTypeOK'
  <2>1. ServiceTypeOK'
    BY <1>10 DEF CancelCheck, CancelCommit, ServiceTypeOK
  <2>2. CASE UNCHANGED dbVars
    BY <1>10, <2>1, <2>2, FaultType DEF CancelCheck, CancelCommit, dbVars, DbTypeOK
  <2>3. CASE DeleteMessage(m)
    <3>1. /\ "canceled" \in MessageStatus
          /\ "canceled" \in QueueStatus
          /\ "canceled" \in TargetStatus
      BY DEF MessageStatus, QueueStatus, TargetStatus
    <3>2. /\ messages' \in [Messages -> Row(MessageStatus)]
          /\ queues' \in [Queues -> Row(QueueStatus)]
          /\ targets' \in [Targets -> Row(TargetStatus)]
      BY <2>3, <3>1, SoftDeleteType DEF DeleteMessage, DbTypeOK
    <3>3. QED
      BY <1>10, <2>1, <2>3, <3>2, FaultType DEF CancelCheck, CancelCommit, DeleteMessage, DbTypeOK
  <2>4. QED
    BY <1>10, <2>2, <2>3 DEF CancelCheck, CancelCommit
<1>11. ASSUME NEW m \in Messages, ClientGone(m) \/ BecomeDue(m) \/ Expire(m)
       PROVE  DbTypeOK' /\ ServiceTypeOK'
  <2>1. DbTypeOK'
    BY <1>11, FaultType DEF ClientGone, BecomeDue, Expire, dbVars, DbTypeOK
  <2>2. QED
    BY <1>11, <2>1 DEF ClientGone, BecomeDue, Expire, ServiceTypeOK
<1>12. QED
  BY <1>1, <1>3, <1>4, <1>5, <1>6, <1>7, <1>8, <1>9, <1>10, <1>11
     DEF ServiceNext, PublishMessage, PublishSmsMessage, PublishMailMessage, HandleEnqueue

(* Records are only ever added to a topic.                                 *)
LEMMA LogGrows ==
    ASSUME TypeOK, ServiceNext
    PROVE  \A p \in Partitions :
              /\ Offsets(p) \subseteq Offsets(p)'
              /\ \A i \in Offsets(p) : log'[p][i] = log[p][i]
<1> USE DataAssumption, ServiceAssumption DEF TypeOK
<1>1. ASSUME NEW c \in Callers, NEW q \in Queues, SendMessage(c, q)
      PROVE  \A p \in Partitions :
                /\ Offsets(p) \subseteq Offsets(p)'
                /\ \A i \in Offsets(p) : log'[p][i] = log[p][i]
  <2> DEFINE at == send[c][q].at
  <2>0. at \in Partitions
    BY <1>1 DEF SendMessage, ServiceTypeOK, SendState
  <2>1. PICK n \in 0 .. MaxCopies : log' = [log EXCEPT ![at] = log[at] \o Copies(q, n)]
    BY <1>1 DEF SendMessage
  <2>2. Copies(q, n) \in Seq(Queues)
    BY DEF Copies
  <2>3. TAKE r \in Partitions
  <2>4. CASE r = at
    <3>1. /\ log'[r] = log[r] \o Copies(q, n)
          /\ log[r] \in Seq(Queues)
      BY <2>0, <2>1, <2>4 DEF DbTypeOK
    <3>2. QED
      BY <2>2, <3>1 DEF Offsets
  <2>5. CASE r # at
    BY <2>0, <2>1, <2>5 DEF Offsets, DbTypeOK
  <2>6. QED
    BY <2>4, <2>5
<1>2. CASE UNCHANGED log
  BY <1>2 DEF Offsets
<1>3. QED
  BY <1>1, <1>2 DEF ServiceNext, PublishMessage, PublishSmsMessage, PublishMailMessage, Publish,
     HandleEnqueue, MarkProcess, Spawn, StopRetrying, MarkEnqueued, CrashCaller, Execute,
     SelectScheduled, PreloadQueues, NextMessage, FinishJob, CancelCheck, CancelCommit, ClientGone, BecomeDue, Expire

(* Every step of the consumer group and of a handler is well typed.        *)
LEMMA WorkerType ==
    ASSUME TypeOK, WorkerNext
    PROVE  DbTypeOK' /\ WorkerTypeOK'
<1>d. DbTypeOK
  BY DEF TypeOK
<1>s. SessionTypeOK
  BY DEF TypeOK, WorkerTypeOK
<1>c. ClaimTypeOK
  BY DEF TypeOK, WorkerTypeOK
<1>p. ProgressTypeOK
  BY DEF TypeOK, WorkerTypeOK
<1>a. CallTypeOK
  BY DEF TypeOK, WorkerTypeOK
<1>o. ASSUME NEW p \in Partitions
      PROVE  \A i \in Offsets(p) : i \in Nat /\ log[p][i] \in Queues
  <2>1. log[p] \in Seq(Queues)
    BY <1>d DEF DbTypeOK
  <2>2. TAKE i \in Offsets(p)
  <2>3. i \in 1 .. Len(log[p])
    BY DEF Offsets
  <2>4. QED
    BY <2>1, <2>3
<1>k. ASSUME NEW w \in Workers, NEW p \in Partitions
      PROVE  /\ claim[w][p] \in Claim
             /\ claim[w][p].offset \in Nat
             /\ claim[w][p].loaded \in SUBSET Targets
             /\ claim[w][p].answer \in Answer
             /\ Busy(w, p) => /\ claim[w][p].offset \in Offsets(p)
                              /\ Claimed(w, p) \in Queues
  <2>1. claim[w][p] \in Claim
    BY <1>c DEF ClaimTypeOK
  <2>2. Busy(w, p) => claim[w][p].offset \in Offsets(p)
    BY <1>c DEF ClaimTypeOK
  <2>3. Busy(w, p) => Claimed(w, p) \in Queues
    BY <1>o, <2>2 DEF Claimed
  <2>4. QED
    BY <2>1, <2>2, <2>3 DEF Claim
<1>n. NoClaim \in Claim /\ NoClaim.pc = "idle"
  BY DEF NoClaim, NoAnswer, NoRows, Claim, ClaimPC, Answer
<1>1. ASSUME EndSessions PROVE SessionTypeOK'
  BY <1>1 DEF EndSessions, SessionTypeOK
<1>2. ASSUME NEW p \in Partitions, Advance(p) PROVE SessionTypeOK'
  BY <1>s, <1>2 DEF Advance, SessionTypeOK
<1>3. ASSUME UNCHANGED sessionVars PROVE SessionTypeOK'
  BY <1>s, <1>3 DEF sessionVars, SessionTypeOK
<1>4. ASSUME UNCHANGED <<claim, log>> PROVE ClaimTypeOK'
  BY <1>c, <1>4 DEF ClaimTypeOK, Busy, Offsets
<1>5. ASSUME NEW w \in Workers, NEW p \in Partitions, NEW k \in Claim, UNCHANGED log,
             claim' = [claim EXCEPT ![w][p] = k],
             k.pc # "idle" => k.offset \in Offsets(p)
      PROVE  ClaimTypeOK'
  BY <1>c, <1>5 DEF ClaimTypeOK, Busy, Offsets
<1>6. ASSUME NEW w \in Workers, Die(w), UNCHANGED log
      PROVE  SessionTypeOK' /\ ClaimTypeOK'
  <2>1. SessionTypeOK'
    BY <1>1, <1>6 DEF Die
  <2>2. claim' = [claim EXCEPT ![w] = [p \in Partitions |-> NoClaim]]
    BY <1>6 DEF Die
  <2>3. ClaimTypeOK'
    BY <1>c, <1>n, <1>6, <2>2 DEF ClaimTypeOK, Busy, Offsets
  <2>4. QED
    BY <2>1, <2>3
<1>7. ASSUME NEW w \in Workers, NEW p \in Partitions, Leave(w, p), UNCHANGED log
      PROVE  ClaimTypeOK'
  BY <1>5, <1>7, <1>n DEF Leave
<1>8. ASSUME NEW w \in Workers, NEW p \in Partitions, NEW label \in ClaimPC \ {"idle"},
             Busy(w, p), Goto(w, p, label), UNCHANGED log
      PROVE  ClaimTypeOK'
  <2>1. [claim[w][p] EXCEPT !.pc = label] \in Claim
    BY <1>k DEF Claim
  <2>2. claim' = [claim EXCEPT ![w][p] = [claim[w][p] EXCEPT !.pc = label]]
    <3>1. claim \in [Workers -> [Partitions -> Claim]]
      BY <1>c DEF ClaimTypeOK
    <3>2. QED
      BY <1>8, <3>1 DEF Goto, Claim
  <2>3. [claim[w][p] EXCEPT !.pc = label].offset \in Offsets(p)
    BY <1>k, <1>8 DEF Claim
  <2>4. QED
    BY <1>5, <1>8, <2>1, <2>2, <2>3
<1>9. ASSUME NEW w \in Workers, NEW p \in Partitions, Busy(w, p), HandlerError(w, p), UNCHANGED log
      PROVE  SessionTypeOK' /\ ClaimTypeOK' /\ errored' \in [Partitions -> SUBSET Nat]
  <2>1. SessionTypeOK' /\ ClaimTypeOK'
    BY <1>3, <1>7, <1>9 DEF HandlerError
  <2>2. errored' = [errored EXCEPT ![p] = errored[p] \cup {claim[w][p].offset}]
    BY <1>9 DEF HandlerError
  <2>3. errored' \in [Partitions -> SUBSET Nat]
    BY <1>p, <1>k, <2>2 DEF ProgressTypeOK
  <2>4. QED
    BY <2>1, <2>3
<1>10. CASE Rebalance
  <2>1. DbTypeOK'
    BY <1>d, <1>10, FaultType DEF Rebalance, dbVars, DbTypeOK
  <2>2. SessionTypeOK' /\ ClaimTypeOK'
    BY <1>1, <1>4, <1>10 DEF Rebalance
  <2>3. QED
    BY <1>p, <1>a, <1>10, <2>1, <2>2 DEF WorkerTypeOK, ProgressTypeOK, CallTypeOK, Rebalance
<1>11. ASSUME NEW w \in Workers, CrashWorker(w) \/ \E p \in Partitions : FetchNothing(w, p)
       PROVE  DbTypeOK' /\ WorkerTypeOK'
  <2>1. DbTypeOK'
    BY <1>d, <1>11, FaultType DEF CrashWorker, FetchNothing, dbVars, DbTypeOK
  <2>2. SessionTypeOK' /\ ClaimTypeOK'
    BY <1>6, <1>11 DEF CrashWorker, FetchNothing
  <2>3. QED
    BY <1>p, <1>a, <1>11, <2>1, <2>2 DEF WorkerTypeOK, ProgressTypeOK, CallTypeOK, CrashWorker, FetchNothing
<1>12. ASSUME NEW w \in Workers, NEW p \in Partitions, Assign(w, p)
       PROVE  DbTypeOK' /\ WorkerTypeOK'
  <2>1. DbTypeOK'
    BY <1>d, <1>12, FaultType DEF Assign, dbVars, DbTypeOK
  <2>2. SessionTypeOK'
    BY <1>s, <1>p, <1>12 DEF Assign, StartOffset, SessionTypeOK, ProgressTypeOK
  <2>3. ClaimTypeOK'
    BY <1>4, <1>12 DEF Assign
  <2>4. QED
    BY <1>p, <1>a, <1>12, <2>1, <2>2, <2>3 DEF WorkerTypeOK, ProgressTypeOK, CallTypeOK, Assign
<1>13. ASSUME NEW w \in Workers, NEW p \in Partitions, Fetch(w, p)
       PROVE  DbTypeOK' /\ WorkerTypeOK'
  <2> DEFINE k == [NoClaim EXCEPT !.pc = "found", !.offset = next[p]]
  <2>1. DbTypeOK'
    BY <1>d, <1>13, FaultType DEF Fetch, dbVars, DbTypeOK
  <2>2. next[p] \in Offsets(p) /\ next[p] \in Nat
    BY <1>o, <1>13 DEF Fetch
  <2>3. k \in Claim /\ k.offset \in Offsets(p)
    BY <2>2 DEF NoClaim, NoAnswer, NoRows, Claim, ClaimPC, Answer
  <2>4. claim' = [claim EXCEPT ![w][p] = k]
    BY <1>13 DEF Fetch
  <2>5. ClaimTypeOK'
    <3>1. UNCHANGED log
      BY <1>13 DEF Fetch
    <3>2. QED
      BY <1>5, <2>3, <2>4, <3>1
  <2>6. SessionTypeOK'
    BY <1>2, <1>13 DEF Fetch
  <2>7. QED
    BY <1>p, <1>a, <1>13, <2>1, <2>5, <2>6 DEF WorkerTypeOK, ProgressTypeOK, CallTypeOK, Fetch
<1>14. ASSUME NEW w \in Workers, NEW p \in Partitions, FetchError(w, p)
       PROVE  DbTypeOK' /\ WorkerTypeOK'
  <2>1. DbTypeOK'
    BY <1>d, <1>14, FaultType DEF FetchError, dbVars, DbTypeOK
  <2>2. next[p] \in Nat
    BY <1>o, <1>14 DEF FetchError
  <2>3. CASE /\ errored' = [errored EXCEPT ![p] = errored[p] \cup {next[p]}]
             /\ Advance(p)
             /\ UNCHANGED claim
    <3>1. SessionTypeOK' /\ ClaimTypeOK'
      BY <1>2, <1>4, <1>14, <2>3 DEF FetchError
    <3>2. ProgressTypeOK'
      BY <1>p, <1>14, <2>2, <2>3 DEF FetchError, ProgressTypeOK
    <3>3. QED
      BY <1>p, <1>a, <1>14, <2>1, <3>1, <3>2 DEF WorkerTypeOK, ProgressTypeOK, CallTypeOK, FetchError
  <2>4. CASE Die(w) /\ UNCHANGED errored
    <3>1. SessionTypeOK' /\ ClaimTypeOK'
      BY <1>6, <1>14, <2>4 DEF FetchError
    <3>2. QED
      BY <1>p, <1>a, <1>14, <2>1, <2>4, <3>1 DEF WorkerTypeOK, ProgressTypeOK, CallTypeOK, FetchError
  <2>5. QED
    BY <1>14, <2>3, <2>4 DEF FetchError
<1>15. ASSUME NEW w \in Workers, NEW p \in Partitions, Preload(w, p)
       PROVE  DbTypeOK' /\ WorkerTypeOK'
  <2> DEFINE T == {t \in TargetsOf({Claimed(w, p)}) : Visible(targets[t])}
             k == [claim[w][p] EXCEPT !.pc = "loaded", !.loaded = T]
  <2>1. DbTypeOK'
    BY <1>d, <1>15, FaultType DEF Preload, dbVars, DbTypeOK
  <2>2. T \subseteq Targets
    BY DEF TargetsOf
  <2>3. k \in Claim /\ k.offset = claim[w][p].offset
    BY <1>k, <2>2 DEF Claim, ClaimPC
  <2>4. k.offset \in Offsets(p)
    BY <1>k, <1>15, <2>3 DEF Preload, Busy
  <2>5. claim' = [claim EXCEPT ![w][p] = k]
    <3>1. claim \in [Workers -> [Partitions -> Claim]]
      BY <1>c DEF ClaimTypeOK
    <3>2. QED
      BY <1>15, <3>1 DEF Preload
  <2>6. SessionTypeOK' /\ ClaimTypeOK'
    <3>1. UNCHANGED log /\ UNCHANGED sessionVars
      BY <1>15 DEF Preload
    <3>2. QED
      BY <1>3, <1>5, <2>3, <2>4, <2>5, <3>1
  <2>7. QED
    BY <1>p, <1>a, <1>15, <2>1, <2>6 DEF WorkerTypeOK, ProgressTypeOK, CallTypeOK, Preload
<1>16. ASSUME NEW w \in Workers, NEW p \in Partitions, UpdateProcessingStatus(w, p)
       PROVE  DbTypeOK' /\ WorkerTypeOK'
  <2>1. Busy(w, p) /\ UNCHANGED log
    BY <1>16 DEF UpdateProcessingStatus, Busy
  <2>5. DbTypeOK'
    <3>1. CASE UNCHANGED dbVars
      BY <1>d, <1>16, <2>1, <3>1, FaultType DEF UpdateProcessingStatus, DbError, dbVars, DbTypeOK
    <3>2. CASE ShowSending(Claimed(w, p))
      <4>1. "sending" \in QueueStatus /\ "sending" \in TargetStatus
        BY DEF QueueStatus, TargetStatus
      <4>2. queues' \in [Queues -> Row(QueueStatus)] /\ targets' \in [Targets -> Row(TargetStatus)]
        BY <1>d, <3>2, <4>1, SetStatusType DEF ShowSending, DbTypeOK
      <4>3. QED
        BY <1>d, <1>16, <2>1, <3>2, <4>2, FaultType
           DEF UpdateProcessingStatus, DbError, ShowSending, DbTypeOK
    <3>3. QED
      BY <1>16, <3>1, <3>2 DEF UpdateProcessingStatus
  <2>2. CASE Goto(w, p, "sending") /\ UNCHANGED <<sessionVars, errored>>
    <3>1. "sending" \in ClaimPC \ {"idle"}
      BY DEF ClaimPC
    <3>4. SessionTypeOK' /\ ClaimTypeOK'
      BY <1>3, <1>8, <2>1, <2>2, <3>1
    <3>5. QED
      BY <1>p, <1>a, <1>16, <2>2, <2>5, <3>4 DEF WorkerTypeOK, ProgressTypeOK, CallTypeOK, UpdateProcessingStatus
  <2>3. CASE DbError(w, p)
    <3>2. SessionTypeOK' /\ ClaimTypeOK' /\ errored' \in [Partitions -> SUBSET Nat]
      BY <1>p, <1>6, <1>9, <2>1, <2>3 DEF DbError, ProgressTypeOK
    <3>3. QED
      BY <1>p, <1>a, <1>16, <2>5, <3>2 DEF WorkerTypeOK, ProgressTypeOK, CallTypeOK, UpdateProcessingStatus
  <2>4. QED
    BY <1>16, <2>2, <2>3 DEF UpdateProcessingStatus
<1>17. ASSUME NEW T \in SUBSET Targets
       PROVE  SmsAnswers(T) \subseteq Answer /\ MailAnswers(T) \subseteq Answer
  <2>1. NoAnswer \in Answer /\ [NoAnswer EXCEPT !.parsed = TRUE] \in Answer
    BY DEF Answer, NoAnswer, NoRows
  <2>2. ASSUME NEW f \in [T -> {"none"} \cup RowStatuses]
        PROVE  [status |-> "sent", parsed |-> TRUE,
                rows |-> [t \in Targets |-> IF t \in T THEN f[t] ELSE "none"]] \in Answer
    <3>1. [t \in Targets |-> IF t \in T THEN f[t] ELSE "none"]
             \in [Targets -> {"none"} \cup RowStatuses \cup {"sent"}]
      OBVIOUS
    <3>2. QED
      BY <3>1 DEF Answer
  <2>3. [status |-> "sent", parsed |-> TRUE,
         rows |-> [t \in Targets |-> IF t \in T THEN "sent" ELSE "none"]] \in Answer
    BY DEF Answer
  <2>4. SmsAnswers(T) \subseteq Answer
    <3>1. {NoAnswer, [NoAnswer EXCEPT !.parsed = TRUE]} \subseteq Answer
      BY <2>1
    <3>2. {[status |-> "sent", parsed |-> TRUE,
            rows |-> [t \in Targets |-> IF t \in T THEN f[t] ELSE "none"]] :
              f \in [T -> {"none"} \cup RowStatuses]} \subseteq Answer
      BY <2>2
    <3>3. QED
      BY <3>1, <3>2 DEF SmsAnswers
  <2>5. QED
    BY <2>1, <2>3, <2>4 DEF MailAnswers
<1>18. ASSUME NEW w \in Workers, NEW p \in Partitions, SendSms(w, p) \/ SendEmail(w, p)
       PROVE  DbTypeOK' /\ WorkerTypeOK'
  <2>1. PICK answers \in SUBSET Answer : CallProvider(w, p, answers)
    <3>1. claim[w][p].loaded \in SUBSET Targets
      BY <1>k
    <3>2. QED
      BY <1>17, <1>18, <3>1 DEF SendSms, SendEmail
  <2>2. DbTypeOK'
    BY <1>d, <2>1, FaultType DEF CallProvider, dbVars, DbTypeOK
  <2>3. claim[w][p].offset \in Offsets(p) /\ Claimed(w, p) \in Queues
    BY <1>k, <2>1 DEF CallProvider, Busy
  <2>4. PICK a \in answers :
          claim' = [claim EXCEPT ![w][p] = [claim[w][p] EXCEPT !.pc = "answered", !.answer = a]]
    <3>1. claim \in [Workers -> [Partitions -> Claim]]
      BY <1>c DEF ClaimTypeOK
    <3>2. QED
      BY <2>1, <3>1 DEF CallProvider
  <2>5. /\ [claim[w][p] EXCEPT !.pc = "answered", !.answer = a] \in Claim
        /\ [claim[w][p] EXCEPT !.pc = "answered", !.answer = a].offset \in Offsets(p)
    BY <1>k, <2>3, <2>4 DEF Claim, ClaimPC
  <2>6. SessionTypeOK' /\ ClaimTypeOK'
    <3>1. UNCHANGED log /\ UNCHANGED sessionVars
      BY <2>1 DEF CallProvider
    <3>2. QED
      BY <1>3, <1>5, <2>4, <2>5, <3>1
  <2>7. QED
    BY <1>p, <1>a, <2>1, <2>2, <2>3, <2>6 DEF WorkerTypeOK, ProgressTypeOK, CallTypeOK, CallProvider
<1>19. ASSUME NEW q \in Queues, NEW answer \in Answer, Result(q, answer)
       PROVE  /\ messages' \in [Messages -> Row(MessageStatus)]
              /\ queues' \in [Queues -> Row(QueueStatus)]
              /\ targets' \in [Targets -> Row(TargetStatus)]
              /\ lateIds' \subseteq Queues
              /\ events' \in [Queues -> SUBSET {"sent", "failed"}]
  <2>1. /\ "success" \in QueueStatus /\ "failed" \in QueueStatus
        /\ "sent" \in MessageStatus /\ "failed" \in MessageStatus
        /\ "sent" \in TargetStatus /\ "failed" \in TargetStatus /\ "" \in TargetStatus
    BY DEF QueueStatus, MessageStatus, TargetStatus
  <2>2. \A t \in Targets : answer.rows[t] # "none" => answer.rows[t] \in TargetStatus
    BY <2>1, WorkerAssumption DEF Answer
  <2>3. RowUpdates(answer.rows) \in [Targets -> Row(TargetStatus)]
    BY <1>d, <2>2 DEF RowUpdates, DbTypeOK, Row
  <2>4. SetStatus(targets, TargetsOf({q}), "failed") \in [Targets -> Row(TargetStatus)]
    BY <1>d, <2>1, SetStatusType DEF DbTypeOK
  <2>5. ASSUME NEW queueStatus \in QueueStatus, NEW messageStatus \in MessageStatus,
               NEW table \in [Targets -> Row(TargetStatus)],
               WriteResult(q, queueStatus, messageStatus, table)
        PROVE  /\ messages' \in [Messages -> Row(MessageStatus)]
               /\ queues' \in [Queues -> Row(QueueStatus)]
               /\ targets' \in [Targets -> Row(TargetStatus)]
               /\ lateIds' \subseteq Queues
    BY <1>d, <2>5, SetStatusType DEF WriteResult, DbTypeOK
  <2>6. CASE SuccessResult(q, answer)
    <3>1. events' \in [Queues -> SUBSET {"sent", "failed"}]
      BY <1>a, <2>6 DEF SuccessResult, CallTypeOK
    <3>2. QED
      BY <2>1, <2>3, <2>5, <2>6, <3>1 DEF SuccessResult
  <2>7. CASE FailureResult(q, answer)
    <3>1. events' \in [Queues -> SUBSET {"sent", "failed"}]
      BY <1>a, <2>7 DEF FailureResult, CallTypeOK
    <3>2. QED
      BY <2>1, <2>4, <2>5, <2>7, <3>1 DEF FailureResult
  <2>8. QED
    BY <1>19, <2>6, <2>7 DEF Result
<1>20. ASSUME NEW w \in Workers, NEW p \in Partitions, HandleSendResult(w, p)
       PROVE  DbTypeOK' /\ WorkerTypeOK'
  <2> DEFINE q == Claimed(w, p)
             answer == claim[w][p].answer
  <2>1. Busy(w, p) /\ q \in Queues /\ answer \in Answer
    BY <1>k, <1>20 DEF HandleSendResult, Busy
  <2>2. UNCHANGED <<log, committed, handed, handled>>
    BY <1>20 DEF HandleSendResult
  <2>6. CASE Result(q, answer)
    <3>1. /\ messages' \in [Messages -> Row(MessageStatus)]
          /\ queues' \in [Queues -> Row(QueueStatus)]
          /\ targets' \in [Targets -> Row(TargetStatus)]
          /\ lateIds' \subseteq Queues
          /\ events' \in [Queues -> SUBSET {"sent", "failed"}]
      BY <1>19, <2>1, <2>6
    <3>2. DbTypeOK'
      BY <1>d, <1>20, <2>2, <3>1, FaultType DEF HandleSendResult, DbTypeOK
    <3>3. "handled" \in ClaimPC \ {"idle"}
      BY DEF ClaimPC
    <3>4. CASE Goto(w, p, "handled") /\ UNCHANGED <<sessionVars, errored>>
      <4>1. SessionTypeOK' /\ ClaimTypeOK'
        BY <1>3, <1>8, <2>1, <2>2, <3>3, <3>4
      <4>2. QED
        BY <1>p, <1>a, <2>2, <3>1, <3>2, <3>4, <4>1 DEF WorkerTypeOK, ProgressTypeOK, CallTypeOK
    <3>5. CASE HandlerError(w, p)
      <4>1. SessionTypeOK' /\ ClaimTypeOK' /\ errored' \in [Partitions -> SUBSET Nat]
        BY <1>9, <2>1, <2>2, <3>5
      <4>2. QED
        BY <1>p, <1>a, <2>2, <3>1, <3>2, <4>1 DEF WorkerTypeOK, ProgressTypeOK, CallTypeOK
    <3>6. QED
      BY <1>20, <3>4, <3>5 DEF HandleSendResult
  <2>4. CASE Fault /\ HandlerError(w, p) /\ RolledBack(q, EscapedEvents(p, answer))
    <3>1. DbTypeOK'
      BY <1>d, <2>2, <2>4, FaultType DEF RolledBack, dbVars, DbTypeOK
    <3>2. PICK E \in EscapedEvents(p, answer) : events' = [events EXCEPT ![q] = events[q] \cup E]
      BY <2>4 DEF RolledBack
    <3>3. E \subseteq {"sent", "failed"}
      BY DEF EscapedEvents
    <3>4. events' \in [Queues -> SUBSET {"sent", "failed"}]
      BY <1>a, <2>1, <3>2, <3>3 DEF CallTypeOK
    <3>5. SessionTypeOK' /\ ClaimTypeOK' /\ errored' \in [Partitions -> SUBSET Nat]
      BY <1>9, <2>1, <2>2, <2>4
    <3>6. QED
      BY <1>p, <1>a, <2>2, <3>1, <3>4, <3>5 DEF WorkerTypeOK, ProgressTypeOK, CallTypeOK
  <2>5. QED
    BY <1>20, <2>4, <2>6 DEF HandleSendResult
<1>21. ASSUME NEW w \in Workers, NEW p \in Partitions, MarkAndCommit(w, p)
       PROVE  DbTypeOK' /\ WorkerTypeOK'
  <2>1. DbTypeOK'
    BY <1>d, <1>21, FaultType DEF MarkAndCommit, dbVars, DbTypeOK
  <2>2. claim[w][p].offset \in Nat
    BY <1>k
  <2>3. handled' \in [Partitions -> SUBSET Nat] /\ errored' \in [Partitions -> SUBSET Nat]
    <3>1. handled' = [handled EXCEPT ![p] = handled[p] \cup {claim[w][p].offset}] /\ UNCHANGED errored
      BY <1>21 DEF MarkAndCommit
    <3>2. QED
      BY <1>p, <2>2, <3>1 DEF ProgressTypeOK
  <2>4. SessionTypeOK'
    BY <1>s, <1>21, <2>2 DEF MarkAndCommit, sessionVars, SessionTypeOK
  <2>5. committed' \in [Partitions -> Nat]
    <3>1. Marks(w, p) \in [Partitions -> Nat]
      BY <1>s, <1>p, <2>2 DEF Marks, SessionTypeOK, ProgressTypeOK
    <3>2. QED
      BY <1>p, <1>21, <3>1 DEF MarkAndCommit, ProgressTypeOK
  <2>6. ClaimTypeOK'
    BY <1>7, <1>21 DEF MarkAndCommit
  <2>7. QED
    BY <1>p, <1>a, <1>21, <2>1, <2>3, <2>4, <2>5, <2>6 DEF WorkerTypeOK, ProgressTypeOK, CallTypeOK, MarkAndCommit
<1>22. QED
  BY <1>10, <1>11, <1>12, <1>13, <1>14, <1>15, <1>16, <1>18, <1>20, <1>21 DEF WorkerNext, Handle

(* TypeOK: every variable of the running system stays in its type.         *)
THEOREM TypeCorrect == Spec => []TypeOK
<1>1. TypeOK /\ [Next]_vars => TypeOK'
  <2> SUFFICES ASSUME TypeOK, [Next]_vars PROVE TypeOK'
    OBVIOUS
  <2>1. CASE ServiceNext /\ UNCHANGED workerVars
    <3>1. DbTypeOK' /\ ServiceTypeOK'
      BY <2>1, ServiceType
    <3>2. \A p \in Partitions : Offsets(p) \subseteq Offsets(p)'
      BY <2>1, LogGrows
    <3>3. WorkerTypeOK'
      BY <2>1, <3>2 DEF TypeOK, WorkerTypeOK, SessionTypeOK, ClaimTypeOK, ProgressTypeOK, CallTypeOK,
         workerVars, sessionVars, Busy
    <3>4. QED
      BY <3>1, <3>3 DEF TypeOK
  <2>2. CASE WorkerNext /\ UNCHANGED serviceVars
    <3>1. ServiceTypeOK'
      BY <2>2 DEF TypeOK, ServiceTypeOK, serviceVars
    <3>2. QED
      BY <2>2, <3>1, WorkerType DEF TypeOK
  <2>3. CASE UNCHANGED vars
    BY <2>3 DEF vars, dbVars, serviceVars, workerVars, TypeOK, DbTypeOK, ServiceTypeOK, WorkerTypeOK,
       SessionTypeOK, ClaimTypeOK, ProgressTypeOK, CallTypeOK, sessionVars, Busy, Offsets
  <2>4. QED
    BY <2>1, <2>2, <2>3 DEF Next
<1>2. QED
  BY <1>1, InitType, PTL DEF Spec
=============================================================================
