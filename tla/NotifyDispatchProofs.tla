------------------------- MODULE NotifyDispatchProofs -------------------------
(***************************************************************************)
(* What is sent.  A record is written only for a message that was marked   *)
(* first, never for a request that ends with an error (the cron job may    *)
(* write one once the message is due, when the insert was committed all    *)
(* the same), and no handler takes up what was canceled before; for one    *)
(* queue there are at most as many records as its callers have attempts,   *)
(* and HandleEnqueue can always go on sending.                             *)
(***************************************************************************)
EXTENDS NotifyStatusProofs, FiniteSetTheorems

-----------------------------------------------------------------------------
(* Whoever is about to mark or send a message has one that was inserted;   *)
(* whoever sends has it marked.                                            *)
Marked(m) == messages[m].status \notin {"absent", "pending", "scheduled"}

CallerInv(c) ==
    /\ pc[c] = "process" => Exists(messages[Job(c)])
    /\ pc[c] = "send" => \A q \in JobQueues(c) : Marked(Job(c))

DispatchInv ==
    /\ \A c \in Callers : CallerInv(c)
    /\ \A c \in Crons : \A m \in todo[c] : Exists(messages[m])
    /\ DispatchedIsMarked

LEMMA MarkStays ==
    ASSUME RowsInv, Labels, NEW m \in Messages
    PROVE  /\ Exists(messages[m]) => Exists(messages'[m])
           /\ Marked(m) => Marked(m)'
<1>1. MessageLabel(m)
  BY DEF Labels
<1>2. Marked(m) => pc[m] # "new"
  BY DEF RowsInv, Absent, NoRow, Marked
<1>3. QED
  BY <1>1, <1>2 DEF MessageLabel, Marked, Exists

(* A caller's message. *)
LEMMA JobIsMessage ==
    ASSUME TypeOK, NEW c \in Callers, pc[c] \in {"process", "send"}
    PROVE  Job(c) \in Messages
BY ServiceAssumption DEF TypeOK, ServiceTypeOK, Job, Callers

(* The steps that move no caller and write no record.                      *)
LEMMA DispatchStays ==
    ASSUME TypeOK, RowsInv, DispatchInv, Labels, UNCHANGED <<log, pc, job, todo>>
    PROVE  DispatchInv'
<1>1. \A c \in Callers : CallerInv(c)'
  <2> SUFFICES ASSUME NEW c \in Callers PROVE CallerInv(c)'
    OBVIOUS
  <2>1. Job(c)' = Job(c) /\ JobQueues(c)' = JobQueues(c) /\ CallerInv(c)
    BY DEF Job, JobQueues, DispatchInv
  <2>2. QED
    BY <2>1, JobIsMessage, MarkStays DEF CallerInv
<1>2. \A c \in Crons : \A m \in todo'[c] : Exists(messages'[m])
  BY MarkStays DEF DispatchInv, TypeOK, ServiceTypeOK
<1>3. DispatchedIsMarked'
  BY MarkStays, DataAssumption DEF DispatchInv, DispatchedIsMarked, Marked, InTopic, Offsets
<1>4. QED
  BY <1>1, <1>2, <1>3 DEF DispatchInv

(* The steps of one caller, outside of the sends.                          *)
LEMMA DispatchMoves ==
    ASSUME TypeOK, RowsInv, DispatchInv, Labels,
           NEW c \in Callers, OthersStay(c), UNCHANGED log, CallerInv(c)',
           \A d \in Crons : \A m \in todo'[d] : m \in todo[d] \/ m \in Selectable
    PROVE  DispatchInv'
<1>1. \A d \in Callers : CallerInv(d)'
  <2> SUFFICES ASSUME NEW d \in Callers, d # c PROVE CallerInv(d)'
    OBVIOUS
  <2>1. Job(d)' = Job(d) /\ pc'[d] = pc[d] /\ CallerInv(d)
    BY DEF OthersStay, DispatchInv
  <2>2. JobQueues(d)' = JobQueues(d)
    BY <2>1 DEF JobQueues, QueuesOf
  <2>3. QED
    BY <2>1, <2>2, JobIsMessage, MarkStays DEF CallerInv
<1>2. \A d \in Crons : \A m \in todo'[d] : Exists(messages'[m])
  BY MarkStays DEF DispatchInv, TypeOK, ServiceTypeOK, Selectable, Visible
<1>3. DispatchedIsMarked'
  BY MarkStays, DataAssumption DEF DispatchInv, DispatchedIsMarked, Marked, InTopic, Offsets
<1>4. QED
  BY <1>1, <1>2, <1>3 DEF DispatchInv

(* SendMessage writes its own queue only.                                  *)
LEMMA OnlyItsRecord ==
    ASSUME TypeOK, SendInv, NEW c \in Callers, NEW q \in Queues, SendMessage(c, q), ServiceNext,
           NEW r, InTopic(r)', ~InTopic(r)
    PROVE  r = q
<1> DEFINE at == send[c][q].at
<1>1. send[c][q].st = "trying"
  BY DEF SendMessage
<1>2. at \in PartitionsOf(TypeOf(q))
  BY <1>1 DEF SendInv
<1>3. /\ \A p \in Partitions : p # at => log'[p] = log[p]
      /\ \A i \in Offsets(at)' : i \in Offsets(at) \/ log'[at][i] = q
      /\ send'[c][q].at = at
  BY SendMessageEffect
<1>4. PICK p \in Partitions : \E i \in Offsets(p)' : log'[p][i] = r
  BY DEF InTopic
<1>5. PICK i \in Offsets(p)' : log'[p][i] = r
  BY <1>4
<1>6. p = at
  BY <1>3, <1>5 DEF InTopic, Offsets
<1>7. i \notin Offsets(at)
  BY <1>5, <1>6, LogGrows DEF InTopic
<1>8. Offsets(p)' = Offsets(at)'
  BY <1>3, <1>6 DEF Offsets
<1>9. QED
  BY <1>3, <1>5, <1>6, <1>7, <1>8

(* What MarkProcess leaves of a message: it was inserted, so it is marked  *)
(* now, or canceled.                                                       *)
LEMMA ProcessMarks ==
    ASSUME TypeOK, RowsInv, NEW m \in Messages, Exists(messages[m]),
           NEW Q \in SUBSET QueuesOf(m), Q # {}, BatchUpdateDatabase(Q, "process")
    PROVE  Marked(m)'
<1>1. {MessageId[q] : q \in Q} = {m}
  BY DEF QueuesOf
<1>2. messages' = SetStatus(messages, {m}, "process")
  BY <1>1 DEF BatchUpdateDatabase, UpdateMessages
<1>3. messages \in [Messages -> Row(MessageStatus)]
  BY DEF TypeOK, DbTypeOK
<1>4. CASE Visible(messages[m])
  <2>1. messages'[m] = [messages[m] EXCEPT !.status = "process"]
    BY <1>2, <1>3, <1>4 DEF SetStatus
  <2>2. QED
    BY <1>3, <2>1 DEF Row, Marked
<1>5. CASE ~Visible(messages[m])
  <2>1. messages'[m] = messages[m]
    BY <1>2, <1>3, <1>5 DEF SetStatus
  <2>2. messages[m].status = "canceled"
    BY <1>5 DEF RowsInv, Together, Absent, Live, Canceled, CanceledRow, NoRow, Exists
  <2>3. QED
    BY <2>1, <2>2 DEF Marked
<1>6. QED
  BY <1>4, <1>5

LEMMA DispatchStep ==
    ASSUME TypeOK, RowsInv, SendInv, DispatchInv, Labels, [Next]_vars
    PROVE  DispatchInv'
<1>0. /\ pc \in [Callers -> RequestPC \cup CronPC]
      /\ job \in [Crons -> Messages \cup {Nil}]
      /\ todo \in [Crons -> SUBSET Messages]
      /\ messages \in [Messages -> Row(MessageStatus)]
      /\ Messages \cap Crons = {}
  BY ServiceAssumption DEF TypeOK, DbTypeOK, ServiceTypeOK
<1>1. CASE UNCHANGED <<log, pc, job, todo>>
  BY <1>1, DispatchStays
<1>2. ASSUME NEW c \in Callers, NEW q \in Queues, SendMessage(c, q), ServiceNext
      PROVE  DispatchInv'
  <2>1. UNCHANGED <<messages, pc, job, todo>> /\ send[c][q].st = "trying"
    BY <1>2 DEF SendMessage, dbVars
  <2>2. pc[c] = "send" /\ q \in JobQueues(c)
    BY <2>1 DEF SendInv
  <2>3. Marked(MessageId[q])
    BY <2>2 DEF DispatchInv, CallerInv, JobQueues, QueuesOf
  <2>4. DispatchedIsMarked'
    BY <1>2, <2>1, <2>3, OnlyItsRecord DEF DispatchInv, DispatchedIsMarked, Marked
  <2>5. \A d \in Callers : CallerInv(d)'
    BY <2>1 DEF DispatchInv, CallerInv, Job, JobQueues, Marked
  <2>6. QED
    BY <2>1, <2>4, <2>5 DEF DispatchInv
<1>3. ASSUME NEW m \in Messages, PublishMessage(m)
      PROVE  DispatchInv'
  <2>1. PICK scheduled \in BOOLEAN : Publish(m, scheduled)
    BY <1>3 DEF PublishMessage, PublishSmsMessage, PublishMailMessage
  <2>2. m \in Callers /\ Job(m)' = m
    BY DEF Callers, Job
  <2>3. OthersStay(m) /\ UNCHANGED log
    BY <2>1, <2>2, CallerSteps
  <2>4. pc'[m] \in {"process", "ok", "error"}
    BY <1>0, <2>1, <2>2 DEF Publish
  <2>5. pc'[m] = "process" => Exists(messages'[m])
    BY <1>0, <2>1, <2>2 DEF Publish, InsertMessage, Insert, InitialStatus, Exists
  <2>6. CallerInv(m)'
    BY <2>2, <2>4, <2>5 DEF CallerInv
  <2>7. todo' = todo
    BY <2>1 DEF Publish
  <2>8. QED
    BY <2>2, <2>3, <2>6, <2>7, DispatchMoves
<1>4. ASSUME NEW c \in Callers, MarkProcess(c)
      PROVE  DispatchInv'
  <2>1. OthersStay(c) /\ UNCHANGED <<log, todo>>
    BY <1>4, CallerSteps DEF MarkProcess
  <2>2. CASE Return(c, TRUE)
    <3>1. pc'[c] \in {"take", "error", "ok"}
      BY <2>2, ReturnLeaves
    <3>2. QED
      BY <2>1, <3>1, DispatchMoves DEF CallerInv
  <2>3. CASE /\ BatchUpdateDatabase(JobQueues(c), "process")
             /\ pc' = [pc EXCEPT ![c] = "send"]
             /\ UNCHANGED <<job, send>>
    <3>1. Job(c) \in Messages /\ Exists(messages[Job(c)]) /\ Job(c)' = Job(c)
      BY <1>4, <2>3, JobIsMessage DEF MarkProcess, DispatchInv, CallerInv, Job
    <3>2. JobQueues(c) # {} => Marked(Job(c))'
      BY <2>3, <3>1, ProcessMarks DEF JobQueues
    <3>3. CallerInv(c)'
      BY <1>0, <2>3, <3>1, <3>2 DEF CallerInv, JobQueues
    <3>4. QED
      BY <2>1, <3>3, DispatchMoves
  <2>4. QED
    BY <1>4, <2>2, <2>3 DEF MarkProcess
<1>5. ASSUME NEW c \in Callers, MarkEnqueued(c) \/ CrashCaller(c)
      PROVE  DispatchInv'
  <2>1. OthersStay(c) /\ UNCHANGED log
    BY <1>5, CallerSteps
  <2>2. \A d \in Crons : todo'[d] \subseteq todo[d]
    BY <1>0, <1>5 DEF MarkEnqueued, CrashCaller
  <2>3. pc'[c] \in {"take", "error", "ok", "idle", "crashed"}
    BY <1>0, <1>5, ReturnLeaves DEF MarkEnqueued, CrashCaller
  <2>4. CallerInv(c)'
    BY <2>3 DEF CallerInv
  <2>5. QED
    BY <2>1, <2>2, <2>4, DispatchMoves
<1>6. ASSUME NEW c \in Crons, Execute(c)
      PROVE  DispatchInv'
  <2>0. c \in Callers
    BY DEF Callers
  <2>1. OthersStay(c) /\ UNCHANGED log
    BY <1>6, <2>0, CallerSteps
  <2>2. \A d \in Crons : \A m \in todo'[d] : m \in todo[d] \/ m \in Selectable
    BY <1>0, <1>6 DEF Execute, SelectScheduled, PreloadQueues, NextMessage, FinishJob
  <2>3. CASE SelectScheduled(c) \/ PreloadQueues(c) \/ FinishJob(c)
    <3>1. pc'[c] \in {"selected", "take", "idle"}
      BY <1>0, <2>0, <2>3 DEF SelectScheduled, PreloadQueues, FinishJob
    <3>2. CallerInv(c)'
      BY <3>1 DEF CallerInv
    <3>3. QED
      BY <2>0, <2>1, <2>2, <3>2, DispatchMoves
  <2>4. CASE NextMessage(c)
    <3>1. PICK m \in todo[c] : job' = [job EXCEPT ![c] = m]
      BY <2>4 DEF NextMessage
    <3>2. pc'[c] = "process" /\ messages' = messages
      BY <1>0, <2>0, <2>4 DEF NextMessage, dbVars
    <3>3. Job(c)' = m
      BY <1>0, <3>1 DEF Job
    <3>4. CallerInv(c)'
      BY <3>1, <3>2, <3>3 DEF CallerInv, DispatchInv
    <3>5. QED
      BY <2>0, <2>1, <2>2, <3>4, DispatchMoves
  <2>5. QED
    BY <1>6, <2>3, <2>4 DEF Execute
<1>7. CASE ServiceNext
  <2>1. ASSUME NEW c \in Callers, NEW q \in Queues, Spawn(c, q) \/ StopRetrying(c, q)
        PROVE  DispatchInv'
    BY <1>1, <2>1 DEF Spawn, StopRetrying
  <2>2. ASSUME NEW m \in Messages,
               CancelCheck(m) \/ CancelCommit(m) \/ ClientGone(m) \/ BecomeDue(m) \/ Expire(m)
        PROVE  DispatchInv'
    BY <1>1, <2>2 DEF CancelCheck, CancelCommit, ClientGone, BecomeDue, Expire
  <2>3. QED
    BY <1>2, <1>3, <1>4, <1>5, <1>6, <1>7, <2>1, <2>2 DEF ServiceNext, HandleEnqueue
<1>8. QED
  BY <1>1, <1>7, WorkersWriteNoRecord DEF Next, vars, serviceVars

-----------------------------------------------------------------------------
(* A request that has not come to its sends, or was answered with an       *)
(* error, has put no record in a topic.  An insert that was committed all  *)
(* the same leaves a scheduled message, which no cron job has in hand      *)
(* before it was due.                                                      *)
Unanswered == {"new", "process", "error"}

HeldBack(m) ==
    /\ \A c \in Crons : m \notin todo[c] /\ job[c] # m
    /\ \A q \in QueuesOf(m) : ~InTopic(q)

ErrorInv ==
    \A m \in Messages :
        /\ pc[m] \in {"new", "process"} => messages[m].status # "scheduled" /\ phase[m] = "early"
        /\ pc[m] \in Unanswered /\ phase[m] = "early" => HeldBack(m)

LEMMA StaysUnanswered ==
    ASSUME TypeOK, [Next]_vars, NEW m \in Messages, pc'[m] \in Unanswered
    PROVE  pc[m] \in Unanswered
<1>0. /\ pc \in [Callers -> RequestPC \cup CronPC]
      /\ m \in Callers /\ m \notin Crons
  BY ServiceAssumption DEF TypeOK, ServiceTypeOK, Callers
<1>1. CASE pc' = pc
  BY <1>1
<1>2. ASSUME NEW n \in Messages, PublishMessage(n)
      PROVE  pc[m] \in Unanswered
  BY <1>0, <1>2 DEF PublishMessage, PublishSmsMessage, PublishMailMessage, Publish, Unanswered
<1>3. ASSUME NEW c \in Callers, MarkProcess(c)
      PROVE  pc[m] \in Unanswered
  BY <1>0, <1>3 DEF MarkProcess, Return, Unanswered
<1>4. ASSUME NEW c \in Callers, MarkEnqueued(c)
      PROVE  pc[m] \in Unanswered
  <2>1. Return(c, FALSE)
    BY <1>4 DEF MarkEnqueued, UpdateErrorReturned
  <2>2. pc'[c] # "error"
    BY <1>4, <2>1, ReturnLeaves
  <2>3. CASE c = m
    BY <1>0, <2>1, <2>2, <2>3 DEF Return, Returned, Unanswered
  <2>4. CASE c # m
    BY <1>0, <2>1, <2>4 DEF Return
  <2>5. QED
    BY <2>3, <2>4
<1>5. ASSUME NEW c \in Callers, CrashCaller(c)
      PROVE  pc[m] \in Unanswered
  BY <1>0, <1>5 DEF CrashCaller, Unanswered
<1>6. ASSUME NEW c \in Crons, Execute(c)
      PROVE  pc[m] \in Unanswered
  <2>1. pc'[m] = pc[m]
    BY <1>0, <1>6 DEF Execute, SelectScheduled, PreloadQueues, NextMessage, FinishJob
  <2>2. QED
    BY <2>1
<1>7. CASE ServiceNext
  <2>1. ASSUME NEW c \in Callers, NEW q \in Queues,
               Spawn(c, q) \/ SendMessage(c, q) \/ StopRetrying(c, q)
        PROVE  pc[m] \in Unanswered
    BY <1>1, <2>1 DEF Spawn, SendMessage, StopRetrying
  <2>2. ASSUME NEW n \in Messages,
               CancelCheck(n) \/ CancelCommit(n) \/ ClientGone(n) \/ BecomeDue(n) \/ Expire(n)
        PROVE  pc[m] \in Unanswered
    BY <1>1, <2>2 DEF CancelCheck, CancelCommit, ClientGone, BecomeDue, Expire
  <2>3. QED
    BY <1>2, <1>3, <1>4, <1>5, <1>6, <1>7, <2>1, <2>2 DEF ServiceNext, HandleEnqueue
<1>8. QED
  BY <1>1, <1>7 DEF Next, vars, serviceVars

(* The jobs of the cron processes come from those they selected.           *)
LEMMA JobsComeFromTodo ==
    ASSUME TypeOK, [Next]_vars, NEW c \in Crons, NEW m \in Messages
    PROVE  /\ m \in todo'[c] => m \in todo[c] \/ m \in Selectable
           /\ job'[c] = m => job[c] = m \/ m \in todo[c]
<1>0. /\ job \in [Crons -> Messages \cup {Nil}]
      /\ todo \in [Crons -> SUBSET Messages]
      /\ Nil \notin Messages
  BY DataAssumption DEF TypeOK, ServiceTypeOK
<1>1. CASE UNCHANGED <<job, todo>>
  BY <1>1
<1>2. ASSUME NEW d \in Callers, MarkProcess(d) \/ MarkEnqueued(d)
      PROVE  todo' = todo /\ (job' = job \/ job' = [job EXCEPT ![d] = Nil])
  BY <1>2 DEF MarkProcess, MarkEnqueued, Return
<1>3. ASSUME NEW d \in Callers, CrashCaller(d)
      PROVE  /\ job' = job \/ job' = [job EXCEPT ![d] = Nil]
             /\ todo' = todo \/ todo' = [todo EXCEPT ![d] = {}]
  BY <1>3 DEF CrashCaller
<1>4. ASSUME NEW d \in Crons, Execute(d)
      PROVE  /\ m \in todo'[c] => m \in todo[c] \/ m \in Selectable
             /\ job'[c] = m => job[c] = m \/ m \in todo[c]
  BY <1>0, <1>4 DEF Execute, SelectScheduled, PreloadQueues, NextMessage, FinishJob
<1>5. ASSUME NEW d \in Callers, HandleEnqueue(d) \/ CrashCaller(d)
      PROVE  /\ m \in todo'[c] => m \in todo[c]
             /\ job'[c] = m => job[c] = m
  <2>1. CASE \E q \in Queues : Spawn(d, q) \/ SendMessage(d, q) \/ StopRetrying(d, q)
    BY <2>1 DEF Spawn, SendMessage, StopRetrying
  <2>2. CASE MarkProcess(d) \/ MarkEnqueued(d)
    BY <1>0, <1>2, <2>2
  <2>3. CASE CrashCaller(d)
    BY <1>0, <1>3, <2>3
  <2>4. QED
    BY <1>5, <2>1, <2>2, <2>3 DEF HandleEnqueue
<1>6. ASSUME NEW n \in Messages,
             \/ PublishMessage(n) \/ CancelCheck(n) \/ CancelCommit(n)
             \/ ClientGone(n) \/ BecomeDue(n) \/ Expire(n)
      PROVE  UNCHANGED <<job, todo>>
  BY <1>6 DEF PublishMessage, PublishSmsMessage, PublishMailMessage, Publish, CancelCheck,
     CancelCommit, ClientGone, BecomeDue, Expire
<1>7. CASE ServiceNext
  BY <1>1, <1>4, <1>5, <1>6, <1>7 DEF ServiceNext
<1>8. QED
  BY <1>1, <1>7 DEF Next, vars, serviceVars

(* The end of a request is final.                                          *)
LEMMA EndsStay ==
    ASSUME TypeOK, [Next]_vars, NEW m \in Messages, pc[m] \in {"ok", "crashed", "error"}
    PROVE  pc'[m] = pc[m]
<1>0. /\ pc \in [Callers -> RequestPC \cup CronPC]
      /\ m \in Callers /\ m \notin Crons
  BY ServiceAssumption DEF TypeOK, ServiceTypeOK, Callers
<1>1. CASE pc' = pc
  BY <1>1
<1>2. ASSUME NEW n \in Messages, PublishMessage(n)
      PROVE  pc'[m] = pc[m]
  BY <1>0, <1>2 DEF PublishMessage, PublishSmsMessage, PublishMailMessage, Publish
<1>3. ASSUME NEW c \in Callers, MarkProcess(c) \/ MarkEnqueued(c) \/ CrashCaller(c)
      PROVE  pc'[m] = pc[m]
  BY <1>0, <1>3 DEF MarkProcess, MarkEnqueued, CrashCaller, Return
<1>4. ASSUME NEW c \in Crons, Execute(c)
      PROVE  pc'[m] = pc[m]
  BY <1>0, <1>4 DEF Execute, SelectScheduled, PreloadQueues, NextMessage, FinishJob
<1>5. CASE ServiceNext
  <2>1. ASSUME NEW c \in Callers, NEW q \in Queues,
               Spawn(c, q) \/ SendMessage(c, q) \/ StopRetrying(c, q)
        PROVE  pc'[m] = pc[m]
    BY <1>1, <2>1 DEF Spawn, SendMessage, StopRetrying
  <2>2. ASSUME NEW n \in Messages,
               CancelCheck(n) \/ CancelCommit(n) \/ ClientGone(n) \/ BecomeDue(n) \/ Expire(n)
        PROVE  pc'[m] = pc[m]
    BY <1>1, <2>2 DEF CancelCheck, CancelCommit, ClientGone, BecomeDue, Expire
  <2>3. QED
    BY <1>2, <1>3, <1>4, <1>5, <2>1, <2>2 DEF ServiceNext, HandleEnqueue
<1>6. QED
  BY <1>1, <1>5 DEF Next, vars, serviceVars

(* Time goes on, for scheduled messages. *)
LEMMA PhasesGoForward ==
    ASSUME TypeOK, [Next]_vars, NEW m \in Messages
    PROVE  /\ phase'[m] = "early" => phase[m] = "early"
           /\ messages[m].status # "scheduled" => phase'[m] = phase[m]
<1>0. phase \in [Messages -> {"early", "due", "expired"}]
  BY DEF TypeOK, ServiceTypeOK
<1>1. CASE phase' = phase
  BY <1>1
<1>2. ASSUME NEW n \in Messages, BecomeDue(n) \/ Expire(n)
      PROVE  /\ phase'[m] = "early" => phase[m] = "early"
             /\ messages[m].status # "scheduled" => phase'[m] = phase[m]
  BY <1>0, <1>2 DEF BecomeDue, Expire
<1>3. CASE ServiceNext
  BY <1>1, <1>2, <1>3 DEF ServiceNext, PublishMessage, PublishSmsMessage, PublishMailMessage, Publish,
     HandleEnqueue, MarkProcess, Spawn, SendMessage, StopRetrying, MarkEnqueued, CrashCaller, Execute,
     SelectScheduled, PreloadQueues, NextMessage, FinishJob, CancelCheck, CancelCommit, ClientGone
<1>4. QED
  BY <1>1, <1>3 DEF Next, vars, serviceVars

LEMMA HeldBackStays ==
    ASSUME TypeOK, SendInv, ErrorInv, Labels, [Next]_vars, NEW m \in Messages,
           pc'[m] \in Unanswered, phase'[m] = "early"
    PROVE  HeldBack(m)'
<1>0. pc[m] \in Unanswered /\ phase[m] = "early" /\ HeldBack(m)
  BY StaysUnanswered, PhasesGoForward DEF ErrorInv
<1>1. \A c \in Crons : m \notin todo'[c] /\ job'[c] # m
  BY <1>0, JobsComeFromTodo DEF HeldBack, Selectable
<1>2. ASSUME NEW q \in QueuesOf(m) PROVE ~InTopic(q)'
  <2>1. CASE UNCHANGED log
    BY <1>0, <2>1 DEF HeldBack, InTopic, Offsets
  <2>2. ASSUME NEW c \in Callers, NEW r \in Queues, SendMessage(c, r), ServiceNext, InTopic(q)'
        PROVE  FALSE
    <3>1. q = r
      BY <1>0, <2>2, OnlyItsRecord DEF HeldBack
    <3>2. pc[c] = "send" /\ q \in JobQueues(c)
      BY <2>2, <3>1 DEF SendMessage, SendInv
    <3>3. Job(c) = m
      BY <3>2 DEF JobQueues, QueuesOf
    <3>4. QED
      BY <1>0, <3>2, <3>3 DEF Job, Callers, HeldBack, Unanswered
  <2>3. CASE ServiceNext
    <3>1. UNCHANGED log \/ \E c \in Callers, r \in Queues : SendMessage(c, r)
      BY <2>3 DEF ServiceNext, PublishMessage, PublishSmsMessage, PublishMailMessage, Publish,
         HandleEnqueue, MarkProcess, Spawn, StopRetrying, MarkEnqueued, CrashCaller, Execute,
         SelectScheduled, PreloadQueues, NextMessage, FinishJob, CancelCheck, CancelCommit,
         ClientGone, BecomeDue, Expire
    <3>2. QED
      BY <2>1, <2>2, <2>3, <3>1
  <2>4. QED
    BY <2>1, <2>3, WorkersWriteNoRecord DEF Next, vars
<1>3. QED
  BY <1>1, <1>2 DEF HeldBack, QueuesOf

LEMMA ErrorStep ==
    ASSUME TypeOK, SendInv, ErrorInv, Labels, [Next]_vars
    PROVE  ErrorInv'
<1>1. ASSUME NEW m \in Messages, pc'[m] \in {"new", "process"}
      PROVE  messages'[m].status # "scheduled" /\ phase'[m] = "early"
  <2>1. pc[m] \in {"new", "process"}
    BY <1>1, StaysUnanswered, EndsStay DEF Unanswered
  <2>2. messages[m].status # "scheduled" /\ phase[m] = "early"
    BY <2>1 DEF ErrorInv
  <2>3. messages'[m].status # "scheduled"
    BY <1>1, <2>2 DEF Labels, MessageLabel
  <2>4. phase'[m] = phase[m]
    BY <2>2, PhasesGoForward
  <2>5. QED
    BY <2>2, <2>3, <2>4
<1>2. QED
  BY <1>1, HeldBackStays DEF ErrorInv

-----------------------------------------------------------------------------
(* What is canceled stays canceled. *)
LEMMA DeletedStays ==
    ASSUME TypeOK, RowsInv, [Next]_vars, NEW q \in Queues, queues[q].deleted
    PROVE  queues'[q].deleted
<1>0. /\ queues \in [Queues -> Row(QueueStatus)]
      /\ ~Visible(queues[q]) /\ queues[q] # NoRow
  BY DEF TypeOK, DbTypeOK, Visible, NoRow
<1>1. CASE Updated(queues, queues')
  BY <1>0, <1>1 DEF Updated
<1>2. CASE WorkerNext
  BY <1>1, <1>2, WorkerUpdates
<1>3. CASE UNCHANGED dbVars
  BY <1>3 DEF dbVars
<1>4. ASSUME NEW m \in Messages, PublishMessage(m)
      PROVE  queues'[q].deleted
  <2>1. pc[m] = "new"
    BY <1>4 DEF PublishMessage, PublishSmsMessage, PublishMailMessage, Publish
  <2>2. q \notin QueuesOf(m)
    BY <1>0, <2>1 DEF RowsInv, Absent
  <2>3. CASE queues' = Insert(queues, QueuesOf(m), "pending")
    BY <1>0, <2>2, <2>3 DEF Insert
  <2>4. QED
    BY <1>3, <1>4, <2>3 DEF PublishMessage, PublishSmsMessage, PublishMailMessage, Publish, InsertMessage
<1>5. ASSUME NEW m \in Messages, CancelCommit(m)
      PROVE  queues'[q].deleted
  <2>1. CASE queues' = SoftDelete(queues, QueuesOf(m))
    BY <1>0, <2>1 DEF SoftDelete
  <2>2. QED
    BY <1>3, <1>5, <2>1 DEF CancelCommit, DeleteMessage
<1>6. ASSUME NEW c \in Callers, MarkProcess(c) \/ MarkEnqueued(c)
      PROVE  queues'[q].deleted
  <2>1. UNCHANGED dbVars \/ \E Q, status : queues' = SetStatus(queues, Q, status)
    BY <1>6 DEF MarkProcess, MarkEnqueued, BatchUpdateDatabase
  <2>2. CASE \E Q, status : queues' = SetStatus(queues, Q, status)
    BY <1>0, <2>2 DEF SetStatus
  <2>3. QED
    BY <1>3, <2>1, <2>2
<1>7. CASE ServiceNext
  BY <1>3, <1>4, <1>5, <1>6, <1>7 DEF ServiceNext, HandleEnqueue, Execute, CancelCheck, ClientGone,
     BecomeDue, Expire, Spawn, SendMessage, StopRetrying, CrashCaller, SelectScheduled,
     PreloadQueues, NextMessage, FinishJob
<1>8. QED
  BY <1>2, <1>3, <1>7 DEF Next, vars

(* A handler holds what it held, or a queue it found visible; a provider   *)
(* is called with what a handler holds.                                    *)
LEMMA HandlersHold ==
    ASSUME TypeOK, [Next]_vars, NEW q \in Queues
    PROVE  /\ q \in handed' => q \in handed \/ Held(q)
           /\ Held(q)' => Held(q) \/ Visible(queues[q])
<1>0. claim \in [Workers -> [Partitions -> Claim]]
  BY DEF TypeOK, WorkerTypeOK, ClaimTypeOK
<1>1. ASSUME NEW w \in Workers, NEW p \in Partitions,
             claim'[w][p].pc # "idle" => Busy(w, p) /\ claim'[w][p].offset = claim[w][p].offset
      PROVE  Busy(w, p)' /\ Claimed(w, p)' = q => Held(q)
  BY <1>1, ClaimStays DEF Busy, Held
<1>2. CASE UNCHANGED <<claim, handed>>
  BY <1>1, <1>2 DEF Held, Busy
<1>3. ASSUME NEW w \in Workers, Die(w)
      PROVE  Held(q)' => Held(q)
  <2>1. \A v \in Workers, p \in Partitions :
           claim'[v][p].pc # "idle" => Busy(v, p) /\ claim'[v][p].offset = claim[v][p].offset
    BY <1>0, <1>3 DEF Die, NoClaim, Busy
  <2>2. QED
    BY <1>1, <2>1 DEF Held
<1>4. ASSUME NEW w \in Workers, NEW p \in Partitions,
             \A v \in Workers, r \in Partitions : v # w \/ r # p => claim'[v][r] = claim[v][r],
             claim'[w][p].pc # "idle" => Busy(w, p) /\ claim'[w][p].offset = claim[w][p].offset
      PROVE  Held(q)' => Held(q)
  <2>1. \A v \in Workers, r \in Partitions :
           claim'[v][r].pc # "idle" => Busy(v, r) /\ claim'[v][r].offset = claim[v][r].offset
    BY <1>4 DEF Busy
  <2>2. QED
    BY <1>1, <2>1 DEF Held
<1>5. ASSUME NEW w \in Workers, NEW p \in Partitions, Handle(w, p)
      PROVE  /\ q \in handed' => q \in handed \/ Held(q)
             /\ Held(q)' => Held(q) \/ Visible(queues[q])
  <2>1. CASE Fetch(w, p)
    <3>1. /\ claim'[w][p].offset = next[p] /\ log' = log
          /\ \A v \in Workers, r \in Partitions : v # w \/ r # p => claim'[v][r] = claim[v][r]
          /\ Visible(queues[log[p][next[p]]])
          /\ handed' = handed
      BY <1>0, <2>1 DEF Fetch, Found, NoClaim
    <3>2. Claimed(w, p)' = log[p][next[p]]
      BY <3>1 DEF Claimed
    <3>3. \A v \in Workers, r \in Partitions :
             (v # w \/ r # p) /\ Busy(v, r)' /\ Claimed(v, r)' = q => Held(q)
      BY <1>1, <3>1 DEF Busy
    <3>4. QED
      BY <3>1, <3>2, <3>3 DEF Held
  <2>2. CASE FetchNothing(w, p)
    BY <1>3, <2>2 DEF FetchNothing
  <2>3. CASE FetchError(w, p)
    BY <1>2, <1>3, <2>3 DEF FetchError
  <2>4. CASE Preload(w, p)
    <3> DEFINE loaded == {t \in TargetsOf({Claimed(w, p)}) : Visible(targets[t])}
    <3>1. claim' = [claim EXCEPT ![w][p] = [@ EXCEPT !.pc = "loaded", !.loaded = loaded]]
      BY <2>4 DEF Preload
    <3> HIDE DEF loaded
    <3>2. /\ \A v \in Workers, r \in Partitions : v # w \/ r # p => claim'[v][r] = claim[v][r]
          /\ claim'[w][p].offset = claim[w][p].offset
      BY <1>0, <3>1 DEF Claim
    <3>3. Busy(w, p) /\ handed' = handed
      BY <2>4 DEF Preload, Busy
    <3>4. QED
      BY <1>4, <3>2, <3>3
  <2>5. CASE UpdateProcessingStatus(w, p)
    <3>1. handed' = handed /\ Busy(w, p)
      BY <2>5 DEF UpdateProcessingStatus, Busy
    <3>2. CASE Die(w)
      BY <1>3, <3>1, <3>2
    <3>3. CASE Goto(w, p, "sending") \/ Leave(w, p)
      <4>1. /\ \A v \in Workers, r \in Partitions : v # w \/ r # p => claim'[v][r] = claim[v][r]
            /\ claim'[w][p].pc # "idle" => claim'[w][p].offset = claim[w][p].offset
        BY <1>0, <3>3 DEF Goto, Leave, NoClaim, Claim
      <4>2. QED
        BY <1>4, <3>1, <4>1
    <3>4. QED
      BY <2>5, <3>2, <3>3 DEF UpdateProcessingStatus, DbError, HandlerError
  <2>6. CASE SendSms(w, p) \/ SendEmail(w, p)
    <3>1. PICK answers : CallProvider(w, p, answers)
      BY <2>6 DEF SendSms, SendEmail
    <3>2. /\ \A v \in Workers, r \in Partitions : v # w \/ r # p => claim'[v][r] = claim[v][r]
          /\ Busy(w, p) /\ claim'[w][p].offset = claim[w][p].offset
          /\ handed' = handed \cup {Claimed(w, p)}
      BY <1>0, <3>1 DEF CallProvider, Busy, Claim
    <3>3. q \in handed' => q \in handed \/ Held(q)
      BY <3>2 DEF Held
    <3>4. QED
      BY <1>4, <3>2, <3>3
  <2>7. CASE HandleSendResult(w, p) \/ MarkAndCommit(w, p)
    <3>1. handed' = handed /\ Busy(w, p)
      BY <2>7 DEF HandleSendResult, MarkAndCommit, Busy
    <3>2. Goto(w, p, "handled") \/ Leave(w, p)
      BY <2>7 DEF HandleSendResult, HandlerError, MarkAndCommit
    <3>3. /\ \A v \in Workers, r \in Partitions : v # w \/ r # p => claim'[v][r] = claim[v][r]
          /\ claim'[w][p].pc # "idle" => claim'[w][p].offset = claim[w][p].offset
      BY <1>0, <3>2 DEF Goto, Leave, NoClaim, Claim
    <3>4. QED
      BY <1>4, <3>1, <3>3
  <2>8. QED
    BY <1>5, <2>1, <2>2, <2>3, <2>4, <2>5, <2>6, <2>7 DEF Handle
<1>6. CASE WorkerNext
  BY <1>2, <1>3, <1>5, <1>6 DEF WorkerNext, Rebalance, Assign, CrashWorker
<1>7. QED
  BY <1>2, <1>6 DEF Next, vars, workerVars

-----------------------------------------------------------------------------
LEMMA DispatchStart == Init => DispatchInv /\ ErrorInv
BY ServiceAssumption, DataAssumption DEF Init, DbInit, ServiceInit, DispatchInv, CallerInv,
   DispatchedIsMarked, ErrorInv, HeldBack, InTopic, Offsets, Callers, NoRow

LEMMA DispatchInvariant == Spec => [](DispatchInv /\ ErrorInv)
<1>1. /\ TypeOK /\ RowsInv /\ StatusInv /\ DispatchInv /\ ErrorInv /\ [Next]_vars
      => (DispatchInv /\ ErrorInv)'
  BY StepLabels, DispatchStep, ErrorStep DEF StatusInv
<1>2. QED
  BY <1>1, DispatchStart, TypeCorrect, RowsInvariant, StatusInvariant, PTL DEF Spec

(* DispatchedIsMarked: what is in a topic was committed to the database    *)
(* first, and is out of the cron job's reach.                              *)
THEOREM DispatchedAreMarked == Spec => []DispatchedIsMarked
BY DispatchInvariant, PTL DEF DispatchInv

(* ErrorSendsNothing: a request that was answered with an error has put    *)
(* nothing in a topic, nor has a cron job before the message was due.      *)
THEOREM ErrorsSendNothing == Spec => []ErrorSendsNothing
<1>1. ErrorInv => ErrorSendsNothing
  BY DEF ErrorInv, HeldBack, ErrorSendsNothing, Unanswered
<1>2. QED
  BY <1>1, DispatchInvariant, PTL

(* CanceledStaysOut: no provider is ever called with a queue that was      *)
(* canceled before a handler found it.                                     *)
THEOREM CanceledAreLeftOut == Spec => CanceledStaysOut
<1>1. TypeOK /\ RowsInv /\ [Next]_vars => [\A q \in Queues : Out(q) => Out(q)']_vars
  <2> SUFFICES ASSUME TypeOK, RowsInv, [Next]_vars, NEW q \in Queues, Out(q)
               PROVE  Out(q)'
    OBVIOUS
  <2>1. queues'[q].deleted
    BY DeletedStays DEF Out
  <2>2. q \notin handed' /\ ~Held(q)'
    BY HandlersHold DEF Out, Visible
  <2>3. QED
    BY <2>1, <2>2 DEF Out
<1>2. QED
  BY <1>1, TypeCorrect, RowsInvariant, PTL DEF Spec, CanceledStaysOut

-----------------------------------------------------------------------------
(* How often.  What a caller may still add to the records of a queue is    *)
(* counted beforehand: one token for each copy of each attempt it has      *)
(* left.  Whoever sends spends tokens, and nobody gets new ones once a     *)
(* message is marked.                                                      *)

\* A caller that has the message in hand, or on its list.
MayDispatch(c, m) ==
    \/ c = m /\ pc[c] \in {"process", "send"}
    \/ c \in Crons /\ (m \in todo[c] \/ job[c] = m)

\* The attempts made, or given up.
Spent(c, q) ==
    IF pc[c] = "send" /\ Job(c) = MessageId[q] /\ send[c][q].st # "none"
    THEN IF send[c][q].st = "trying" THEN send[c][q].tries ELSE MaxRetries
    ELSE 0

Attempts == (1 .. MaxRetries) \X (1 .. MaxCopies)

Tokens(q) ==
    {x \in Callers \X Attempts :
        MayDispatch(x[1], MessageId[q]) /\ Spent(x[1], q) < x[2][1]}

BoundInv ==
    \A q \in Queues :
        /\ IsFiniteSet(Records(q))
        /\ Cardinality(Records(q)) + Cardinality(Tokens(q)) <= MaxDispatches

\* A request sends what it published for now, the cron processes what was
\* published for later; a cron process has a message in hand or on its list.
OwnerInv ==
    /\ \A m \in Messages :
          pc[m] \notin {"ok", "crashed", "error"} =>
              /\ messages[m].status # "scheduled"
              /\ \A c \in Crons : m \notin todo[c] /\ job[c] # m
    /\ \A c \in Crons : pc[c] \notin {"process", "send"} => job[c] = Nil
    /\ \A c \in Crons : job[c] \notin todo[c]

(* A cron process takes a message off its list when it takes it in hand,   *)
(* and has none in hand when it draws up a list.                           *)
LEMMA HandsAndLists ==
    ASSUME TypeOK, OwnerInv, [Next]_vars, NEW c \in Crons
    PROVE  /\ pc'[c] \notin {"process", "send"} => job'[c] = Nil
           /\ job'[c] \notin todo'[c]
<1>0. /\ pc \in [Callers -> RequestPC \cup CronPC]
      /\ job \in [Crons -> Messages \cup {Nil}]
      /\ todo \in [Crons -> SUBSET Messages]
      /\ c \in Callers /\ c \notin Messages /\ Nil \notin Messages
  BY ServiceAssumption, DataAssumption DEF TypeOK, ServiceTypeOK, Callers
<1>o. /\ pc[c] \notin {"process", "send"} => job[c] = Nil
      /\ job[c] \notin todo[c]
  BY DEF OwnerInv
<1>1. CASE UNCHANGED <<pc, job, todo>>
  BY <1>o, <1>1
<1>2. ASSUME NEW d \in Callers, d # c, OthersStay(d), todo'[c] = todo[c]
      PROVE  /\ pc'[c] \notin {"process", "send"} => job'[c] = Nil
             /\ job'[c] \notin todo'[c]
  BY <1>0, <1>o, <1>2 DEF OthersStay, Job
<1>3. CASE MarkProcess(c) \/ MarkEnqueued(c)
  <2>1. CASE \E err : Return(c, err)
    BY <1>0, <1>3, <2>1 DEF Return, MarkProcess, MarkEnqueued
  <2>2. CASE pc' = [pc EXCEPT ![c] = "send"] /\ UNCHANGED <<job, send>>
    BY <1>0, <1>o, <1>3, <2>2 DEF MarkProcess, MarkEnqueued
  <2>3. QED
    BY <1>3, <2>1, <2>2 DEF MarkProcess, MarkEnqueued
<1>4. CASE CrashCaller(c)
  BY <1>0, <1>4 DEF CrashCaller
<1>5. CASE Execute(c)
  BY <1>0, <1>o, <1>5 DEF Execute, SelectScheduled, PreloadQueues, NextMessage, FinishJob, Selectable
<1>6. ASSUME NEW d \in Callers, d # c, MarkProcess(d) \/ MarkEnqueued(d) \/ CrashCaller(d)
      PROVE  /\ pc'[c] \notin {"process", "send"} => job'[c] = Nil
             /\ job'[c] \notin todo'[c]
  <2>1. OthersStay(d)
    BY <1>6, CallerSteps
  <2>2. todo'[c] = todo[c]
    BY <1>0, <1>6 DEF MarkProcess, MarkEnqueued, CrashCaller
  <2>3. QED
    BY <1>2, <1>6, <2>1, <2>2
<1>7. ASSUME NEW d \in Crons, d # c, Execute(d)
      PROVE  /\ pc'[c] \notin {"process", "send"} => job'[c] = Nil
             /\ job'[c] \notin todo'[c]
  <2>1. OthersStay(d) /\ d \in Callers
    BY <1>7, CallerSteps DEF Callers
  <2>2. todo'[c] = todo[c]
    BY <1>0, <1>7 DEF Execute, SelectScheduled, PreloadQueues, NextMessage, FinishJob
  <2>3. QED
    BY <1>2, <1>7, <2>1, <2>2
<1>8. ASSUME NEW m \in Messages, PublishMessage(m)
      PROVE  /\ pc'[c] \notin {"process", "send"} => job'[c] = Nil
             /\ job'[c] \notin todo'[c]
  BY <1>0, <1>o, <1>8 DEF PublishMessage, PublishSmsMessage, PublishMailMessage, Publish
<1>9. CASE ServiceNext
  <2>1. ASSUME NEW d \in Callers, NEW q \in Queues,
               Spawn(d, q) \/ SendMessage(d, q) \/ StopRetrying(d, q)
        PROVE  UNCHANGED <<pc, job, todo>>
    BY <2>1 DEF Spawn, SendMessage, StopRetrying
  <2>2. ASSUME NEW m \in Messages,
               CancelCheck(m) \/ CancelCommit(m) \/ ClientGone(m) \/ BecomeDue(m) \/ Expire(m)
        PROVE  UNCHANGED <<pc, job, todo>>
    BY <2>2 DEF CancelCheck, CancelCommit, ClientGone, BecomeDue, Expire
  <2>3. QED
    BY <1>1, <1>3, <1>4, <1>5, <1>6, <1>7, <1>8, <1>9, <2>1, <2>2 DEF ServiceNext, HandleEnqueue
<1>10. QED
  BY <1>1, <1>9 DEF Next, vars, serviceVars

LEMMA OwnerStep ==
    ASSUME TypeOK, OwnerInv, Labels, [Next]_vars
    PROVE  OwnerInv'
<1>1. ASSUME NEW m \in Messages, pc'[m] \notin {"ok", "crashed", "error"}
      PROVE  /\ messages'[m].status # "scheduled"
             /\ \A c \in Crons : m \notin todo'[c] /\ job'[c] # m
  <2>1. pc[m] \notin {"ok", "crashed", "error"}
    BY <1>1, EndsStay
  <2>2. /\ messages[m].status # "scheduled"
        /\ \A c \in Crons : m \notin todo[c] /\ job[c] # m
    BY <2>1 DEF OwnerInv
  <2>3. messages'[m].status # "scheduled"
    BY <1>1, <2>2 DEF Labels, MessageLabel
  <2>4. QED
    BY <2>2, <2>3, JobsComeFromTodo DEF Selectable
<1>2. QED
  BY <1>1, HandsAndLists DEF OwnerInv

-----------------------------------------------------------------------------
(* The tokens there are at most: those of the request, or those of every   *)
(* cron process.                                                           *)
LEMMA TokensBounded ==
    ASSUME TypeOK, OwnerInv, NEW q \in Queues
    PROVE  IsFiniteSet(Tokens(q)) /\ Cardinality(Tokens(q)) <= MaxDispatches
<1> DEFINE m == MessageId[q]
           D == IF pc[m] \in {"process", "send"} THEN {m} ELSE Crons
           N == IF Crons = {} THEN 1 ELSE Cardinality(Crons)
<1>0. m \in Messages /\ IsFiniteSet(Crons)
  BY DataAssumption, ServiceAssumption
<1>1. Tokens(q) \in SUBSET (D \X Attempts)
  <2> SUFFICES ASSUME NEW x \in Tokens(q) PROVE x \in D \X Attempts
    OBVIOUS
  <2>1. x \in Callers \X Attempts /\ MayDispatch(x[1], m)
    BY DEF Tokens
  <2>2. x[1] \in D
    BY <1>0, <2>1 DEF MayDispatch, OwnerInv
  <2>3. QED
    BY <2>1, <2>2
<1>2. /\ IsFiniteSet(D) /\ Cardinality(D) \in Nat /\ N \in Nat
      /\ Cardinality(D) <= N
  <2>1. Cardinality(Crons) \in Nat /\ (Crons # {} => Cardinality(Crons) # 0)
    BY <1>0, FS_CardinalityType, FS_EmptySet
  <2>2. CASE pc[m] \in {"process", "send"}
    <3>1. D = {m}
      BY <2>2
    <3>2. IsFiniteSet({m}) /\ Cardinality({m}) = 1
      BY FS_Singleton
    <3>3. QED
      BY <2>1, <3>1, <3>2
  <2>3. CASE pc[m] \notin {"process", "send"}
    <3>1. D = Crons
      BY <2>3
    <3>2. Cardinality(Crons) <= N
      BY <2>1, FS_EmptySet
    <3>3. QED
      BY <1>0, <2>1, <3>1, <3>2
  <2>4. QED
    BY <2>2, <2>3
<1>3. IsFiniteSet(Attempts) /\ Cardinality(Attempts) = MaxRetries * MaxCopies
  <2>1. /\ IsFiniteSet(1 .. MaxRetries) /\ Cardinality(1 .. MaxRetries) = MaxRetries
        /\ IsFiniteSet(1 .. MaxCopies) /\ Cardinality(1 .. MaxCopies) = MaxCopies
    BY ServiceAssumption, FS_Interval
  <2> DEFINE A == 1 .. MaxRetries
             B == 1 .. MaxCopies
  <2>2. Attempts = A \X B
    BY DEF Attempts
  <2> HIDE DEF A, B
  <2>3. IsFiniteSet(A \X B) /\ Cardinality(A \X B) = Cardinality(A) * Cardinality(B)
    BY <2>1, FS_Product DEF A, B
  <2>4. QED
    BY <2>1, <2>2, <2>3 DEF A, B
<1>4. /\ IsFiniteSet(D \X Attempts)
      /\ Cardinality(D \X Attempts) = Cardinality(D) * (MaxRetries * MaxCopies)
  BY <1>2, <1>3, FS_Product
<1>5. /\ IsFiniteSet(Tokens(q)) /\ Cardinality(Tokens(q)) \in Nat
      /\ Cardinality(Tokens(q)) <= Cardinality(D) * (MaxRetries * MaxCopies)
  BY <1>1, <1>4, FS_Subset, FS_CardinalityType
<1> HIDE DEF N, D
<1>6. Cardinality(D) * (MaxRetries * MaxCopies) <= MaxRetries * MaxCopies * N
  <2>1. ASSUME NEW a \in Nat, NEW b \in Nat, NEW k \in Nat, a <= b PROVE a * k <= k * b
    BY <2>1
  <2>2. MaxRetries * MaxCopies \in Nat
    BY ServiceAssumption
  <2>3. QED
    BY <1>2, <2>1, <2>2
<1>7. MaxRetries * MaxCopies * N = MaxDispatches
  BY DEF MaxDispatches, N
<1>8. MaxRetries * MaxCopies * N \in Nat /\ Cardinality(D) * (MaxRetries * MaxCopies) \in Nat
  BY <1>2, ServiceAssumption
<1>9. QED
  BY <1>5, <1>6, <1>7, <1>8

(* What is spent lies between nothing and all attempts.                    *)
LEMMA SpentType ==
    ASSUME TypeOK, NEW c \in Callers, NEW q \in Queues
    PROVE  Spent(c, q) \in 0 .. MaxRetries
BY ServiceAssumption DEF TypeOK, ServiceTypeOK, SendState, Spent

(* Nobody is given a message, or an attempt, for a queue in a topic.       *)
LEMMA NobodyTakesItUp ==
    ASSUME TypeOK, ErrorInv, DispatchedIsMarked, [Next]_vars,
           NEW q \in Queues, InTopic(q), NEW c \in Callers, MayDispatch(c, MessageId[q])'
    PROVE  MayDispatch(c, MessageId[q])
<1> DEFINE m == MessageId[q]
<1>0. m \in Messages /\ q \in QueuesOf(m)
  BY DataAssumption DEF QueuesOf
<1>1. CASE c = m /\ pc'[m] \in {"process", "send"}
  <2>1. pc[m] \notin {"new", "process"}
    BY <1>0 DEF ErrorInv, HeldBack, Unanswered
  <2>2. pc[m] \notin {"ok", "crashed", "error"}
    BY <1>0, <1>1, EndsStay
  <2>3. pc[m] \in RequestPC
    BY <1>0 DEF TypeOK, ServiceTypeOK
  <2>4. QED
    BY <1>1, <2>1, <2>2, <2>3 DEF RequestPC, MayDispatch
<1>2. CASE c \in Crons /\ (m \in todo'[c] \/ job'[c] = m)
  <2>1. m \notin Selectable
    BY DEF DispatchedIsMarked, Selectable
  <2>2. QED
    BY <1>0, <1>2, <2>1, JobsComeFromTodo DEF MayDispatch
<1>3. QED
  BY <1>1, <1>2 DEF MayDispatch

LEMMA NobodyForgets ==
    ASSUME TypeOK, TypeOK', OwnerInv, [Next]_vars,
           NEW q \in Queues, NEW c \in Callers, MayDispatch(c, MessageId[q])'
    PROVE  Spent(c, q) <= Spent(c, q)'
<1> DEFINE m == MessageId[q]
<1>0. /\ pc \in [Callers -> RequestPC \cup CronPC]
      /\ job \in [Crons -> Messages \cup {Nil}]
      /\ todo \in [Crons -> SUBSET Messages]
      /\ send \in [Callers -> [Queues -> SendState]]
      /\ Messages \cap Crons = {} /\ m \in Messages /\ Nil \notin Messages
      /\ MaxRetries \in Nat \ {0}
  BY ServiceAssumption, DataAssumption DEF TypeOK, ServiceTypeOK
<1>t. Spent(c, q) \in 0 .. MaxRetries /\ Spent(c, q)' \in 0 .. MaxRetries
  <2>1. send' \in [Callers -> [Queues -> SendState]]
    BY DEF TypeOK, ServiceTypeOK
  <2>2. Spent(c, q)' \in 0 .. MaxRetries
    BY <1>0, <2>1 DEF SendState, Spent
  <2>3. QED
    BY <2>2, SpentType
<1> SUFFICES ASSUME pc[c] = "send", Job(c) = m, send[c][q].st # "none"
             PROVE  Spent(c, q) <= Spent(c, q)'
  BY <1>0, <1>t DEF Spent
<1>1. CASE pc'[c] = pc[c] /\ Job(c)' = Job(c) /\ send'[c][q] = send[c][q]
  BY <1>0, <1>1, <1>t DEF Spent
<1>2. ASSUME NEW d \in Callers, OthersStay(d), d # c
      PROVE  Spent(c, q) <= Spent(c, q)'
  BY <1>1, <1>2 DEF OthersStay
<1>3. ~MarkEnqueued(c)
  <2> SUFFICES ASSUME MarkEnqueued(c) PROVE FALSE
    OBVIOUS
  <2>1. PICK err : Return(c, err)
    BY DEF MarkEnqueued
  <2>2. pc'[c] \notin {"process", "send"}
    BY <2>1, ReturnLeaves
  <2>3. CASE c \in Crons
    <3>1. job[c] = m /\ job'[c] = Nil /\ todo' = todo
      BY <1>0, <2>1, <2>3 DEF Return, MarkEnqueued, Job
    <3>2. m \notin todo[c]
      BY <2>3, <3>1 DEF OwnerInv
    <3>3. QED
      BY <1>0, <2>3, <3>1, <3>2 DEF MayDispatch
  <2>4. QED
    BY <1>0, <2>2, <2>3 DEF MayDispatch
<1>4. ~CrashCaller(c)
  BY <1>0 DEF CrashCaller, MayDispatch
<1>5. ~MarkProcess(c) /\ ~Execute(c) /\ \A n \in Messages : PublishMessage(n) => n # c
  BY DEF MarkProcess, Execute, SelectScheduled, PreloadQueues, NextMessage, FinishJob,
         PublishMessage, PublishSmsMessage, PublishMailMessage, Publish
<1>6. CASE ServiceNext
  <2>1. ASSUME NEW n \in Messages, PublishMessage(n)
        PROVE  Spent(c, q) <= Spent(c, q)'
    <3>1. n \in Callers /\ OthersStay(n)
      BY <2>1, CallerSteps DEF PublishMessage, PublishSmsMessage, PublishMailMessage, Callers
    <3>2. QED
      BY <1>2, <1>5, <2>1, <3>1
  <2>2. ASSUME NEW d \in Callers, MarkProcess(d) \/ MarkEnqueued(d) \/ CrashCaller(d)
        PROVE  Spent(c, q) <= Spent(c, q)'
    BY <1>2, <1>3, <1>4, <1>5, <2>2, CallerSteps
  <2>3. ASSUME NEW d \in Crons, Execute(d)
        PROVE  Spent(c, q) <= Spent(c, q)'
    <3>1. d \in Callers /\ OthersStay(d)
      BY <2>3, CallerSteps DEF Callers
    <3>2. QED
      BY <1>2, <1>5, <2>3, <3>1
  <2>4. ASSUME NEW n \in Messages,
               CancelCheck(n) \/ CancelCommit(n) \/ ClientGone(n) \/ BecomeDue(n) \/ Expire(n)
        PROVE  Spent(c, q) <= Spent(c, q)'
    <3>1. UNCHANGED <<pc, job, send>>
      BY <2>4 DEF CancelCheck, CancelCommit, ClientGone, BecomeDue, Expire
    <3>2. QED
      BY <1>1, <3>1 DEF Job
  <2>5. ASSUME NEW d \in Callers, NEW r \in Queues,
               Spawn(d, r) \/ SendMessage(d, r) \/ StopRetrying(d, r)
        PROVE  Spent(c, q) <= Spent(c, q)'
    <3>1. pc' = pc /\ job' = job /\ Job(c)' = Job(c)
      BY <2>5 DEF Spawn, SendMessage, StopRetrying, Job
    <3>2. CASE d # c \/ r # q
      <4>1. send'[c][q] = send[c][q]
        BY <1>0, <2>5, <3>2 DEF Spawn, SendMessage, StopRetrying
      <4>2. QED
        BY <1>1, <3>1, <4>1
    <3>3. CASE d = c /\ r = q /\ StopRetrying(c, q)
      <4>1. send'[c][q].st = "failed"
        BY <1>0, <3>3 DEF StopRetrying, SendState
      <4>2. QED
        BY <1>t, <3>1, <4>1 DEF Spent
    <3>4. CASE d = c /\ r = q /\ SendMessage(c, q)
      <4>1. /\ send[c][q].st = "trying" /\ send[c][q].tries \in 0 .. MaxRetries
            /\ send'[c][q].tries = send[c][q].tries + 1
            /\ send'[c][q].st \in {"ok", "failed", "trying"}
        BY <1>0, <3>4 DEF SendMessage, SendState, AfterFailure
      <4>2. Spent(c, q) = send[c][q].tries
        BY <4>1 DEF Spent
      <4>3. Spent(c, q)' \in {send[c][q].tries + 1, MaxRetries}
        BY <3>1, <4>1 DEF Spent
      <4>4. QED
        BY <1>0, <4>1, <4>2, <4>3
    <3>5. ~Spawn(c, q)
      BY DEF Spawn, NotStarted
    <3>6. QED
      BY <2>5, <3>2, <3>3, <3>4, <3>5
  <2>6. QED
    BY <1>6, <2>1, <2>2, <2>3, <2>4, <2>5 DEF ServiceNext, HandleEnqueue
<1>7. CASE UNCHANGED serviceVars
  BY <1>1, <1>7 DEF serviceVars, Job
<1>8. QED
  BY <1>6, <1>7 DEF Next, vars

LEMMA TokensShrink ==
    ASSUME TypeOK, TypeOK', OwnerInv, ErrorInv, DispatchedIsMarked, [Next]_vars,
           NEW q \in Queues, InTopic(q)
    PROVE  Tokens(q)' \subseteq Tokens(q)
<1> SUFFICES ASSUME NEW x \in Tokens(q)' PROVE x \in Tokens(q)
  OBVIOUS
<1>1. /\ x \in Callers \X Attempts
      /\ MayDispatch(x[1], MessageId[q])' /\ Spent(x[1], q)' < x[2][1]
  BY DEF Tokens
<1>2. x[1] \in Callers /\ x[2][1] \in 1 .. MaxRetries
  BY <1>1 DEF Attempts
<1>3. MayDispatch(x[1], MessageId[q])
  BY <1>1, <1>2, NobodyTakesItUp
<1>4. Spent(x[1], q) <= Spent(x[1], q)' /\ Spent(x[1], q) \in 0 .. MaxRetries
  BY <1>1, <1>2, NobodyForgets, SpentType
<1>5. Spent(x[1], q)' \in 0 .. MaxRetries
  <2>1. send' \in [Callers -> [Queues -> SendState]]
    BY DEF TypeOK, ServiceTypeOK
  <2>2. QED
    BY <1>2, <2>1, ServiceAssumption DEF SendState, Spent
<1>6. QED
  BY <1>1, <1>2, <1>3, <1>4, <1>5 DEF Tokens

(* A call of SendMessage adds a copy or more of its queue, at most         *)
(* MaxCopies of them, to the end of one partition, and nothing else.       *)
LEMMA RecordsAppended ==
    ASSUME TypeOK, ServiceNext, NEW c \in Callers, NEW q \in Queues, SendMessage(c, q),
           IsFiniteSet(Records(q))
    PROVE  /\ IsFiniteSet(Records(q)')
           /\ Cardinality(Records(q)') <= Cardinality(Records(q)) + MaxCopies
<1> DEFINE at == send[c][q].at
           len == Len(log[at])
<1>0. /\ send \in [Callers -> [Queues -> SendState]]
      /\ at \in Partitions
      /\ log \in [Partitions -> Seq(Queues)]
      /\ len \in Nat /\ MaxCopies \in Nat
  BY ServiceAssumption DEF SendMessage, TypeOK, DbTypeOK, ServiceTypeOK, SendState
<1>1. PICK n \in 0 .. MaxCopies : log' = [log EXCEPT ![at] = log[at] \o Copies(q, n)]
  BY DEF SendMessage
<1>2. Copies(q, n) \in Seq(Queues) /\ Len(Copies(q, n)) = n /\ n \in Nat
  BY <1>0 DEF Copies
<1>3. log'[at] = log[at] \o Copies(q, n) /\ log[at] \in Seq(Queues)
  BY <1>0, <1>1
<1>4. Len(log'[at]) = len + n
  <2> HIDE DEF at
  <2>1. QED
    BY <1>2, <1>3
<1> DEFINE tail == len + 1 .. len + n
           new == {at} \X tail
<1>5. IsFiniteSet(new) /\ Cardinality(new) = n
  <2>1. IsFiniteSet(tail) /\ Cardinality(tail) = n
    <3> HIDE DEF len
    <3>1. len + 1 \in Int /\ len + n \in Int /\ (len + 1 > len + n <=> n = 0)
      BY <1>0, <1>2
    <3>2. QED
      BY <1>0, <1>2, <3>1, FS_Interval
  <2>2. IsFiniteSet({at}) /\ Cardinality({at}) = 1
    BY FS_Singleton
  <2> HIDE DEF at, tail
  <2>3. IsFiniteSet(new) /\ Cardinality(new) = 1 * Cardinality(tail)
    BY <2>1, <2>2, FS_Product
  <2>4. QED
    BY <1>2, <2>1, <2>3
<1>6. Records(q)' \in SUBSET (Records(q) \cup new)
  <2> SUFFICES ASSUME NEW r \in Records(q)' PROVE r \in Records(q) \/ r \in new
    OBVIOUS
  <2>1. PICK p \in Partitions : r \in {p} \X Offsets(p)'
    BY DEF Records
  <2>2. PICK i \in Offsets(p)' : r = <<p, i>>
    BY <2>1
  <2>3. log'[p][i] = q
    BY <2>2 DEF Records
  <2>4. CASE i \in Offsets(p)
    <3>1. log[p][i] = q
      BY <2>3, <2>4, LogGrows
    <3>2. QED
      BY <2>2, <2>4, <3>1 DEF Records
  <2>5. CASE i \notin Offsets(p)
    <3>1. p = at
      BY <1>0, <1>1, <2>2, <2>5 DEF Offsets
    <3>2. i \in tail
      <4>1. i \in 1 .. Len(log'[at]) /\ i \notin 1 .. len
        BY <2>2, <2>5, <3>1 DEF Offsets
      <4> HIDE DEF at, len
      <4>2. QED
        BY <1>0, <1>2, <1>4, <4>1
    <3> HIDE DEF tail, at
    <3>3. QED
      BY <2>2, <3>1, <3>2
  <2>6. QED
    BY <2>4, <2>5
<1> HIDE DEF new
<1>7. /\ IsFiniteSet(Records(q) \cup new)
      /\ Cardinality(Records(q) \cup new) =
            Cardinality(Records(q)) + Cardinality(new) - Cardinality(Records(q) \cap new)
  BY <1>5, FS_Union
<1>8. /\ IsFiniteSet(Records(q)')
      /\ Cardinality(Records(q)') <= Cardinality(Records(q) \cup new)
  BY <1>6, <1>7, FS_Subset
<1>9. IsFiniteSet(Records(q) \cap new)
  BY <1>5, FS_Subset
<1>10. /\ Cardinality(Records(q)) \in Nat /\ Cardinality(Records(q) \cap new) \in Nat
       /\ Cardinality(Records(q)') \in Nat /\ Cardinality(Records(q) \cup new) \in Nat
  BY <1>7, <1>8, <1>9, FS_CardinalityType
<1>11. QED
  BY <1>0, <1>1, <1>5, <1>7, <1>8, <1>10

(* It spends the tokens of one attempt.                                    *)
LEMMA TokensSpent ==
    ASSUME TypeOK, TypeOK', SendInv, NEW c \in Callers, NEW q \in Queues, SendMessage(c, q),
           IsFiniteSet(Tokens(q))
    PROVE  /\ IsFiniteSet(Tokens(q)')
           /\ Cardinality(Tokens(q)') + MaxCopies <= Cardinality(Tokens(q))
<1> DEFINE m == MessageId[q]
           k == send[c][q].tries + 1
           copies == 1 .. MaxCopies
           row == {c} \X ({k} \X copies)
<1>0. /\ send \in [Callers -> [Queues -> SendState]]
      /\ Messages \cap Crons = {} /\ m \in Messages
      /\ MaxCopies \in Nat /\ MaxRetries \in Nat
  BY ServiceAssumption, DataAssumption DEF TypeOK, ServiceTypeOK
<1>1. /\ send[c][q].st = "trying" /\ send[c][q].tries \in 0 .. MaxRetries
      /\ k \in 1 .. MaxRetries
      /\ pc[c] = "send" /\ Job(c) = m
      /\ UNCHANGED <<pc, job, todo>>
  BY <1>0 DEF SendMessage, SendInv, SendState, JobQueues, QueuesOf
<1>2. /\ send'[c][q].tries = k
      /\ send'[c][q].st \in {"ok", "failed", "trying"}
      /\ \A d \in Callers, r \in Queues : d # c \/ r # q => send'[d][r] = send[d][r]
  BY <1>0 DEF SendMessage, AfterFailure
<1>3. MayDispatch(c, m)
  BY <1>0, <1>1 DEF MayDispatch, Job, Callers
<1>4. Spent(c, q) < k /\ Spent(c, q)' >= k
  <2>1. Spent(c, q) = send[c][q].tries
    BY <1>1 DEF Spent
  <2>2. Spent(c, q)' \in {k, MaxRetries}
    BY <1>1, <1>2 DEF Spent, Job
  <2>3. QED
    BY <1>0, <1>1, <2>1, <2>2
<1>5. row \in SUBSET Tokens(q)
  <2> SUFFICES ASSUME NEW x \in row PROVE x \in Tokens(q)
    OBVIOUS
  <2>1. x \in Callers \X Attempts /\ x[1] = c /\ x[2][1] = k
    BY <1>1 DEF Attempts
  <2>2. QED
    BY <1>3, <1>4, <2>1 DEF Tokens
<1>6. Tokens(q)' \in SUBSET (Tokens(q) \ row)
  <2> SUFFICES ASSUME NEW x \in Tokens(q)' PROVE x \in Tokens(q) /\ x \notin row
    OBVIOUS
  <2>1. /\ x \in Callers \X Attempts
        /\ MayDispatch(x[1], m)' /\ Spent(x[1], q)' < x[2][1]
    BY DEF Tokens
  <2>2. MayDispatch(x[1], m)
    BY <1>1, <2>1 DEF MayDispatch
  <2>3. x[1] \in Callers /\ x[2][1] \in 1 .. MaxRetries
    BY <2>1 DEF Attempts
  <2>4. CASE x[1] = c
    <3>1. Spent(c, q)' \in 0 .. MaxRetries
      <4>1. send' \in [Callers -> [Queues -> SendState]]
        BY DEF TypeOK, ServiceTypeOK
      <4>2. QED
        BY <1>0, <4>1 DEF SendState, Spent
    <3>2. k < x[2][1] /\ Spent(c, q) < x[2][1]
      <4>1. Spent(c, q) \in 0 .. MaxRetries
        BY SpentType
      <4>2. QED
        BY <1>1, <1>4, <2>1, <2>3, <2>4, <3>1, <4>1
    <3>3. x \notin row
      BY <1>1, <2>3, <3>2
    <3>4. QED
      BY <2>1, <2>2, <2>4, <3>2, <3>3 DEF Tokens
  <2>5. CASE x[1] # c
    <3>1. Spent(x[1], q)' = Spent(x[1], q)
      BY <1>1, <1>2, <2>3, <2>5 DEF Spent, Job
    <3>2. QED
      BY <2>1, <2>2, <2>5, <3>1 DEF Tokens
  <2>6. QED
    BY <2>4, <2>5
<1>7. IsFiniteSet(row) /\ Cardinality(row) = MaxCopies
  <2>1. IsFiniteSet(copies) /\ Cardinality(copies) = MaxCopies
    BY <1>0, FS_Interval
  <2>2. /\ IsFiniteSet({c}) /\ Cardinality({c}) = 1
        /\ IsFiniteSet({k}) /\ Cardinality({k}) = 1
    BY FS_Singleton
  <2> HIDE DEF k, copies
  <2>3. IsFiniteSet({k} \X copies) /\ Cardinality({k} \X copies) = 1 * Cardinality(copies)
    BY <2>1, <2>2, FS_Product
  <2>4. IsFiniteSet(row) /\ Cardinality(row) = 1 * Cardinality({k} \X copies)
    BY <2>2, <2>3, FS_Product
  <2>5. QED
    BY <1>0, <2>1, <2>3, <2>4
<1> HIDE DEF row
<1>8. /\ IsFiniteSet(Tokens(q) \ row)
      /\ Cardinality(Tokens(q) \ row) = Cardinality(Tokens(q)) - Cardinality(Tokens(q) \cap row)
  BY FS_Difference
<1>9. Tokens(q) \cap row = row
  BY <1>5
<1>10. /\ IsFiniteSet(Tokens(q)')
       /\ Cardinality(Tokens(q)') <= Cardinality(Tokens(q) \ row)
  BY <1>6, <1>8, FS_Subset
<1>11. /\ Cardinality(Tokens(q)) \in Nat /\ Cardinality(Tokens(q)') \in Nat
       /\ Cardinality(Tokens(q) \ row) \in Nat
  BY <1>8, <1>10, FS_CardinalityType
<1>12. Cardinality(Tokens(q) \ row) = Cardinality(Tokens(q)) - MaxCopies
  BY <1>7, <1>8, <1>9
<1> HIDE DEF m, k, copies
<1>13. QED
  BY <1>0, <1>10, <1>11, <1>12

(* Every other step leaves the records of a queue as they are.             *)
LEMMA OthersAddNone ==
    ASSUME TypeOK, [Next]_vars, NEW q \in Queues,
           ~ \E c \in Callers : SendMessage(c, q) /\ ServiceNext
    PROVE  Records(q)' \subseteq Records(q)
<1>1. CASE UNCHANGED log
  BY <1>1 DEF Records, Offsets
<1>2. ASSUME NEW c \in Callers, NEW s \in Queues, s # q, SendMessage(c, s), ServiceNext
      PROVE  Records(q)' \subseteq Records(q)
  <2> DEFINE at == send[c][s].at
  <2>1. /\ send'[c][s].at = at
        /\ \A p \in Partitions : p # at => log'[p] = log[p]
        /\ \A i \in Offsets(at)' : i \in Offsets(at) \/ log'[at][i] = s
    BY <1>2, SendMessageEffect
  <2> SUFFICES ASSUME NEW r \in Records(q)' PROVE r \in Records(q)
    OBVIOUS
  <2>2. PICK p \in Partitions : r \in {p} \X Offsets(p)'
    BY DEF Records
  <2>3. PICK i \in Offsets(p)' : r = <<p, i>>
    BY <2>2
  <2>4. log'[p][i] = q
    BY <2>3 DEF Records
  <2>5. i \in Offsets(p)
    <3>1. CASE p = at
      BY <1>2, <2>1, <2>3, <2>4, <3>1 DEF Offsets
    <3>2. CASE p # at
      BY <2>1, <2>3, <3>2 DEF Offsets
    <3>3. QED
      BY <3>1, <3>2
  <2>6. log[p][i] = q
    BY <1>2, <2>4, <2>5, LogGrows
  <2>7. QED
    BY <2>3, <2>5, <2>6 DEF Records
<1>3. CASE ServiceNext
  <2>1. \/ \E c \in Callers, s \in Queues : SendMessage(c, s)
        \/ UNCHANGED log
    BY <1>3 DEF ServiceNext, PublishMessage, PublishSmsMessage, PublishMailMessage, Publish,
       HandleEnqueue, MarkProcess, Spawn, StopRetrying, MarkEnqueued, CrashCaller, Execute,
       SelectScheduled, PreloadQueues, NextMessage, FinishJob, CancelCheck, CancelCommit,
       ClientGone, BecomeDue, Expire
  <2>2. QED
    BY <1>1, <1>2, <1>3, <2>1
<1>4. QED
  BY <1>1, <1>3, WorkersWriteNoRecord DEF Next, vars

FewTokens ==
    \A q \in Queues : IsFiniteSet(Tokens(q)) /\ Cardinality(Tokens(q)) <= MaxDispatches

LEMMA DispatchesType == MaxDispatches \in Nat
BY ServiceAssumption, FS_CardinalityType DEF MaxDispatches

LEMMA BoundStep ==
    ASSUME TypeOK, TypeOK', SendInv, OwnerInv, ErrorInv, DispatchedIsMarked, FewTokens, FewTokens',
           BoundInv, [Next]_vars
    PROVE  BoundInv'
<1> SUFFICES ASSUME NEW q \in Queues
             PROVE  /\ IsFiniteSet(Records(q)')
                    /\ Cardinality(Records(q)') + Cardinality(Tokens(q)') <= MaxDispatches
  BY DEF BoundInv
<1>0. /\ IsFiniteSet(Records(q)) /\ Cardinality(Records(q)) \in Nat
      /\ IsFiniteSet(Tokens(q)) /\ Cardinality(Tokens(q)) \in Nat
      /\ Cardinality(Records(q)) + Cardinality(Tokens(q)) <= MaxDispatches
  BY FS_CardinalityType DEF BoundInv, FewTokens
<1>1. /\ IsFiniteSet(Tokens(q)') /\ Cardinality(Tokens(q)') \in Nat
      /\ Cardinality(Tokens(q)') <= MaxDispatches
  BY FS_CardinalityType DEF FewTokens
<1>d. MaxDispatches \in Nat /\ MaxCopies \in Nat
  BY DispatchesType, ServiceAssumption
<1>2. ASSUME NEW c \in Callers, SendMessage(c, q), ServiceNext
      PROVE  /\ IsFiniteSet(Records(q)')
             /\ Cardinality(Records(q)') + Cardinality(Tokens(q)') <= MaxDispatches
  <2>1. /\ IsFiniteSet(Records(q)')
        /\ Cardinality(Records(q)') <= Cardinality(Records(q)) + MaxCopies
    BY <1>0, <1>2, RecordsAppended
  <2>2. Cardinality(Tokens(q)') + MaxCopies <= Cardinality(Tokens(q))
    BY <1>0, <1>2, TokensSpent
  <2>3. Cardinality(Records(q)') \in Nat
    BY <2>1, FS_CardinalityType
  <2>4. QED
    BY <1>0, <1>1, <1>d, <2>1, <2>2, <2>3
<1>3. CASE Records(q)' \subseteq Records(q)
  <2>1. /\ IsFiniteSet(Records(q)')
        /\ Cardinality(Records(q)') <= Cardinality(Records(q))
    BY <1>0, <1>3, FS_Subset
  <2>2. Cardinality(Records(q)') \in Nat
    BY <2>1, FS_CardinalityType
  <2>3. CASE Records(q)' = {}
    BY <1>1, <1>d, <2>1, <2>3, FS_EmptySet
  <2>4. CASE Records(q)' # {}
    <3>1. PICK r : r \in Records(q)
      BY <1>3, <2>4
    <3>2. InTopic(q)
      BY <3>1 DEF Records, InTopic
    <3>3. Tokens(q)' \in SUBSET Tokens(q)
      BY <3>2, TokensShrink
    <3>4. Cardinality(Tokens(q)') <= Cardinality(Tokens(q))
      BY <1>0, <3>3, FS_Subset
    <3>5. QED
      BY <1>0, <1>1, <1>d, <2>1, <2>2, <3>4
  <2>5. QED
    BY <2>3, <2>4
<1>4. QED
  BY <1>2, <1>3, OthersAddNone

LEMMA BoundStart == Init => OwnerInv /\ (FewTokens => BoundInv)
<1> SUFFICES ASSUME Init PROVE OwnerInv /\ (FewTokens => BoundInv)
  OBVIOUS
<1>1. OwnerInv
  BY DataAssumption, ServiceAssumption
     DEF Init, DbInit, ServiceInit, OwnerInv, NoRow, Callers
<1>2. ASSUME FewTokens, NEW q \in Queues
      PROVE  /\ IsFiniteSet(Records(q))
             /\ Cardinality(Records(q)) + Cardinality(Tokens(q)) <= MaxDispatches
  <2>1. Records(q) = {}
    BY DEF Init, DbInit, Records, Offsets
  <2>2. /\ Cardinality(Tokens(q)) <= MaxDispatches
        /\ Cardinality(Tokens(q)) \in Nat
    BY <1>2, FS_CardinalityType DEF FewTokens
  <2>3. QED
    BY <2>1, <2>2, FS_EmptySet
<1>3. QED
  BY <1>1, <1>2 DEF BoundInv

LEMMA BoundInvariant == Spec => [](OwnerInv /\ FewTokens /\ BoundInv)
<1>1. TypeOK /\ OwnerInv => FewTokens
  BY TokensBounded DEF FewTokens
<1>2. TypeOK /\ RowsInv /\ StatusInv /\ OwnerInv /\ [Next]_vars => OwnerInv'
  BY StepLabels, OwnerStep DEF StatusInv
<1>3. /\ TypeOK /\ TypeOK' /\ StatusInv /\ OwnerInv /\ DispatchInv /\ ErrorInv
      /\ FewTokens /\ FewTokens' /\ BoundInv /\ [Next]_vars
      => BoundInv'
  BY BoundStep DEF StatusInv, DispatchInv
<1>4. QED
  BY <1>1, <1>2, <1>3, BoundStart, TypeCorrect, RowsInvariant, StatusInvariant, DispatchInvariant,
     PTL DEF Spec

(* DispatchBounded: however often calls are retried, processes crash and   *)
(* cron runs overlap, a queue gets into the topic a bounded number of      *)
(* times.                                                                  *)
THEOREM DispatchesAreBounded == Spec => []DispatchBounded
<1>1. FewTokens /\ BoundInv => DispatchBounded
  <2> SUFFICES ASSUME FewTokens, BoundInv, NEW q \in Queues
               PROVE  Cardinality(Records(q)) <= MaxDispatches
    BY DEF DispatchBounded
  <2>1. /\ Cardinality(Records(q)) \in Nat /\ Cardinality(Tokens(q)) \in Nat
        /\ Cardinality(Records(q)) + Cardinality(Tokens(q)) <= MaxDispatches
    BY FS_CardinalityType DEF FewTokens, BoundInv
  <2>2. QED
    BY <2>1, DispatchesType
<1>2. QED
  BY <1>1, BoundInvariant, PTL

-----------------------------------------------------------------------------
(* Sending.  A goroutine is started once, counts its attempts and ends     *)
(* after the last; and one that tries has an attempt left.                 *)
GoesOn(c, q) ==
    \/ send[c][q].st = "none" /\ send'[c][q].st = "trying" /\ send'[c][q].tries = 0
    \/ send[c][q].st = "trying" /\ send'[c][q].st \in {"ok", "failed"}
    \/ /\ send[c][q].st = "trying" /\ send'[c][q].st = "trying"
       /\ send'[c][q].tries = send[c][q].tries + 1
       /\ send'[c][q].tries < MaxRetries

\* The goroutines of a caller that is through are forgotten.
Forgets(c, q) ==
    send'[c][q] = NoSend /\ ~(pc[c] = "send" /\ pc'[c] = "send")

RetryInv ==
    \A c \in Callers, q \in Queues : send[c][q].st = "trying" => send[c][q].tries < MaxRetries

LEMMA SendChanges ==
    ASSUME TypeOK, [Next]_vars, NEW c \in Callers, NEW q \in Queues
    PROVE  send'[c][q] = send[c][q] \/ Forgets(c, q) \/ GoesOn(c, q)
<1> DEFINE Goal == send'[c][q] = send[c][q] \/ Forgets(c, q) \/ GoesOn(c, q)
<1>0. /\ pc \in [Callers -> RequestPC \cup CronPC]
      /\ send \in [Callers -> [Queues -> SendState]]
      /\ MaxRetries \in Nat \ {0}
  BY ServiceAssumption DEF TypeOK, ServiceTypeOK
<1>1. ASSUME NEW d \in Callers, OthersStay(d), d # c
      PROVE  Goal
  BY <1>1 DEF OthersStay
<1>2. CASE MarkProcess(c) \/ MarkEnqueued(c)
  <2>1. ASSUME NEW err, Return(c, err) PROVE Goal
    <3>1. pc'[c] # "send" /\ send'[c][q] = NoSend
      BY <2>1, ReturnLeaves
    <3>2. QED
      BY <3>1 DEF Forgets
  <2>2. QED
    BY <1>2, <2>1 DEF MarkProcess, MarkEnqueued
<1>3. CASE CrashCaller(c)
  <2>1. pc'[c] # "send" /\ send'[c][q] = NoSend
    BY <1>0, <1>3 DEF CrashCaller
  <2>2. QED
    BY <2>1 DEF Forgets
<1>4. ASSUME NEW d \in Callers, NEW r \in Queues, d # c \/ r # q,
             Spawn(d, r) \/ SendMessage(d, r) \/ StopRetrying(d, r)
      PROVE  Goal
  <2>1. send'[c][q] = send[c][q]
    BY <1>0, <1>4 DEF Spawn, SendMessage, StopRetrying
  <2>2. QED
    BY <2>1
<1>5. CASE Spawn(c, q)
  <2>1. send[c][q].st = "none" /\ send'[c][q].st = "trying" /\ send'[c][q].tries = 0
    BY <1>0, <1>5 DEF Spawn, NotStarted
  <2>2. QED
    BY <2>1 DEF GoesOn
<1>6. CASE SendMessage(c, q)
  <2>1. /\ send[c][q].st = "trying"
        /\ send'[c][q].tries = send[c][q].tries + 1
        /\ send[c][q].tries + 1 \in 1 .. MaxRetries
        /\ \/ send'[c][q].st \in {"ok", "failed"}
           \/ send'[c][q].st = "trying" /\ ~(send[c][q].tries + 1 >= MaxRetries)
    BY <1>0, <1>6 DEF SendMessage, SendState, AfterFailure
  <2>2. send'[c][q].st = "trying" => send'[c][q].tries < MaxRetries
    BY <1>0, <2>1
  <2>3. QED
    BY <2>1, <2>2 DEF GoesOn
<1>7. CASE StopRetrying(c, q)
  <2>1. send[c][q].st = "trying" /\ send'[c][q].st = "failed"
    BY <1>0, <1>7 DEF StopRetrying, SendState
  <2>2. QED
    BY <2>1 DEF GoesOn
<1>8. CASE UNCHANGED send
  BY <1>8
<1>9. CASE ServiceNext
  <2>1. ASSUME NEW d \in Callers, MarkProcess(d) \/ MarkEnqueued(d) \/ CrashCaller(d)
        PROVE  Goal
    BY <1>1, <1>2, <1>3, <2>1, CallerSteps
  <2>2. ASSUME NEW n \in Messages,
               \/ PublishMessage(n) \/ CancelCheck(n) \/ CancelCommit(n)
               \/ ClientGone(n) \/ BecomeDue(n) \/ Expire(n)
        PROVE  UNCHANGED send
    BY <2>2 DEF PublishMessage, PublishSmsMessage, PublishMailMessage, Publish,
                CancelCheck, CancelCommit, ClientGone, BecomeDue, Expire
  <2>3. ASSUME NEW d \in Crons, Execute(d)
        PROVE  UNCHANGED send
    BY <2>3 DEF Execute, SelectScheduled, PreloadQueues, NextMessage, FinishJob
  <2>4. ASSUME NEW d \in Callers, NEW r \in Queues,
               Spawn(d, r) \/ SendMessage(d, r) \/ StopRetrying(d, r)
        PROVE  Goal
    <3>1. CASE d # c \/ r # q
      BY <1>4, <2>4, <3>1
    <3>2. CASE d = c /\ r = q
      BY <1>5, <1>6, <1>7, <2>4, <3>2
    <3>3. QED
      BY <3>1, <3>2
  <2> HIDE DEF Goal
  <2>5. ASSUME NEW d \in Callers, HandleEnqueue(d) \/ CrashCaller(d)
        PROVE  Goal
    BY <2>1, <2>4, <2>5 DEF HandleEnqueue
  <2>6. Goal \/ UNCHANGED send
    BY <1>9, <2>2, <2>3, <2>5 DEF ServiceNext
  <2>7. QED
    BY <1>8, <2>6 DEF Goal
<1>10. QED
  BY <1>8, <1>9 DEF Next, vars, serviceVars

LEMMA RetryStep == TypeOK /\ RetryInv /\ [Next]_vars => RetryInv'
<1> SUFFICES ASSUME TypeOK, RetryInv, [Next]_vars, NEW c \in Callers, NEW q \in Queues,
                    send'[c][q].st = "trying"
             PROVE  send'[c][q].tries < MaxRetries
  BY DEF RetryInv
<1>1. ~Forgets(c, q)
  BY DEF Forgets, NoSend
<1>2. QED
  BY <1>1, SendChanges, ServiceAssumption DEF GoesOn, RetryInv

LEMMA RetryInvariant == Spec => []RetryInv
<1>1. Init => RetryInv
  BY DEF Init, ServiceInit, RetryInv, NoSend
<1>2. QED
  BY <1>1, RetryStep, TypeCorrect, PTL DEF Spec

(* SendersNeverStuck: HandleEnqueue always has a step of its own to take,  *)
(* with any number of slots, queues and attempts.                          *)
THEOREM SendersAreFree == Spec => []SendersNeverStuck
<1>1. TypeOK /\ SendInv /\ RetryInv => SendersNeverStuck
  <2> SUFFICES ASSUME TypeOK, SendInv, RetryInv, NEW c \in Callers, pc[c] = "send", ~AllSent(c)
               PROVE  CanSend(c)
    BY DEF SendersNeverStuck
  <2>1. PICK q \in JobQueues(c) : send[c][q].st \notin {"ok", "failed"}
    BY DEF AllSent
  <2>2. q \in Queues /\ send[c][q].st \in {"none", "trying"}
    BY <2>1 DEF JobQueues, QueuesOf, TypeOK, ServiceTypeOK, SendState
  <2>3. CASE \E r \in Queues : send[c][r].st = "trying"
    BY <2>3 DEF SendInv, RetryInv, CanSend
  <2>4. CASE \A r \in Queues : send[c][r].st # "trying"
    <3>1. Cardinality(Sending(c)) = 0
      BY <2>4, FS_EmptySet DEF Sending
    <3>2. SlotFree(c)
      BY <3>1, ServiceAssumption DEF SlotFree
    <3>3. PartitionsOf(TypeOf(q)) # {}
      BY <2>2, TopicAssumption, DataAssumption DEF PartitionsOf, TypeOf
    <3>4. QED
      BY <2>1, <2>2, <2>4, <3>2, <3>3 DEF CanSend
  <2>5. QED
    BY <2>3, <2>4
<1>2. QED
  BY <1>1, RetryInvariant, TypeCorrect, StatusInvariant, PTL DEF StatusInv

(* SendsGoForward: no goroutine is started twice and no attempt forgotten. *)
THEOREM SendsOnlyGoForward == Spec => SendsGoForward
<1>1. TypeOK /\ RetryInv /\ [Next]_vars =>
        [\A c \in Callers, q \in Queues :
            pc[c] = "send" /\ pc'[c] = "send" =>
                send'[c][q] = send[c][q] \/ Stage(c, q)' > Stage(c, q)]_vars
  <2> SUFFICES ASSUME TypeOK, RetryInv, [Next]_vars, NEW c \in Callers, NEW q \in Queues,
                      pc[c] = "send", pc'[c] = "send", send'[c][q] # send[c][q]
               PROVE  Stage(c, q)' > Stage(c, q)
    OBVIOUS
  <2>0. MaxRetries \in Nat \ {0} /\ send[c][q].tries \in 0 .. MaxRetries
    BY ServiceAssumption DEF TypeOK, ServiceTypeOK, SendState
  <2>1. GoesOn(c, q)
    BY SendChanges DEF Forgets
  <2>2. CASE send[c][q].st = "none" /\ send'[c][q].st = "trying" /\ send'[c][q].tries = 0
    BY <2>2 DEF Stage
  <2>3. CASE send[c][q].st = "trying" /\ send'[c][q].st = "trying"
             /\ send'[c][q].tries = send[c][q].tries + 1
    BY <2>0, <2>3 DEF Stage
  <2>4. CASE send[c][q].st = "trying" /\ send'[c][q].st \in {"ok", "failed"}
    <3>1. send[c][q].tries < MaxRetries
      BY <2>4 DEF RetryInv
    <3>2. Stage(c, q) = send[c][q].tries + 1 /\ Stage(c, q)' = MaxRetries + 1
      BY <2>4 DEF Stage
    <3>3. QED
      BY <2>0, <3>1, <3>2
  <2>5. QED
    BY <2>1, <2>2, <2>3, <2>4 DEF GoesOn
<1>2. QED
  BY <1>1, RetryInvariant, TypeCorrect, PTL DEF Spec, SendsGoForward
=============================================================================
