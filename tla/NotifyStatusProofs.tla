-------------------------- MODULE NotifyStatusProofs --------------------------
(***************************************************************************)
(* What a status says.  A row says "enqueued" only if its record is in a   *)
(* topic, and shows an outcome only if a provider was called: the          *)
(* goroutines of HandleEnqueue and the handlers have that fact in hand     *)
(* when they write, and topics, calls and events only grow.                *)
(***************************************************************************)
EXTENDS NotifyRowsProofs

-----------------------------------------------------------------------------
(* HandleEnqueue's goroutines: they run while their caller is at the sends,*)
(* each for a queue of its message, towards a partition of its topic; one  *)
(* that succeeded has left a record.                                       *)
SendInv ==
    /\ \A c \in Callers, q \in Queues :
          send[c][q].st # "none" => pc[c] = "send" /\ q \in JobQueues(c)
    /\ \A c \in Callers, q \in Queues :
          send[c][q].st = "trying" => send[c][q].at \in PartitionsOf(TypeOf(q))
    /\ \A c \in Callers, q \in Queues : send[c][q].st = "ok" => InTopic(q)
    /\ \A p \in Partitions : \A i \in Offsets(p) : TypeOf(log[p][i]) = Topic[p]

\* A step of one caller leaves the others alone.
OthersStay(c) ==
    \A d \in Callers : d # c =>
        pc'[d] = pc[d] /\ Job(d)' = Job(d) /\ send'[d] = send[d]

(* Where a caller's steps outside of the sends leave it and its goroutines.*)
LEMMA ReturnLeaves ==
    ASSUME TypeOK, NEW c \in Callers, NEW err, Return(c, err)
    PROVE  /\ OthersStay(c)
           /\ pc'[c] \in {"take", "error", "ok"}
           /\ pc'[c] = "error" => err
           /\ c \in Crons => pc'[c] = "take"
           /\ \A q \in Queues : send'[c][q] = NoSend
<1>1. /\ pc \in [Callers -> RequestPC \cup CronPC]
      /\ send \in [Callers -> [Queues -> SendState]]
      /\ job \in [Crons -> Messages \cup {Nil}]
  BY DEF TypeOK, ServiceTypeOK
<1>2. pc'[c] = Returned(c, err) /\ \A d \in Callers : d # c => pc'[d] = pc[d]
  BY <1>1 DEF Return
<1>3. /\ \A q \in Queues : send'[c][q] = NoSend
      /\ \A d \in Callers : d # c => send'[d] = send[d]
  BY <1>1 DEF Return
<1>4. \A d \in Callers : d # c => Job(d)' = Job(d)
  BY <1>1 DEF Return, Job, Callers
<1>5. QED
  BY <1>2, <1>3, <1>4 DEF OthersStay, Returned

LEMMA CallerSteps ==
    ASSUME TypeOK, NEW c \in Callers,
           \/ \E scheduled \in BOOLEAN : c \in Messages /\ Publish(c, scheduled)
           \/ MarkProcess(c) \/ MarkEnqueued(c) \/ CrashCaller(c)
           \/ c \in Crons /\ Execute(c)
    PROVE  /\ OthersStay(c)
           /\ UNCHANGED log
           /\ \A q \in Queues :
                 \/ send'[c][q] = NoSend
                 \/ send'[c][q] = send[c][q] /\ pc[c] # "send"
<1>0. /\ pc \in [Callers -> RequestPC \cup CronPC]
      /\ send \in [Callers -> [Queues -> SendState]]
      /\ job \in [Crons -> Messages \cup {Nil}]
      /\ Messages \cap Crons = {}
  BY ServiceAssumption DEF TypeOK, ServiceTypeOK
<1>1. CASE \E scheduled \in BOOLEAN : c \in Messages /\ Publish(c, scheduled)
  BY <1>0, <1>1 DEF Publish, OthersStay, Job
<1>2. CASE MarkProcess(c)
  <2>1. CASE pc' = [pc EXCEPT ![c] = "send"] /\ UNCHANGED <<job, send>>
    BY <1>0, <1>2, <2>1 DEF MarkProcess, OthersStay, Job
  <2>2. CASE Return(c, TRUE)
    BY <1>2, <2>2, ReturnLeaves DEF MarkProcess
  <2>3. QED
    BY <1>2, <2>1, <2>2 DEF MarkProcess
<1>3. CASE MarkEnqueued(c)
  <2>1. \E err : Return(c, err)
    BY <1>3 DEF MarkEnqueued
  <2>2. QED
    BY <1>3, <2>1, ReturnLeaves DEF MarkEnqueued
<1>4. CASE CrashCaller(c)
  <2>1. \A d \in Callers : d # c => Job(d)' = Job(d)
    BY <1>0, <1>4 DEF CrashCaller, Job, Callers
  <2>2. \A q \in Queues : send'[c][q] = NoSend
    BY <1>0, <1>4 DEF CrashCaller
  <2>3. QED
    BY <1>0, <1>4, <2>1, <2>2 DEF CrashCaller, OthersStay
<1>5. CASE c \in Crons /\ Execute(c)
  <2>1. \A d \in Callers : d # c => Job(d)' = Job(d)
    BY <1>0, <1>5 DEF Execute, SelectScheduled, PreloadQueues, NextMessage, FinishJob, Job, Callers
  <2>2. send' = send /\ pc[c] # "send" /\ UNCHANGED log
    BY <1>5 DEF Execute, SelectScheduled, PreloadQueues, NextMessage, FinishJob
  <2>3. \A d \in Callers : d # c => pc'[d] = pc[d]
    BY <1>0, <1>5 DEF Execute, SelectScheduled, PreloadQueues, NextMessage, FinishJob
  <2>4. QED
    BY <2>1, <2>2, <2>3 DEF OthersStay
<1>6. QED
  BY <1>1, <1>2, <1>3, <1>4, <1>5

(* Records stay in a topic. *)
LEMMA StaysInTopic ==
    ASSUME \A p \in Partitions : /\ Offsets(p) \subseteq Offsets(p)'
                                 /\ \A i \in Offsets(p) : log'[p][i] = log[p][i],
           NEW q, InTopic(q)
    PROVE  InTopic(q)'
BY DEF InTopic

(* Workers write to no topic. *)
LEMMA WorkersWriteNoRecord ==
    ASSUME WorkerNext
    PROVE  UNCHANGED log
<1>1. CASE Rebalance \/ (\E w \in Workers : CrashWorker(w) \/ \E p \in Partitions : Assign(w, p))
  BY <1>1 DEF Rebalance, CrashWorker, Assign
<1>2. ASSUME NEW w \in Workers, NEW p \in Partitions, Handle(w, p)
      PROVE  UNCHANGED log
  <2>1. CASE Fetch(w, p) \/ FetchNothing(w, p) \/ FetchError(w, p)
    BY <2>1 DEF Fetch, FetchNothing, FetchError
  <2>2. CASE Preload(w, p) \/ MarkAndCommit(w, p)
    BY <2>2 DEF Preload, MarkAndCommit
  <2>3. CASE UpdateProcessingStatus(w, p) \/ HandleSendResult(w, p)
    BY <2>3 DEF UpdateProcessingStatus, HandleSendResult
  <2>4. CASE SendSms(w, p) \/ SendEmail(w, p)
    BY <2>4 DEF SendSms, SendEmail, CallProvider
  <2>5. QED
    BY <1>2, <2>1, <2>2, <2>3, <2>4 DEF Handle
<1>3. QED
  BY <1>1, <1>2 DEF WorkerNext

(* What a concatenation holds beyond its first part. *)
LEMMA Appended ==
    ASSUME NEW S, NEW s \in Seq(S), NEW t \in Seq(S), NEW x, \A i \in 1 .. Len(t) : t[i] = x
    PROVE  /\ \A i \in 1 .. Len(s \o t) : i \in 1 .. Len(s) \/ (s \o t)[i] = x
           /\ Len(t) > 0 => /\ Len(s) + 1 \in 1 .. Len(s \o t)
                            /\ (s \o t)[Len(s) + 1] = x
<1>1. Len(s \o t) = Len(s) + Len(t) /\ Len(s) \in Nat /\ Len(t) \in Nat
  OBVIOUS
<1>2. \A i \in Len(s) + 1 .. Len(s) + Len(t) : (s \o t)[i] = t[i - Len(s)]
  BY <1>1
<1>3. \A i \in Len(s) + 1 .. Len(s) + Len(t) : (s \o t)[i] = x
  <2> SUFFICES ASSUME NEW i \in Len(s) + 1 .. Len(s) + Len(t)
               PROVE  (s \o t)[i] = x
    OBVIOUS
  <2>1. i - Len(s) \in 1 .. Len(t)
    BY <1>1
  <2>2. QED
    BY <1>2, <2>1
<1>4. QED
  BY <1>1, <1>3

(* A call of SendMessage appends records of its queue to the partition it  *)
(* goes to; an acknowledged one at least one.                              *)
LEMMA SendMessageEffect ==
    ASSUME TypeOK, NEW c \in Callers, NEW q \in Queues, SendMessage(c, q)
    PROVE  LET at == send[c][q].at
           IN  /\ at \in Partitions
               /\ send'[c][q].at = at
               /\ send'[c][q].st \in {"ok", "failed", "trying"}
               /\ \A d \in Callers, r \in Queues :
                     d # c \/ r # q => send'[d][r] = send[d][r]
               /\ \A p \in Partitions : p # at => log'[p] = log[p]
               /\ \A i \in Offsets(at)' : i \in Offsets(at) \/ log'[at][i] = q
               /\ send'[c][q].st = "ok" => InTopic(q)'
<1> DEFINE at == send[c][q].at
<1>0. /\ send \in [Callers -> [Queues -> SendState]]
      /\ at \in Partitions
      /\ log \in [Partitions -> Seq(Queues)]
  BY DEF SendMessage, TypeOK, DbTypeOK, ServiceTypeOK, SendState
<1>1. PICK n \in 0 .. MaxCopies, acked \in BOOLEAN :
         /\ acked => n > 0
         /\ log' = [log EXCEPT ![at] = @ \o Copies(q, n)]
         /\ send' = [send EXCEPT ![c][q] =
               [st |-> IF acked THEN "ok" ELSE AfterFailure(c, send[c][q].tries + 1),
                tries |-> send[c][q].tries + 1,
                at |-> at]]
  BY DEF SendMessage
<1>2. /\ Copies(q, n) \in Seq(Queues) /\ Len(Copies(q, n)) = n
      /\ \A i \in 1 .. n : Copies(q, n)[i] = q
      /\ n \in Nat
  BY ServiceAssumption DEF Copies
<1>3. /\ log'[at] = log[at] \o Copies(q, n)
      /\ log[at] \in Seq(Queues)
      /\ \A p \in Partitions : p # at => log'[p] = log[p]
  BY <1>0, <1>1
<1>4. /\ send'[c][q].at = at
      /\ send'[c][q].st = IF acked THEN "ok" ELSE AfterFailure(c, send[c][q].tries + 1)
      /\ \A d \in Callers, r \in Queues : d # c \/ r # q => send'[d][r] = send[d][r]
  BY <1>0, <1>1
<1>5. /\ \A i \in 1 .. Len(log'[at]) : i \in 1 .. Len(log[at]) \/ log'[at][i] = q
      /\ n > 0 => /\ Len(log[at]) + 1 \in 1 .. Len(log'[at])
                  /\ log'[at][Len(log[at]) + 1] = q
  <2> DEFINE s == log[at]
             t == Copies(q, n)
  <2>1. /\ s \in Seq(Queues) /\ t \in Seq(Queues)
        /\ Len(t) = n /\ \A i \in 1 .. Len(t) : t[i] = q
        /\ log'[at] = s \o t
    BY <1>2, <1>3
  <2> HIDE DEF s, t
  <2>2. /\ \A i \in 1 .. Len(s \o t) : i \in 1 .. Len(s) \/ (s \o t)[i] = q
        /\ Len(t) > 0 => Len(s) + 1 \in 1 .. Len(s \o t) /\ (s \o t)[Len(s) + 1] = q
    BY <2>1, Appended
  <2>3. QED
    BY <2>1, <2>2 DEF s
<1>6. ASSUME n > 0 PROVE InTopic(q)'
  <2>1. PICK i \in 1 .. Len(log'[at]) : log'[at][i] = q
    BY <1>5, <1>6
  <2>2. QED
    BY <1>0, <2>1 DEF InTopic, Offsets
<1>7. send'[c][q].st = "ok" => acked
  BY <1>4 DEF AfterFailure
<1>8. QED
  BY <1>0, <1>1, <1>3, <1>4, <1>5, <1>6, <1>7 DEF AfterFailure, Offsets

(* Every step keeps it.                                                    *)
LEMMA SendStep ==
    ASSUME TypeOK, TypeOK', SendInv, [Next]_vars
    PROVE  SendInv'
<1>0. /\ send \in [Callers -> [Queues -> SendState]]
      /\ log \in [Partitions -> Seq(Queues)]
  BY DEF TypeOK, DbTypeOK, ServiceTypeOK
<1>1. CASE UNCHANGED <<log, serviceVars>>
  BY <1>1 DEF SendInv, serviceVars, InTopic, Offsets, JobQueues, Job
<1>2. ASSUME NEW c \in Callers, OthersStay(c), UNCHANGED log,
             \A q \in Queues : \/ send'[c][q] = NoSend
                               \/ send'[c][q] = send[c][q] /\ pc[c] # "send"
      PROVE  SendInv'
  <2>1. \A q \in Queues : send'[c][q].st = "none"
    BY <1>2 DEF SendInv, NoSend
  <2>2. \A q : InTopic(q)' <=> InTopic(q)
    BY <1>2 DEF InTopic, Offsets
  <2>3. \A d \in Callers : d # c => JobQueues(d)' = JobQueues(d)
    BY <1>2 DEF OthersStay, JobQueues, QueuesOf
  <2>4. QED
    BY <1>2, <2>1, <2>2, <2>3 DEF SendInv, OthersStay, Offsets
<1>3. ASSUME NEW c \in Callers, NEW q \in Queues, Spawn(c, q)
      PROVE  SendInv'
  <2>1. PICK p \in PartitionsOf(TypeOf(q)) :
           send' = [send EXCEPT ![c][q] = [st |-> "trying", tries |-> 0, at |-> p]]
    BY <1>3 DEF Spawn
  <2>2. /\ send'[c][q].st = "trying" /\ send'[c][q].at = p
        /\ \A d \in Callers, r \in Queues : d # c \/ r # q => send'[d][r] = send[d][r]
    BY <1>0, <2>1
  <2>3. pc' = pc /\ job' = job /\ log' = log /\ pc[c] = "send" /\ q \in JobQueues(c)
    BY <1>3 DEF Spawn
  <2>4. \A d : JobQueues(d)' = JobQueues(d)
    BY <2>3 DEF JobQueues, Job
  <2>5. \A r : InTopic(r)' <=> InTopic(r)
    BY <2>3 DEF InTopic, Offsets
  <2>6. QED
    BY <2>2, <2>3, <2>4, <2>5 DEF SendInv, Offsets
<1>4. ASSUME NEW c \in Callers, NEW q \in Queues, StopRetrying(c, q)
      PROVE  SendInv'
  <2>1. /\ send'[c][q].st = "failed" /\ send[c][q].st = "trying"
        /\ \A d \in Callers, r \in Queues : d # c \/ r # q => send'[d][r] = send[d][r]
    BY <1>0, <1>4 DEF StopRetrying, SendState
  <2>2. pc' = pc /\ job' = job /\ log' = log
    BY <1>4 DEF StopRetrying
  <2>3. \A d : JobQueues(d)' = JobQueues(d)
    BY <2>2 DEF JobQueues, Job
  <2>4. \A r : InTopic(r)' <=> InTopic(r)
    BY <2>2 DEF InTopic, Offsets
  <2>5. QED
    BY <2>1, <2>2, <2>3, <2>4 DEF SendInv, Offsets
<1>5. ASSUME NEW c \in Callers, NEW q \in Queues, SendMessage(c, q), ServiceNext
      PROVE  SendInv'
  <2> DEFINE at == send[c][q].at
  <2>1. send[c][q].st = "trying" /\ pc' = pc /\ job' = job
    BY <1>5 DEF SendMessage
  <2>2. \A d : JobQueues(d)' = JobQueues(d)
    BY <2>1 DEF JobQueues, Job
  <2>3. \A r : InTopic(r) => InTopic(r)'
    BY <1>5, LogGrows, StaysInTopic
  <2>4. at \in PartitionsOf(TypeOf(q)) /\ pc[c] = "send" /\ q \in JobQueues(c)
    BY <2>1 DEF SendInv
  <2>5. /\ at \in Partitions
        /\ send'[c][q].at = at
        /\ \A d \in Callers, r \in Queues : d # c \/ r # q => send'[d][r] = send[d][r]
        /\ \A p \in Partitions : p # at => log'[p] = log[p]
        /\ \A i \in Offsets(at)' : i \in Offsets(at) \/ log'[at][i] = q
        /\ send'[c][q].st = "ok" => InTopic(q)'
    BY <1>5, SendMessageEffect
  <2>6. \A p \in Partitions : \A i \in Offsets(p)' : TypeOf(log'[p][i]) = Topic[p]
    <3> SUFFICES ASSUME NEW p \in Partitions, NEW i \in Offsets(p)'
                 PROVE  TypeOf(log'[p][i]) = Topic[p]
      OBVIOUS
    <3>1. CASE p # at
      BY <2>5, <3>1 DEF SendInv, Offsets
    <3>2. CASE p = at /\ i \in Offsets(at)
      BY <1>5, <3>2, LogGrows DEF SendInv
    <3>3. CASE p = at /\ log'[at][i] = q
      BY <2>4, <3>3 DEF PartitionsOf
    <3>4. QED
      BY <2>5, <3>1, <3>2, <3>3
  <2>7. QED
    BY <2>1, <2>2, <2>3, <2>4, <2>5, <2>6 DEF SendInv
<1>6. CASE ServiceNext
  <2>1. ASSUME NEW m \in Messages, PublishMessage(m)
        PROVE  SendInv'
    <3>1. m \in Callers
      BY DEF Callers
    <3>2. QED
      BY <1>2, <2>1, <3>1, CallerSteps DEF PublishMessage, PublishSmsMessage, PublishMailMessage
  <2>2. ASSUME NEW c \in Callers, MarkProcess(c) \/ MarkEnqueued(c) \/ CrashCaller(c)
        PROVE  SendInv'
    BY <1>2, <2>2, CallerSteps
  <2>3. ASSUME NEW c \in Crons, Execute(c)
        PROVE  SendInv'
    <3>1. c \in Callers
      BY DEF Callers
    <3>2. QED
      BY <1>2, <2>3, <3>1, CallerSteps
  <2>4. ASSUME NEW m \in Messages,
               CancelCheck(m) \/ CancelCommit(m) \/ ClientGone(m) \/ BecomeDue(m) \/ Expire(m)
        PROVE  SendInv'
    <3>1. UNCHANGED <<log, pc, job, send>>
      BY <2>4 DEF CancelCheck, CancelCommit, ClientGone, BecomeDue, Expire
    <3>2. QED
      BY <3>1 DEF SendInv, InTopic, Offsets, JobQueues, Job
  <2>5. QED
    BY <1>3, <1>4, <1>5, <1>6, <2>1, <2>2, <2>3, <2>4 DEF ServiceNext, HandleEnqueue
<1>7. QED
  BY <1>1, <1>6, WorkersWriteNoRecord DEF Next, vars


-----------------------------------------------------------------------------
(* Handlers: what one has loaded is of its queue, and one that has its     *)
(* answer has called the provider.                                         *)
AnswerInv(w, p) ==
    /\ Claimed(w, p) \in handed
    /\ \A t \in Targets :
          claim[w][p].answer.rows[t] # "none" => QueueId[t] = Claimed(w, p)
    /\ Topic[p] = "mail" /\ claim[w][p].answer.status = "failed" => claim[w][p].answer.parsed

ClaimInv ==
    \A w \in Workers, p \in Partitions :
        /\ claim[w][p].pc \in {"loaded", "sending"} =>
              claim[w][p].loaded \subseteq TargetsOf({Claimed(w, p)})
        /\ claim[w][p].pc = "answered" => AnswerInv(w, p)

(* A handler that does not move keeps its record.                          *)
LEMMA ClaimStays ==
    ASSUME TypeOK, [Next]_vars, NEW w \in Workers, NEW p \in Partitions,
           Busy(w, p), claim'[w][p].offset = claim[w][p].offset
    PROVE  Claimed(w, p)' = Claimed(w, p)
<1>1. claim[w][p].offset \in Offsets(p)
  BY DEF TypeOK, WorkerTypeOK, ClaimTypeOK
<1>2. CASE UNCHANGED log
  BY <1>2 DEF Claimed
<1>3. CASE ServiceNext
  BY <1>1, <1>3, LogGrows DEF Claimed
<1>4. QED
  BY <1>2, <1>3, WorkersWriteNoRecord DEF Next, vars

(* It keeps what is known of it, too.                                      *)
LEMMA ClaimKept ==
    ASSUME TypeOK, ClaimInv, [Next]_vars, handed \subseteq handed',
           NEW w \in Workers, NEW p \in Partitions, claim'[w][p] = claim[w][p]
    PROVE  /\ claim'[w][p].pc \in {"loaded", "sending"} =>
                 claim'[w][p].loaded \subseteq TargetsOf({Claimed(w, p)})'
           /\ claim'[w][p].pc = "answered" => AnswerInv(w, p)'
<1>1. ASSUME Busy(w, p) PROVE Claimed(w, p)' = Claimed(w, p)
  BY <1>1, ClaimStays
<1>2. CASE claim[w][p].pc \in {"loaded", "sending"}
  BY <1>1, <1>2 DEF ClaimInv, Busy, TargetsOf
<1>3. CASE claim[w][p].pc = "answered"
  <2>1. Claimed(w, p)' = Claimed(w, p) /\ AnswerInv(w, p)
    BY <1>1, <1>3 DEF ClaimInv, Busy
  <2>2. AnswerInv(w, p)'
    BY <2>1 DEF AnswerInv
  <2>3. QED
    BY <1>3, <2>2
<1>4. QED
  BY <1>2, <1>3

(* A step of one handler. *)
LEMMA ClaimMoves ==
    ASSUME TypeOK, ClaimInv, [Next]_vars, handed \subseteq handed',
           NEW w \in Workers, NEW p \in Partitions,
           \A v \in Workers, r \in Partitions :
              v # w \/ r # p => claim'[v][r] = claim[v][r],
           /\ claim'[w][p].pc \in {"loaded", "sending"} =>
                 claim'[w][p].loaded \subseteq TargetsOf({Claimed(w, p)})'
           /\ claim'[w][p].pc = "answered" => AnswerInv(w, p)'
    PROVE  ClaimInv'
<1> SUFFICES ASSUME NEW v \in Workers, NEW r \in Partitions, v # w \/ r # p
             PROVE  /\ claim'[v][r].pc \in {"loaded", "sending"} =>
                          claim'[v][r].loaded \subseteq TargetsOf({Claimed(v, r)})'
                    /\ claim'[v][r].pc = "answered" => AnswerInv(v, r)'
  BY DEF ClaimInv
<1>1. QED
  BY ClaimKept

(* The death of one worker. *)
LEMMA DieKeepsClaims ==
    ASSUME TypeOK, ClaimInv, [Next]_vars, UNCHANGED handed, NEW w \in Workers, Die(w)
    PROVE  ClaimInv'
<1>1. /\ \A r \in Partitions : claim'[w][r] = NoClaim
      /\ \A v \in Workers, r \in Partitions : v # w => claim'[v][r] = claim[v][r]
  BY DEF Die, TypeOK, WorkerTypeOK, ClaimTypeOK
<1> SUFFICES ASSUME NEW v \in Workers, NEW r \in Partitions
             PROVE  /\ claim'[v][r].pc \in {"loaded", "sending"} =>
                          claim'[v][r].loaded \subseteq TargetsOf({Claimed(v, r)})'
                    /\ claim'[v][r].pc = "answered" => AnswerInv(v, r)'
  BY DEF ClaimInv
<1>2. CASE v = w
  BY <1>1, <1>2 DEF NoClaim
<1>3. CASE v # w
  BY <1>1, <1>3, ClaimKept
<1>4. QED
  BY <1>2, <1>3

(* Every step keeps it.                                                    *)
LEMMA ClaimStep ==
    ASSUME TypeOK, ClaimInv, [Next]_vars
    PROVE  ClaimInv'
<1>0. claim \in [Workers -> [Partitions -> Claim]]
  BY DEF TypeOK, WorkerTypeOK, ClaimTypeOK
<1>1. CASE UNCHANGED <<claim, handed>>
  BY <1>1, ClaimKept DEF ClaimInv
<1>2. ASSUME NEW w \in Workers, NEW p \in Partitions, Handle(w, p)
      PROVE  ClaimInv'
  <2>1. CASE Fetch(w, p)
    <3>1. claim'[w][p].pc = "found" /\ handed' = handed
      BY <1>0, <2>1 DEF Fetch, NoClaim
    <3>2. \A v \in Workers, r \in Partitions : v # w \/ r # p => claim'[v][r] = claim[v][r]
      BY <1>0, <2>1 DEF Fetch
    <3>3. QED
      BY <3>1, <3>2, ClaimMoves
  <2>2. CASE FetchNothing(w, p) \/ FetchError(w, p)
    <3>1. UNCHANGED handed /\ (Die(w) \/ UNCHANGED claim)
      BY <2>2 DEF FetchNothing, FetchError
    <3>2. QED
      BY <1>1, <3>1, DieKeepsClaims
  <2>3. CASE Preload(w, p)
    <3> DEFINE L == {t \in TargetsOf({Claimed(w, p)}) : Visible(targets[t])}
    <3>0. claim' = [claim EXCEPT ![w][p] = [@ EXCEPT !.pc = "loaded", !.loaded = L]]
      BY <2>3 DEF Preload
    <3> HIDE DEF L
    <3>1. /\ claim'[w][p].pc = "loaded" /\ claim'[w][p].offset = claim[w][p].offset
          /\ claim'[w][p].loaded = L
          /\ \A v \in Workers, r \in Partitions : v # w \/ r # p => claim'[v][r] = claim[v][r]
      BY <1>0, <3>0 DEF Claim
    <3>5. claim[w][p].pc = "found" /\ handed' = handed
      BY <2>3 DEF Preload
    <3>2. Claimed(w, p)' = Claimed(w, p)
      BY <3>1, <3>5, ClaimStays DEF Busy
    <3>3. claim'[w][p].loaded \subseteq TargetsOf({Claimed(w, p)})'
      BY <3>1, <3>2 DEF TargetsOf, L
    <3>4. QED
      BY <3>1, <3>3, <3>5, ClaimMoves
  <2>4. CASE UpdateProcessingStatus(w, p)
    <3>1. CASE Goto(w, p, "sending")
      <4>1. /\ claim'[w][p].pc = "sending" /\ claim'[w][p].offset = claim[w][p].offset
            /\ claim'[w][p].loaded = claim[w][p].loaded
            /\ \A v \in Workers, r \in Partitions : v # w \/ r # p => claim'[v][r] = claim[v][r]
            /\ claim[w][p].pc = "loaded" /\ handed' = handed
        BY <1>0, <2>4, <3>1 DEF UpdateProcessingStatus, Goto, Claim
      <4>2. Claimed(w, p)' = Claimed(w, p)
        BY <4>1, ClaimStays DEF Busy
      <4>3. claim'[w][p].loaded \subseteq TargetsOf({Claimed(w, p)})'
        BY <4>1, <4>2 DEF TargetsOf, ClaimInv
      <4>4. QED
        BY <4>1, <4>3, ClaimMoves
    <3>2. CASE DbError(w, p)
      <4>1. UNCHANGED handed
        BY <2>4 DEF UpdateProcessingStatus
      <4>2. CASE Leave(w, p)
        <5>1. /\ claim'[w][p].pc = "idle"
              /\ \A v \in Workers, r \in Partitions : v # w \/ r # p => claim'[v][r] = claim[v][r]
          BY <1>0, <4>2 DEF Leave, NoClaim
        <5>2. QED
          BY <4>1, <5>1, ClaimMoves
      <4>3. QED
        BY <3>2, <4>1, <4>2, DieKeepsClaims DEF DbError, HandlerError
    <3>3. QED
      BY <2>4, <3>1, <3>2 DEF UpdateProcessingStatus
  <2>5. CASE SendSms(w, p) \/ SendEmail(w, p)
    <3>1. PICK a \in SmsAnswers(claim[w][p].loaded) \cup MailAnswers(claim[w][p].loaded) :
             /\ claim' = [claim EXCEPT ![w][p] = [@ EXCEPT !.pc = "answered", !.answer = a]]
             /\ claim[w][p].pc = "sending" /\ handed' = handed \cup {Claimed(w, p)}
             /\ Topic[p] = "mail" => a \in MailAnswers(claim[w][p].loaded)
      BY <2>5 DEF SendSms, SendEmail, CallProvider, Types
    <3>2. /\ claim'[w][p].pc = "answered" /\ claim'[w][p].offset = claim[w][p].offset
          /\ claim'[w][p].answer = a
          /\ \A v \in Workers, r \in Partitions : v # w \/ r # p => claim'[v][r] = claim[v][r]
      BY <1>0, <3>1 DEF Claim
    <3>3. Claimed(w, p)' = Claimed(w, p)
      BY <3>1, <3>2, ClaimStays DEF Busy
    <3>4. \A t \in Targets : a.rows[t] # "none" => t \in claim[w][p].loaded
      BY <3>1 DEF SmsAnswers, MailAnswers, NoAnswer, NoRows
    <3>5. claim[w][p].loaded \subseteq TargetsOf({Claimed(w, p)})
      BY <3>1 DEF ClaimInv
    <3>6. Topic[p] = "mail" /\ a.status = "failed" => a.parsed
      BY <3>1 DEF MailAnswers, NoAnswer
    <3>7. AnswerInv(w, p)'
      BY <3>1, <3>2, <3>3, <3>4, <3>5, <3>6 DEF AnswerInv, TargetsOf
    <3>8. QED
      BY <3>1, <3>2, <3>7, ClaimMoves
  <2>6. CASE HandleSendResult(w, p) \/ MarkAndCommit(w, p)
    <3>1. UNCHANGED handed /\ (Leave(w, p) \/ Goto(w, p, "handled"))
      BY <2>6 DEF HandleSendResult, MarkAndCommit, HandlerError
    <3>2. /\ claim'[w][p].pc \in {"idle", "handled"}
          /\ \A v \in Workers, r \in Partitions : v # w \/ r # p => claim'[v][r] = claim[v][r]
      BY <1>0, <3>1 DEF Leave, Goto, NoClaim, Claim
    <3>3. QED
      BY <3>1, <3>2, ClaimMoves
  <2>7. QED
    BY <1>2, <2>1, <2>2, <2>3, <2>4, <2>5, <2>6 DEF Handle
<1>3. CASE WorkerNext
  <2>1. CASE Rebalance \/ \E w \in Workers, p \in Partitions : Assign(w, p)
    BY <1>1, <2>1 DEF Rebalance, Assign
  <2>2. ASSUME NEW w \in Workers, CrashWorker(w)
        PROVE  ClaimInv'
    BY <2>2, DieKeepsClaims DEF CrashWorker
  <2>3. QED
    BY <1>2, <1>3, <2>1, <2>2 DEF WorkerNext
<1>4. QED
  BY <1>1, <1>3 DEF Next, vars, workerVars


-----------------------------------------------------------------------------
(* Who gives a row its status.                                             *)
Acknowledged(q) == \E c \in Callers : send[c][q].st = "ok"

Answered(q, status) ==
    \E w \in Workers, p \in Partitions :
        /\ claim[w][p].pc = "answered"
        /\ Claimed(w, p) = q
        /\ claim[w][p].answer.status = status

QueueLabel(q) ==
    \/ queues'[q].status = queues[q].status
    \/ queues'[q].status \in {"pending", "process", "sending", "canceled"}
    \/ queues'[q].status = "enqueued" /\ Acknowledged(q)
    \/ queues'[q].status = "success" /\ Answered(q, "sent") /\ "sent" \in events'[q]
    \/ /\ queues'[q].status = "failed"
       /\ Answered(q, "failed")
       /\ TypeOf(q) = "mail" => "failed" \in events'[q]

TargetLabel(t) ==
    \/ targets'[t].status = targets[t].status
    \/ targets'[t].status \in {"pending", "process", "sending", "canceled"}
    \/ targets'[t].status = "enqueued" /\ Acknowledged(QueueId[t])
    \/ /\ targets'[t].status \in {"sent", "failed", ""}
       /\ \E status : Answered(QueueId[t], status)

MessageLabel(m) ==
    \/ messages'[m].status = messages[m].status
    \/ messages'[m].status = "pending" /\ pc[m] = "new"
    \/ messages'[m].status = "scheduled" /\ pc[m] = "new" /\ pc'[m] \in {"ok", "error"}
    \/ messages'[m].status \in {"process", "canceled"}
    \/ messages'[m].status = "enqueued" /\ \E q \in QueuesOf(m) : Acknowledged(q)
    \/ /\ messages'[m].status \in {"sent", "failed"}
       /\ \E q \in QueuesOf(m), status \in {"sent", "failed"} : Answered(q, status)

Labels ==
    /\ \A q \in Queues : QueueLabel(q)
    /\ \A t \in Targets : TargetLabel(t)
    /\ \A m \in Messages : MessageLabel(m)

(* What the updates leave in a row. *)
LEMMA SetStatusLabels ==
    ASSUME NEW D, NEW S, NEW table \in [D -> Row(S)], NEW K, NEW status, NEW k \in D
    PROVE  \/ SetStatus(table, K, status)[k].status = table[k].status
           \/ k \in K /\ SetStatus(table, K, status)[k].status = status
<1>1. table[k] \in Row(S)
  OBVIOUS
<1>2. CASE k \in K /\ Visible(table[k])
  <2>1. SetStatus(table, K, status)[k] = [table[k] EXCEPT !.status = status]
    BY <1>2 DEF SetStatus
  <2>2. QED
    BY <1>1, <1>2, <2>1 DEF Row
<1>3. CASE ~(k \in K /\ Visible(table[k]))
  BY <1>3 DEF SetStatus
<1>4. QED
  BY <1>2, <1>3

LEMMA BatchLabels ==
    ASSUME DbTypeOK, NEW Q, NEW status, BatchUpdateDatabase(Q, status)
    PROVE  /\ \A q \in Queues :
                 \/ queues'[q].status = queues[q].status
                 \/ q \in Q /\ queues'[q].status = status
           /\ \A t \in Targets :
                 \/ targets'[t].status = targets[t].status
                 \/ QueueId[t] \in Q /\ targets'[t].status = status
           /\ \A m \in Messages :
                 \/ messages'[m].status = messages[m].status
                 \/ (\E q \in Q : MessageId[q] = m) /\ messages'[m].status = status
<1>0. /\ messages \in [Messages -> Row(MessageStatus)]
      /\ queues \in [Queues -> Row(QueueStatus)]
      /\ targets \in [Targets -> Row(TargetStatus)]
  BY DEF DbTypeOK
<1>1. /\ queues' = SetStatus(queues, Q, status)
      /\ messages' = SetStatus(messages, {MessageId[q] : q \in Q}, status)
      /\ targets' = SetStatus(targets, TargetsOf(Q), status)
  BY DEF BatchUpdateDatabase, UpdateMessages
<1>2. \A q \in Queues :
         \/ queues'[q].status = queues[q].status
         \/ q \in Q /\ queues'[q].status = status
  BY <1>0, <1>1, SetStatusLabels
<1>3. \A t \in Targets :
         \/ targets'[t].status = targets[t].status
         \/ t \in TargetsOf(Q) /\ targets'[t].status = status
  BY <1>0, <1>1, SetStatusLabels
<1>4. \A m \in Messages :
         \/ messages'[m].status = messages[m].status
         \/ m \in {MessageId[q] : q \in Q} /\ messages'[m].status = status
  BY <1>0, <1>1, SetStatusLabels
<1>5. QED
  BY <1>2, <1>3, <1>4 DEF TargetsOf

LEMMA PublishLabels ==
    ASSUME TypeOK, NEW m \in Messages, NEW scheduled \in BOOLEAN, Publish(m, scheduled)
    PROVE  Labels
<1>0. pc \in [Callers -> RequestPC \cup CronPC] /\ m \in Callers
  BY DEF TypeOK, ServiceTypeOK, Callers
<1>1. CASE UNCHANGED dbVars
  BY <1>1 DEF dbVars, Labels, QueueLabel, TargetLabel, MessageLabel
<1>2. CASE InsertMessage(m, InitialStatus(scheduled))
  <2>1. \A q \in Queues : queues'[q].status \in {queues[q].status, "pending"}
    BY <1>2 DEF InsertMessage, Insert, TypeOK, DbTypeOK
  <2>2. \A t \in Targets : targets'[t].status \in {targets[t].status, "pending"}
    BY <1>2 DEF InsertMessage, Insert, TypeOK, DbTypeOK
  <2>3. \A n \in Messages :
           \/ messages'[n].status = messages[n].status
           \/ n = m /\ messages'[n].status = InitialStatus(scheduled)
    BY <1>2 DEF InsertMessage, Insert, TypeOK, DbTypeOK
  <2>4. pc[m] = "new" /\ (scheduled => pc'[m] \in {"ok", "error"})
    BY <1>0 DEF Publish
  <2>5. \A n \in Messages : MessageLabel(n)
    BY <2>3, <2>4 DEF MessageLabel, InitialStatus
  <2>6. QED
    BY <2>1, <2>2, <2>5 DEF Labels, QueueLabel, TargetLabel
<1>3. QED
  BY <1>1, <1>2 DEF Publish

LEMMA CancelLabels ==
    ASSUME TypeOK, NEW m \in Messages, CancelCommit(m)
    PROVE  Labels
<1>1. CASE UNCHANGED dbVars
  BY <1>1 DEF dbVars, Labels, QueueLabel, TargetLabel, MessageLabel
<1>2. CASE DeleteMessage(m)
  <2>1. \A q \in Queues : queues'[q].status \in {queues[q].status, "canceled"}
    BY <1>2 DEF DeleteMessage, SoftDelete, TypeOK, DbTypeOK
  <2>2. \A t \in Targets : targets'[t].status \in {targets[t].status, "canceled"}
    BY <1>2 DEF DeleteMessage, SoftDelete, TypeOK, DbTypeOK
  <2>3. \A n \in Messages : messages'[n].status \in {messages[n].status, "canceled"}
    BY <1>2 DEF DeleteMessage, SoftDelete, TypeOK, DbTypeOK
  <2>4. QED
    BY <2>1, <2>2, <2>3 DEF Labels, QueueLabel, TargetLabel, MessageLabel
<1>3. QED
  BY <1>1, <1>2 DEF CancelCommit

LEMMA ServiceLabels ==
    ASSUME TypeOK, ServiceNext
    PROVE  Labels
<1>1. CASE UNCHANGED dbVars
  BY <1>1 DEF dbVars, Labels, QueueLabel, TargetLabel, MessageLabel
<1>2. ASSUME NEW c \in Callers, MarkProcess(c)
      PROVE  Labels
  <2>1. CASE BatchUpdateDatabase(JobQueues(c), "process")
    <3>1. /\ \A q \in Queues : queues'[q].status \in {queues[q].status, "process"}
          /\ \A t \in Targets : targets'[t].status \in {targets[t].status, "process"}
          /\ \A m \in Messages : messages'[m].status \in {messages[m].status, "process"}
      BY <2>1, BatchLabels DEF TypeOK
    <3>2. QED
      BY <3>1 DEF Labels, QueueLabel, TargetLabel, MessageLabel
  <2>2. QED
    BY <1>1, <1>2, <2>1 DEF MarkProcess
<1>3. ASSUME NEW c \in Callers, MarkEnqueued(c)
      PROVE  Labels
  <2>1. CASE BatchUpdateDatabase(Acked(c), "enqueued")
    <3>1. \A q \in Acked(c) : q \in Queues /\ Acknowledged(q)
      BY DEF Acked, Acknowledged
    <3>2. \A q \in Queues : QueueLabel(q)
      BY <2>1, <3>1, BatchLabels DEF QueueLabel, TypeOK
    <3>3. \A t \in Targets : TargetLabel(t)
      <4> SUFFICES ASSUME NEW t \in Targets, targets'[t].status # targets[t].status
                   PROVE  targets'[t].status = "enqueued" /\ Acknowledged(QueueId[t])
        BY DEF TargetLabel
      <4>1. QueueId[t] \in Acked(c) /\ targets'[t].status = "enqueued"
        BY <2>1, BatchLabels DEF TypeOK
      <4>2. QED
        BY <3>1, <4>1
    <3>4. \A m \in Messages : MessageLabel(m)
      <4> SUFFICES ASSUME NEW m \in Messages, messages'[m].status # messages[m].status
                   PROVE  messages'[m].status = "enqueued" /\ \E q \in QueuesOf(m) : Acknowledged(q)
        BY DEF MessageLabel
      <4>1. /\ \E q \in Acked(c) : MessageId[q] = m
            /\ messages'[m].status = "enqueued"
        BY <2>1, BatchLabels DEF TypeOK
      <4>2. QED
        BY <3>1, <4>1 DEF QueuesOf
    <3>5. QED
      BY <3>2, <3>3, <3>4 DEF Labels
  <2>2. QED
    BY <1>1, <1>3, <2>1 DEF MarkEnqueued
<1>4. ASSUME NEW c \in Callers, HandleEnqueue(c) \/ CrashCaller(c)
      PROVE  Labels
  <2>1. CASE CrashCaller(c) \/ \E q \in Queues : Spawn(c, q) \/ SendMessage(c, q) \/ StopRetrying(c, q)
    BY <1>1, <2>1 DEF CrashCaller, Spawn, SendMessage, StopRetrying
  <2>2. QED
    BY <1>2, <1>3, <1>4, <2>1 DEF HandleEnqueue
<1>5. ASSUME NEW c \in Crons, Execute(c)
      PROVE  Labels
  BY <1>1, <1>5 DEF Execute, SelectScheduled, PreloadQueues, NextMessage, FinishJob
<1>6. ASSUME NEW m \in Messages, PublishMessage(m)
      PROVE  Labels
  BY <1>6, PublishLabels DEF PublishMessage, PublishSmsMessage, PublishMailMessage
<1>7. ASSUME NEW m \in Messages, CancelCheck(m) \/ ClientGone(m) \/ BecomeDue(m) \/ Expire(m)
      PROVE  Labels
  BY <1>1, <1>7 DEF CancelCheck, ClientGone, BecomeDue, Expire
<1>8. QED
  BY <1>4, <1>5, <1>6, <1>7, CancelLabels DEF ServiceNext

(* The result of a call. *)
LEMMA ResultLabels ==
    ASSUME TypeOK, SendInv, ClaimInv, NEW w \in Workers, NEW p \in Partitions,
           claim[w][p].pc = "answered",
           Result(Claimed(w, p), claim[w][p].answer), UNCHANGED pc
    PROVE  Labels
<1> DEFINE q == Claimed(w, p)
           answer == claim[w][p].answer
<1>0. /\ messages \in [Messages -> Row(MessageStatus)]
      /\ queues \in [Queues -> Row(QueueStatus)]
      /\ targets \in [Targets -> Row(TargetStatus)]
      /\ events \in [Queues -> SUBSET {"sent", "failed"}]
  BY DEF TypeOK, DbTypeOK, WorkerTypeOK, CallTypeOK
<1>1. /\ q \in Queues /\ TypeOf(q) = Topic[p]
      /\ answer.status \in {"sent", "failed"}
      /\ \A t \in Targets : answer.rows[t] \in {"none", "sent", "failed", ""}
  <2>1. /\ claim[w][p] \in Claim
        /\ claim[w][p].offset \in Offsets(p)
        /\ log[p] \in Seq(Queues)
    BY DEF TypeOK, WorkerTypeOK, ClaimTypeOK, DbTypeOK, Busy
  <2>2. q \in Queues
    BY <2>1 DEF Claimed, Offsets
  <2>3. TypeOf(q) = Topic[p]
    BY <2>1 DEF SendInv, Claimed
  <2>4. answer \in Answer
    BY <2>1 DEF Claim
  <2>5. QED
    BY <2>2, <2>3, <2>4, WorkerAssumption DEF Answer
<1>2. AnswerInv(w, p)
  BY DEF ClaimInv
<1>3. Answered(q, answer.status)
  BY DEF Answered
<1>4. MessageId[q] \in Messages /\ q \in QueuesOf(MessageId[q])
  BY <1>1, DataAssumption DEF QueuesOf
<1> HIDE DEF q, answer
<1>5. ASSUME NEW queueStatus, NEW messageStatus, NEW table,
             WriteResult(q, queueStatus, messageStatus, table)
      PROVE  /\ \A r \in Queues : \/ queues'[r].status = queues[r].status
                                  \/ r = q /\ queues'[r].status = queueStatus
             /\ \A m \in Messages : \/ messages'[m].status = messages[m].status
                                    \/ m = MessageId[q] /\ messages'[m].status = messageStatus
             /\ targets' = table
  <2>1. /\ queues' = SetStatus(queues, {q}, queueStatus)
        /\ messages' = SetStatus(messages, {MessageId[q]}, messageStatus)
        /\ targets' = table
    BY <1>5 DEF WriteResult
  <2>2. ASSUME NEW r \in Queues, queues'[r].status # queues[r].status
        PROVE  r = q /\ queues'[r].status = queueStatus
    <3>1. r \in {q} /\ queues'[r].status = queueStatus
      BY <1>0, <2>1, <2>2, SetStatusLabels
    <3>2. QED
      BY <3>1
  <2>3. ASSUME NEW m \in Messages, messages'[m].status # messages[m].status
        PROVE  m = MessageId[q] /\ messages'[m].status = messageStatus
    <3>1. m \in {MessageId[q]} /\ messages'[m].status = messageStatus
      BY <1>0, <2>1, <2>3, SetStatusLabels
    <3>2. QED
      BY <3>1
  <2>4. \A r \in Queues : \/ queues'[r].status = queues[r].status
                          \/ r = q /\ queues'[r].status = queueStatus
    BY <2>2
  <2>5. \A m \in Messages : \/ messages'[m].status = messages[m].status
                            \/ m = MessageId[q] /\ messages'[m].status = messageStatus
    BY <2>3
  <2>6. QED
    BY <2>1, <2>4, <2>5
<1>6. CASE SuccessResult(q, answer) /\ answer.status = "sent"
  <2>1. WriteResult(q, "success", "sent", RowUpdates(answer.rows)) /\ "sent" \in events'[q]
    BY <1>0, <1>1, <1>6 DEF SuccessResult
  <2>2. \A t \in Targets :
           \/ targets'[t].status = targets[t].status
           \/ answer.rows[t] # "none" /\ targets'[t].status = answer.rows[t]
    <3> SUFFICES ASSUME NEW t \in Targets
                 PROVE  \/ targets'[t].status = targets[t].status
                        \/ answer.rows[t] # "none" /\ targets'[t].status = answer.rows[t]
      OBVIOUS
    <3>1. targets[t] \in Row(TargetStatus)
      BY <1>0
    <3>2. targets'[t] \in {targets[t]} \/ (/\ answer.rows[t] # "none"
                                          /\ targets'[t] = [targets[t] EXCEPT !.status = answer.rows[t]])
      BY <1>0, <1>5, <2>1 DEF RowUpdates
    <3>3. QED
      BY <3>1, <3>2 DEF Row
  <2>3. \A t \in Targets : answer.rows[t] # "none" => QueueId[t] = q
    BY <1>2 DEF AnswerInv, q, answer
  <2>4. \A t \in Targets : TargetLabel(t)
    BY <1>1, <1>3, <2>2, <2>3 DEF TargetLabel
  <2>5. \A r \in Queues : QueueLabel(r)
    BY <1>3, <1>5, <1>6, <2>1 DEF QueueLabel
  <2>6. \A m \in Messages : MessageLabel(m)
    BY <1>3, <1>4, <1>5, <1>6, <2>1 DEF MessageLabel
  <2>7. QED
    BY <2>4, <2>5, <2>6 DEF Labels
<1>7. CASE FailureResult(q, answer) /\ answer.status # "sent"
  <2>0. answer.status = "failed"
    BY <1>1, <1>7
  <2>1. WriteResult(q, "failed", "failed", SetStatus(targets, TargetsOf({q}), "failed"))
    BY <1>7 DEF FailureResult
  <2>2. TypeOf(q) = "mail" => "failed" \in events'[q]
    <3>1. TypeOf(q) = "mail" => answer.parsed
      BY <1>1, <1>2, <2>0 DEF AnswerInv, answer
    <3>2. QED
      BY <1>0, <1>1, <1>7, <3>1 DEF FailureResult
  <2>3. \A t \in Targets : \/ targets'[t].status = targets[t].status
                           \/ t \in TargetsOf({q}) /\ targets'[t].status = "failed"
    BY <1>0, <1>5, <2>1, SetStatusLabels
  <2>4. \A t \in Targets : TargetLabel(t)
    BY <1>3, <2>3 DEF TargetLabel, TargetsOf
  <2>5. \A r \in Queues : QueueLabel(r)
    BY <1>3, <1>5, <2>0, <2>1, <2>2 DEF QueueLabel
  <2>6. \A m \in Messages : MessageLabel(m)
    BY <1>3, <1>4, <1>5, <2>0, <2>1 DEF MessageLabel
  <2>7. QED
    BY <2>4, <2>5, <2>6 DEF Labels
<1>8. QED
  BY <1>6, <1>7 DEF Result, q, answer

LEMMA WorkerLabels ==
    ASSUME TypeOK, SendInv, ClaimInv, WorkerNext, UNCHANGED serviceVars
    PROVE  Labels
<1>1. CASE UNCHANGED dbVars
  BY <1>1 DEF dbVars, Labels, QueueLabel, TargetLabel, MessageLabel
<1>2. ASSUME NEW w \in Workers, NEW p \in Partitions, UpdateProcessingStatus(w, p)
      PROVE  Labels
  <2>1. CASE ShowSending(Claimed(w, p))
    <3>1. \A q \in Queues : queues'[q].status \in {queues[q].status, "sending"}
      BY <2>1, SetStatusLabels DEF ShowSending, TypeOK, DbTypeOK
    <3>2. \A t \in Targets : targets'[t].status \in {targets[t].status, "sending"}
      BY <2>1, SetStatusLabels DEF ShowSending, TypeOK, DbTypeOK
    <3>3. QED
      BY <2>1, <3>1, <3>2 DEF ShowSending, Labels, QueueLabel, TargetLabel, MessageLabel
  <2>2. QED
    BY <1>1, <1>2, <2>1 DEF UpdateProcessingStatus
<1>3. ASSUME NEW w \in Workers, NEW p \in Partitions, HandleSendResult(w, p)
      PROVE  Labels
  <2>1. CASE Result(Claimed(w, p), claim[w][p].answer)
    BY <1>3, <2>1, ResultLabels DEF HandleSendResult, serviceVars
  <2>2. QED
    BY <1>1, <1>3, <2>1 DEF HandleSendResult, RolledBack
<1>4. CASE Rebalance \/ \E w \in Workers : CrashWorker(w) \/ \E p \in Partitions : Assign(w, p)
  BY <1>1, <1>4 DEF Rebalance, CrashWorker, Assign
<1>5. ASSUME NEW w \in Workers, NEW p \in Partitions, Handle(w, p)
      PROVE  Labels
  <2>1. CASE Fetch(w, p) \/ FetchNothing(w, p) \/ FetchError(w, p) \/ Preload(w, p)
    BY <1>1, <2>1 DEF Fetch, FetchNothing, FetchError, Preload
  <2>2. CASE SendSms(w, p) \/ SendEmail(w, p) \/ MarkAndCommit(w, p)
    BY <1>1, <2>2 DEF SendSms, SendEmail, CallProvider, MarkAndCommit
  <2>3. QED
    BY <1>2, <1>3, <1>5, <2>1, <2>2 DEF Handle
<1>6. QED
  BY <1>4, <1>5 DEF WorkerNext

LEMMA StepLabels ==
    ASSUME TypeOK, SendInv, ClaimInv, [Next]_vars
    PROVE  Labels
<1>1. CASE UNCHANGED vars
  BY <1>1 DEF vars, dbVars, Labels, QueueLabel, TargetLabel, MessageLabel
<1>2. QED
  BY <1>1, ServiceLabels, WorkerLabels DEF Next

(* Calls and events are only ever added.                                   *)
LEMMA CallsAndEventsGrow ==
    ASSUME TypeOK, [Next]_vars
    PROVE  handed \subseteq handed' /\ \A q \in Queues : events[q] \subseteq events'[q]
<1>0. events \in [Queues -> SUBSET {"sent", "failed"}]
  BY DEF TypeOK, WorkerTypeOK, CallTypeOK
<1>1. CASE UNCHANGED <<handed, events>>
  BY <1>1
<1>2. ASSUME NEW w \in Workers, NEW p \in Partitions, SendSms(w, p) \/ SendEmail(w, p)
      PROVE  handed \subseteq handed' /\ UNCHANGED events
  BY <1>2 DEF SendSms, SendEmail, CallProvider
<1>3. ASSUME NEW w \in Workers, NEW p \in Partitions, HandleSendResult(w, p)
      PROVE  UNCHANGED handed /\ \A q \in Queues : events[q] \subseteq events'[q]
  <2>1. \E q, E : UNCHANGED events \/ events' = [events EXCEPT ![q] = @ \cup E]
    BY <1>3 DEF HandleSendResult, Result, SuccessResult, FailureResult, RolledBack
  <2>2. QED
    BY <1>0, <1>3, <2>1 DEF HandleSendResult
<1>4. ASSUME NEW w \in Workers, NEW p \in Partitions, Handle(w, p)
      PROVE  handed \subseteq handed' /\ \A q \in Queues : events[q] \subseteq events'[q]
  <2>1. CASE Fetch(w, p) \/ FetchNothing(w, p) \/ FetchError(w, p) \/ Preload(w, p)
    BY <1>1, <2>1 DEF Fetch, FetchNothing, FetchError, Preload
  <2>2. CASE UpdateProcessingStatus(w, p) \/ MarkAndCommit(w, p)
    BY <1>1, <2>2 DEF UpdateProcessingStatus, MarkAndCommit
  <2>3. QED
    BY <1>2, <1>3, <1>4, <2>1, <2>2 DEF Handle
<1>5. CASE WorkerNext
  BY <1>1, <1>4, <1>5 DEF WorkerNext, Rebalance, CrashWorker, Assign
<1>6. QED
  BY <1>1, <1>5 DEF Next, vars, workerVars

(* Records stay in a topic.                                                *)
LEMMA RecordsStay ==
    ASSUME TypeOK, [Next]_vars, NEW q, InTopic(q)
    PROVE  InTopic(q)'
<1>1. CASE UNCHANGED log
  BY <1>1 DEF InTopic, Offsets
<1>2. CASE ServiceNext
  BY <1>2, LogGrows, StaysInTopic
<1>3. QED
  BY <1>1, <1>2, WorkersWriteNoRecord DEF Next, vars

(* Where a queue that was answered for stands: a provider was called.      *)
LEMMA AnsweredWasHanded ==
    ASSUME ClaimInv, NEW q, NEW status, Answered(q, status)
    PROVE  q \in handed
BY DEF Answered, ClaimInv, AnswerInv

StatusInv ==
    SendInv /\ ClaimInv /\ EnqueuedInTopic /\ OutcomeNeedsCall /\ OutcomeHasEvent

LEMMA StatusStart == Init => StatusInv
<1> SUFFICES ASSUME Init PROVE StatusInv
  OBVIOUS
<1>1. SendInv
  BY DEF Init, DbInit, ServiceInit, SendInv, NoSend, Offsets
<1>2. ClaimInv
  BY DEF Init, WorkerInit, ClaimInv, NoClaim
<1>3. EnqueuedInTopic /\ OutcomeNeedsCall /\ OutcomeHasEvent
  BY DataAssumption DEF Init, DbInit, NoRow, EnqueuedInTopic, OutcomeNeedsCall, OutcomeHasEvent
<1>4. QED
  BY <1>1, <1>2, <1>3 DEF StatusInv

LEMMA EnqueuedStep ==
    ASSUME TypeOK, SendInv, EnqueuedInTopic, Labels, [Next]_vars
    PROVE  EnqueuedInTopic'
<1>1. \A q \in Queues : InTopic(q) => InTopic(q)'
  BY RecordsStay
<1>2. \A q \in Queues : Acknowledged(q) => InTopic(q)
  BY DEF Acknowledged, SendInv
<1>3. QueueId \in [Targets -> Queues]
  BY DataAssumption
<1>4. \A q \in Queues : queues'[q].status = "enqueued" => InTopic(q)'
  BY <1>1, <1>2 DEF Labels, QueueLabel, EnqueuedInTopic
<1>5. \A t \in Targets : targets'[t].status = "enqueued" => InTopic(QueueId[t])'
  BY <1>1, <1>2, <1>3 DEF Labels, TargetLabel, EnqueuedInTopic
<1>6. \A m \in Messages :
         messages'[m].status = "enqueued" => \E q \in QueuesOf(m) : InTopic(q)'
  BY <1>1, <1>2 DEF Labels, MessageLabel, EnqueuedInTopic, QueuesOf
<1>7. QED
  BY <1>4, <1>5, <1>6 DEF EnqueuedInTopic, QueuesOf

LEMMA OutcomeStep ==
    ASSUME TypeOK, ClaimInv, OutcomeNeedsCall, OutcomeHasEvent, Labels, [Next]_vars
    PROVE  OutcomeNeedsCall' /\ OutcomeHasEvent'
<1>1. handed \subseteq handed' /\ \A q \in Queues : events[q] \subseteq events'[q]
  BY CallsAndEventsGrow
<1>2. \A q \in Queues : \A status : Answered(q, status) => q \in handed'
  BY <1>1, AnsweredWasHanded
<1>3. QueueId \in [Targets -> Queues]
  BY DataAssumption
<1>4. \A q \in Queues : queues'[q].status \in {"success", "failed"} => q \in handed'
  BY <1>1, <1>2 DEF Labels, QueueLabel, OutcomeNeedsCall
<1>5. \A t \in Targets : targets'[t].status \in {"sent", "failed", ""} => QueueId[t] \in handed'
  BY <1>1, <1>2, <1>3 DEF Labels, TargetLabel, OutcomeNeedsCall
<1>6. \A m \in Messages :
         messages'[m].status \in {"sent", "failed"} => \E q \in QueuesOf(m) : q \in handed'
  BY <1>1, <1>2 DEF Labels, MessageLabel, OutcomeNeedsCall, QueuesOf
<1>7. \A q \in Queues :
         /\ queues'[q].status = "success" => "sent" \in events'[q]
         /\ queues'[q].status = "failed" /\ TypeOf(q) = "mail" => "failed" \in events'[q]
  BY <1>1 DEF Labels, QueueLabel, OutcomeHasEvent
<1>8. QED
  BY <1>4, <1>5, <1>6, <1>7 DEF OutcomeNeedsCall, OutcomeHasEvent, QueuesOf, TypeOf

LEMMA StatusInvariant == Spec => []StatusInv
<1>1. TypeOK /\ TypeOK' /\ StatusInv /\ [Next]_vars => StatusInv'
  <2> SUFFICES ASSUME TypeOK, TypeOK', StatusInv, [Next]_vars
               PROVE  StatusInv'
    OBVIOUS
  <2>1. SendInv' /\ ClaimInv'
    BY SendStep, ClaimStep DEF StatusInv
  <2>2. Labels
    BY StepLabels DEF StatusInv
  <2>3. EnqueuedInTopic'
    BY <2>2, EnqueuedStep DEF StatusInv
  <2>4. OutcomeNeedsCall' /\ OutcomeHasEvent'
    BY <2>2, OutcomeStep DEF StatusInv
  <2>5. QED
    BY <2>1, <2>3, <2>4 DEF StatusInv
<1>2. QED
  BY <1>1, StatusStart, TypeCorrect, PTL DEF Spec

-----------------------------------------------------------------------------
(* EnqueuedInTopic: whatever the mix of acknowledged, failed and half-     *)
(* failed sends, a row says "enqueued" only if Kafka holds a record for it.*)
THEOREM EnqueuedHasRecord == Spec => []EnqueuedInTopic
BY StatusInvariant, PTL DEF StatusInv

(* OutcomeNeedsCall: no row shows an outcome before a provider was called  *)
(* with its queue.                                                         *)
THEOREM OutcomesWereCalled == Spec => []OutcomeNeedsCall
BY StatusInvariant, PTL DEF StatusInv

(* OutcomeHasEvent: a queue shown as successful has its "sent" event, a    *)
(* mail queue shown as failed its "failed" event.                          *)
THEOREM OutcomesAreAudited == Spec => []OutcomeHasEvent
BY StatusInvariant, PTL DEF StatusInv
=============================================================================
