----------------------------- MODULE NotifyServer -----------------------------
(***************************************************************************)
(* The calls a client makes (internal/servers/notify.go) against the clock *)
(* and the table of messages: sending, one by one or over a stream, for    *)
(* now or for later; canceling; reading the status page by page.  The cron *)
(* job is here as the reader of what was scheduled.                        *)
(*                                                                         *)
(* What becomes of a message that was handed to HandleEnqueue is the       *)
(* matter of Notify; here it is "taken".  Time is in ticks.                *)
(***************************************************************************)
EXTENDS Naturals, Sequences, FiniteSets

CONSTANTS
    Calls,         \* SendSms, SendBatchSms, SendMail and SendBatchMail calls
    Streams,       \* those of them that are streams
    Limit,         \* SCHEDULE_LIMIT_DAYS of the server
    JobLimit,      \* SCHEDULE_LIMIT_DAYS of the cron job
    Period,        \* the cron job is started at least this often
    PageSize,      \* the page size of a reader
    MaxMessages,   \* bound: messages in one behaviour
    MaxTime,       \* bound: ticks in one behaviour
    Receivers,     \* bound: how many receivers the messages of a call have
    MaxLimit       \* bound: limits of a batch ChunkArray is checked for

ASSUME ServerAssumption ==
    /\ Streams \subseteq Calls
    /\ Limit \in Nat \ {0}
    /\ JobLimit \in Nat \ {0}
    /\ Period \in Nat \ {0}
    /\ PageSize \in Nat \ {0}
    /\ MaxMessages \in Nat
    /\ MaxTime \in Nat
    /\ Receivers \in [Calls -> Nat \ {0}]
    /\ MaxLimit \in Nat

VARIABLES
    clock,
    messages,   \* in the order of their ids
    calls,
    lastRun,    \* when the cron job ran last
    reader      \* a client that reads the status page by page

vars == <<clock, messages, calls, lastRun, reader>>

\* A time of 0 is none: the message is to be sent now.
Now == 0
Times == 0 .. MaxTime
Ids == 1 .. Len(messages)

MessageState == {"absent", "scheduled", "taken", "canceled"}
Message ==
    [call : Calls, at : Times, created : Times, since : Times, state : MessageState]
CallPC == {"receive", "prepared", "stored", "ok", "error"}
\* sent: replies handed to the transport; told: those the client is sure to have
\* received; ended: whether it has received the call's status.
Call == [pc : CallPC, id : 0 .. MaxMessages, sent : Nat, told : Nat, ended : BOOLEAN]
NoCall == [pc |-> "receive", id |-> 0, sent |-> 0, told |-> 0, ended |-> FALSE]
\* unseen: of the rows there were at the first page, those not read yet.
Reader ==
    [pc : {"idle", "reading"}, page : Nat \ {0}, order : {"asc", "desc"},
     unseen : SUBSET (1 .. MaxMessages)]

TypeOK ==
    /\ clock \in Times
    /\ messages \in Seq(Message)
    /\ Len(messages) <= MaxMessages
    /\ \A id \in Ids : messages[id].at <= messages[id].created + Limit
    /\ calls \in [Calls -> Call]
    /\ \A c \in Calls : calls[c].pc \in {"prepared", "stored"} => calls[c].id \in Ids
    /\ lastRun \in 0 .. clock
    /\ reader \in Reader

Init ==
    /\ clock = 0
    /\ messages = <<>>
    /\ calls = [c \in Calls |-> NoCall]
    /\ lastRun = 0
    /\ reader = [pc |-> "idle", page |-> 1, order |-> "asc", unseen |-> {}]

-----------------------------------------------------------------------------
(* Splitting the receivers into queues.                                    *)

ChunkCount(data, size) == (Len(data) + size - 1) \div size

\* Mutation: the last chunk is cut at the end of a full one.
ChunkArrayWhole(data, size) ==
    IF size = 0 THEN <<>>
    ELSE [i \in 1 .. Len(data) \div size |-> SubSeq(data, (i - 1) * size + 1, i * size)]

\* A limit that is not positive gives no chunk.
ChunkArray(data, size) ==
    IF size = 0 THEN <<>>
    ELSE LET end(i) == IF i * size < Len(data) THEN i * size ELSE Len(data)
         IN  [i \in 1 .. ChunkCount(data, size) |-> SubSeq(data, (i - 1) * size + 1, end(i))]

-----------------------------------------------------------------------------
(* Sending.                                                                *)

\* Mutation: the limit is not looked at.
CheckFutureOnly(at) == at = Now \/ at > clock

CheckScheduledAt(at) == at = Now \/ at \in clock + 1 .. clock + Limit

Goto(c, pc) == calls' = [calls EXCEPT ![c].pc = pc]

\* Every error ends its call, a stream with all that was to follow.
HandleError(c) == Goto(c, "error")

\* A request fails the check of its time, or that of its contents.
Reject(c) ==
    /\ calls[c].pc = "receive"
    /\ HandleError(c)
    /\ UNCHANGED <<clock, messages, lastRun, reader>>

\* A valid request.  PublishSmsMessage and PublishMailMessage take the id and
\* the time first and commit later, maybe after a message with a later id.  No
\* request comes so late that the bound of time cuts its limit off.
Accept(c, at) ==
    /\ calls[c].pc = "receive"
    /\ Len(messages) < MaxMessages
    /\ clock + Limit <= MaxTime
    /\ CheckScheduledAt(at)
    /\ messages' = Append(messages,
          [call |-> c, at |-> at, created |-> clock, since |-> 0, state |-> "absent"])
    /\ calls' = [calls EXCEPT ![c] = [@ EXCEPT !.pc = "prepared", !.id = Len(messages) + 1]]
    /\ UNCHANGED <<clock, lastRun, reader>>

\* The client closes its stream, or goes away.
CloseStream(c) ==
    /\ c \in Streams
    /\ calls[c].pc = "receive"
    /\ \E pc \in {"ok", "error"} : Goto(c, pc)
    /\ UNCHANGED <<clock, messages, lastRun, reader>>

\* A message for now is HandleEnqueue's as soon as it is stored.
Store(c) ==
    messages' = [messages EXCEPT ![calls[c].id] =
        IF @.at = Now
        THEN [@ EXCEPT !.state = "taken"]
        ELSE [@ EXCEPT !.state = "scheduled", !.since = clock]]

\* The insert fails (also for want of chunks), or its commit is not confirmed
\* though it took place, or HandleEnqueue fails after it.
PublishFails(c) ==
    /\ calls[c].pc = "prepared"
    /\ HandleError(c)
    /\ \/ UNCHANGED messages
       \/ Store(c)
    /\ UNCHANGED <<clock, lastRun, reader>>

Publish(c) ==
    /\ calls[c].pc = "prepared"
    /\ Goto(c, "stored")
    /\ Store(c)
    /\ UNCHANGED <<clock, lastRun, reader>>

\* Send returned nil: the reply is with the transport, not with the client.
Reply(c) ==
    /\ calls[c].pc = "stored"
    /\ calls' = [calls EXCEPT ![c] =
          [@ EXCEPT !.pc = IF c \in Streams THEN "receive" ELSE "ok",
                    !.sent = calls[c].sent + 1]]
    /\ UNCHANGED <<clock, messages, lastRun, reader>>

\* Mutation: a stream goes on after a Send that failed.
AfterLostReplyGoOn(c) == IF c \in Streams THEN "receive" ELSE "error"

AfterLostReply(c) == "error"

\* Send returned an error.
ReplyLost(c) ==
    /\ calls[c].pc = "stored"
    /\ Goto(c, AfterLostReply(c))
    /\ UNCHANGED <<clock, messages, lastRun, reader>>

\* The transport delivers in order, the status last, so the client that has it
\* has every reply.  Where the connection is lost this does not happen, and any
\* number of the replies may be lost with it.
ReceiveStatus(c) ==
    /\ calls[c].pc \in {"ok", "error"}
    /\ ~calls[c].ended
    /\ calls' = [calls EXCEPT ![c] = [@ EXCEPT !.told = calls[c].sent, !.ended = TRUE]]
    /\ UNCHANGED <<clock, messages, lastRun, reader>>

-----------------------------------------------------------------------------
(* The cron job and the clock.                                             *)

\* Mutation: the window the job reads is one tick too short.
InWindowShort(message) ==
    message.at <= clock /\ clock < message.created + JobLimit

InWindow(message) ==
    message.at <= clock /\ clock <= message.created + JobLimit

Take(message) ==
    IF message.state = "scheduled" /\ InWindow(message)
    THEN [message EXCEPT !.state = "taken"]
    ELSE message

\* A run that reaches the database.
RunJob ==
    /\ messages' = [id \in Ids |-> Take(messages[id])]
    /\ lastRun' = clock
    /\ UNCHANGED <<clock, calls, reader>>

\* Whatever starts the cron job does so in time for a run in every period.
Tick ==
    /\ clock < MaxTime
    /\ clock < lastRun + Period
    /\ clock' = clock + 1
    /\ UNCHANGED <<messages, calls, lastRun, reader>>

\* A message that was taken is canceled or not, as HandleEnqueue is at work
\* on it or has it enqueued.
Cancel(id) ==
    /\ messages[id].state \notin {"absent", "canceled"}
    /\ messages' = [messages EXCEPT ![id].state = "canceled"]
    /\ UNCHANGED <<clock, calls, lastRun, reader>>

-----------------------------------------------------------------------------
(* ListStatusWithPaging, for a client that reads all pages, sorted by a    *)
(* column that is unique and does not change (the id).  The query counts   *)
(* deleted rows in.  A message stands for its targets.                     *)

\* Mutation: soft-deleted rows are left out.
ListedVisible == {id \in Ids : messages[id].state \notin {"absent", "canceled"}}

Listed == {id \in Ids : messages[id].state # "absent"}

\* ORDER BY: where a row comes among others.
Before(order, i, j) == IF order = "asc" THEN i < j ELSE i > j
Rank(rows, order, id) == Cardinality({other \in rows : Before(order, other, id)})

\* OFFSET and LIMIT.
Offset(page) == (page - 1) * PageSize

Page(order, page) ==
    {id \in Listed :
        Rank(Listed, order, id) \in Offset(page) .. Offset(page) + PageSize - 1}

StartReading ==
    /\ reader.pc = "idle"
    /\ \E order \in {"asc", "desc"} :
          reader' = [reader EXCEPT !.pc = "reading", !.order = order, !.unseen = Listed]
    /\ UNCHANGED <<clock, messages, calls, lastRun>>

\* A page that is not full is the last one.
ListStatusWithPaging ==
    /\ reader.pc = "reading"
    /\ LET rows == Page(reader.order, reader.page)
           last == Cardinality(rows) < PageSize
       IN  reader' = [pc |-> IF last THEN "idle" ELSE "reading",
                      page |-> IF last THEN 1 ELSE reader.page + 1,
                      order |-> reader.order,
                      unseen |-> reader.unseen \ rows]
    /\ UNCHANGED <<clock, messages, calls, lastRun>>

Next ==
    \/ \E c \in Calls :
          \/ Reject(c) \/ CloseStream(c)
          \/ \E at \in Times : Accept(c, at)
          \/ PublishFails(c) \/ Publish(c)
          \/ Reply(c) \/ ReplyLost(c) \/ ReceiveStatus(c)
    \/ \E id \in Ids : Cancel(id)
    \/ RunJob \/ Tick
    \/ StartReading \/ ListStatusWithPaging

Spec == Init /\ [][Next]_vars

-----------------------------------------------------------------------------
\* Chunk i begins where i - 1 full ones end, all are full but maybe the last,
\* and each element of the sequence is in one of them.
Cuts(chunks, data, size) ==
    /\ \A i \in DOMAIN chunks :
          /\ Len(chunks[i]) \in 1 .. size
          /\ i < Len(chunks) => Len(chunks[i]) = size
          /\ \A k \in DOMAIN chunks[i] :
                /\ (i - 1) * size + k \in DOMAIN data
                /\ chunks[i][k] = data[(i - 1) * size + k]
    /\ \A j \in DOMAIN data :
          \E i \in DOMAIN chunks :
             \E k \in DOMAIN chunks[i] : (i - 1) * size + k = j

(* Whatever the limit of a batch, the chunks of a prepared message lose,   *)
(* repeat and reorder none of its receivers, are never empty or larger     *)
(* than the limit, and are as few as that allows.                          *)
ChunksPartition ==
    \A c \in Calls, size \in 1 .. MaxLimit :
        calls[c].pc = "prepared" =>
            LET data == [i \in 1 .. Receivers[c] |-> i]
            IN  Cuts(ChunkArray(data, size), data, size)

(* However the server ends a call (all is sent, an invalid request, a      *)
(* failed publish or Send), a client that has its status knows of all the  *)
(* messages that were stored but one, and of that one too if all is well.  *)
(* Without the status (the connection was lost) any number may be unknown. *)
StoredBy(c) ==
    {id \in Ids : messages[id].call = c /\ messages[id].state # "absent"}
UnconfirmedAtMostOne ==
    \A c \in Calls :
        calls[c].ended =>
            /\ Cardinality(StoredBy(c)) - calls[c].told \in {0, 1}
            /\ calls[c].pc = "ok" => Cardinality(StoredBy(c)) = calls[c].told

(* A scheduled message is dispatched within a period of its time, if that  *)
(* period ends within the limit of days after its creation: the window the *)
(* validator accepts and the one the job reads leave no gap but at the end.*)
DueFrom(message) == IF message.at < message.since THEN message.since ELSE message.at
Overdue(message) ==
    message.state = "scheduled" /\ clock > DueFrom(message) + Period
DispatchedInTime ==
    \A id \in Ids :
        LET message == messages[id]
        IN  DueFrom(message) + Period <= message.created + JobLimit => ~Overdue(message)

(* Whoever reads all pages has seen every row that was there when the      *)
(* first one was read, whatever is inserted, dispatched and canceled in    *)
(* between.                                                                *)
PagesMissNothing == reader.pc = "idle" => reader.unseen = {}

-----------------------------------------------------------------------------
(* notify.proto: a message may be scheduled up to the limit of days ahead. *)
(* One that was stored before its time, and whose sender got its id, is    *)
(* dispatched.                                                             *)
AcceptedIsDispatchedInTime ==
    \A id \in Ids :
        LET message == messages[id]
            call == calls[message.call]
        IN  call.ended /\ call.pc = "ok" /\ message.since < message.at => ~Overdue(message)
=============================================================================
