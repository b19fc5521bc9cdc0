-------------------------- MODULE NotifyServerProofs --------------------------
(***************************************************************************)
(* What holds of the server's calls and of the cron job for any number of  *)
(* calls, any limit of days and any period of the job.                     *)
(***************************************************************************)
EXTENDS NotifyServer, FiniteSetTheorems, SequenceTheorems, TLAPS

(* What each step does to the table, in the terms the proofs need: a row   *)
(* is appended, or the rows keep what a message was accepted with.         *)
Kept == \A id \in Ids : /\ messages'[id].call = messages[id].call
                        /\ messages'[id].at = messages[id].at
                        /\ messages'[id].created = messages[id].created

-----------------------------------------------------------------------------
(* The initial state is well typed.                                        *)
LEMMA InitTyped == Init => TypeOK
<1> SUFFICES ASSUME Init PROVE TypeOK
  OBVIOUS
<1>1. messages \in Seq(Message) /\ Len(messages) = 0 /\ Ids = {}
  BY DEF Init, Ids
<1>2. clock \in Times /\ lastRun \in 0 .. clock
  BY ServerAssumption DEF Init, Times
<1>3. calls \in [Calls -> Call] /\ \A c \in Calls : calls[c].pc = "receive"
  BY ServerAssumption DEF Init, Call, NoCall, CallPC
<1>4. reader \in Reader
  BY DEF Init, Reader
<1>5. QED
  BY <1>1, <1>2, <1>3, <1>4, ServerAssumption DEF TypeOK

(* A change of one row, of one record of a well typed table, is well typed *)
(* and changes no other row.                                               *)
LEMMA RowChanged ==
    ASSUME TypeOK, NEW id \in Ids, NEW row \in Message,
           row.at = messages[id].at, row.call = messages[id].call,
           row.created = messages[id].created,
           messages' = [messages EXCEPT ![id] = row]
    PROVE  /\ messages' \in Seq(Message)
           /\ Len(messages') = Len(messages)
           /\ Ids' = Ids
           /\ Kept
           /\ \A i \in Ids : messages'[i] = IF i = id THEN row ELSE messages[i]
BY DEF TypeOK, Ids, Kept

(* A message that is stored gets its state and the time of its commit.     *)
LEMMA StoreType ==
    ASSUME TypeOK, NEW c \in Calls, calls[c].id \in Ids, Store(c)
    PROVE  \E row \in Message :
              LET id == calls[c].id
              IN  /\ messages' = [messages EXCEPT ![id] = row]
                  /\ row.at = messages[id].at
                  /\ row.call = messages[id].call
                  /\ row.created = messages[id].created
                  /\ \/ row.state = "taken"
                     \/ row.state = "scheduled" /\ row.since = clock
<1> DEFINE id == calls[c].id
           row == IF messages[id].at = Now
                  THEN [messages[id] EXCEPT !.state = "taken"]
                  ELSE [messages[id] EXCEPT !.state = "scheduled", !.since = clock]
<1>1. messages[id] \in Message
  BY DEF TypeOK, Ids
<1>2. row \in Message
  BY <1>1 DEF TypeOK, Message, MessageState
<1>3. messages' = [messages EXCEPT ![id] = row]
  BY <1>1 DEF Store
<1>4. /\ row.at = messages[id].at /\ row.call = messages[id].call
      /\ row.created = messages[id].created
      /\ \/ row.state = "taken"
         \/ row.state = "scheduled" /\ row.since = clock
  BY <1>1 DEF Message
<1>5. QED
  BY <1>2, <1>3, <1>4

(* Canceling changes the state of a row.                                   *)
LEMMA CancelType ==
    ASSUME TypeOK, NEW id \in Ids, Cancel(id)
    PROVE  \E row \in Message :
              /\ messages' = [messages EXCEPT ![id] = row]
              /\ row.at = messages[id].at
              /\ row.call = messages[id].call
              /\ row.created = messages[id].created
              /\ row.state = "canceled"
<1> DEFINE row == [messages[id] EXCEPT !.state = "canceled"]
<1>1. messages[id] \in Message
  BY DEF TypeOK, Ids
<1>2. row \in Message /\ row.state = "canceled" /\ row.at = messages[id].at
      /\ row.call = messages[id].call /\ row.created = messages[id].created
  BY <1>1 DEF Message, MessageState
<1>3. messages' = [messages EXCEPT ![id] = row]
  BY DEF Cancel
<1>4. QED
  BY <1>2, <1>3

(* A run of the job takes rows and leaves the others as they are.          *)
LEMMA RunType ==
    ASSUME TypeOK, RunJob
    PROVE  /\ messages' \in Seq(Message)
           /\ Len(messages') = Len(messages)
           /\ Ids' = Ids
           /\ Kept
           /\ \A i \in Ids : messages'[i] = Take(messages[i])
<1>1. \A i \in Ids : messages[i] \in Message
  BY DEF TypeOK, Ids
<1>2. \A i \in Ids : /\ Take(messages[i]) \in Message
                     /\ Take(messages[i]).at = messages[i].at
                     /\ Take(messages[i]).call = messages[i].call
                     /\ Take(messages[i]).created = messages[i].created
  BY <1>1 DEF Take, Message, MessageState
<1>3. Len(messages) \in Nat /\ messages' = [i \in 1 .. Len(messages) |-> Take(messages[i])]
  BY DEF TypeOK, RunJob, Ids
<1>4. messages' \in Seq(Message) /\ Len(messages') = Len(messages)
  BY <1>2, <1>3 DEF Ids
<1>5. QED
  BY <1>2, <1>3, <1>4 DEF Ids, Kept

(* A request that is accepted gets the next row, which is not stored yet.  *)
LEMMA AcceptType ==
    ASSUME TypeOK, NEW c \in Calls, NEW at \in Times, Accept(c, at)
    PROVE  LET id == Len(messages) + 1
           IN  /\ messages' \in Seq(Message)
               /\ Len(messages') = id
               /\ id <= MaxMessages
               /\ \A i \in Ids : messages'[i] = messages[i]
               /\ messages'[id].call = c
               /\ messages'[id].state = "absent"
               /\ messages'[id].at = at
               /\ messages'[id].created = clock
               /\ at <= clock + Limit
<1> DEFINE row == [call |-> c, at |-> at, created |-> clock, since |-> 0, state |-> "absent"]
<1>1. row \in Message
  BY ServerAssumption DEF TypeOK, Message, MessageState, Times
<1>2. messages' = Append(messages, row)
  BY DEF Accept
<1>3. messages' \in Seq(Message) /\ Len(messages') = Len(messages) + 1
  BY <1>1, <1>2 DEF TypeOK
<1>. HIDE DEF row
<1>4. messages'[Len(messages) + 1] = row /\ \A i \in Ids : messages'[i] = messages[i]
  BY <1>2 DEF TypeOK, Ids
<1>5. at <= clock + Limit
  BY ServerAssumption DEF Accept, CheckScheduledAt, Now, TypeOK, Times
<1>6. Len(messages) + 1 <= MaxMessages
  BY ServerAssumption DEF Accept, TypeOK
<1>7. row.call = c /\ row.state = "absent" /\ row.at = at /\ row.created = clock
  BY DEF row
<1>8. QED
  BY <1>3, <1>4, <1>5, <1>6, <1>7

(* Every step is well typed.                                               *)
LEMMA NextTyped == TypeOK /\ [Next]_vars => TypeOK'
<1> SUFFICES ASSUME TypeOK, [Next]_vars PROVE TypeOK'
  OBVIOUS
<1> USE ServerAssumption
<1>0. ASSUME messages' \in Seq(Message), Len(messages') = Len(messages), Kept, Ids' = Ids
      PROVE  \A id \in Ids' : messages'[id].at <= messages'[id].created + Limit
  BY <1>0 DEF Kept, TypeOK
<1>1. ASSUME NEW c \in Calls, NEW pc \in CallPC, Goto(c, pc),
             pc \in {"prepared", "stored"} => calls[c].id \in Ids
      PROVE  calls' \in [Calls -> Call]
             /\ \A d \in Calls : calls'[d].pc \in {"prepared", "stored"} => calls'[d].id \in Ids
  BY <1>1 DEF Goto, TypeOK, Call
<1>2. ASSUME NEW c \in Calls, Reject(c) \/ CloseStream(c) \/ ReplyLost(c)
      PROVE  TypeOK'
  BY <1>1, <1>2 DEF HandleError, Reject, CloseStream, ReplyLost, AfterLostReply, TypeOK, Ids, CallPC
<1>3. ASSUME NEW c \in Calls, Reply(c)
      PROVE  TypeOK'
  <2>0. PICK pc \in {"receive", "ok"} :
           calls' = [calls EXCEPT ![c] = [@ EXCEPT !.pc = pc, !.sent = calls[c].sent + 1]]
    BY <1>3 DEF Reply
  <2>3. calls[c] \in Call /\ [calls[c] EXCEPT !.pc = pc, !.sent = calls[c].sent + 1] \in Call
    <3>1. calls[c] \in Call
      BY DEF TypeOK
    <3>2. pc \in CallPC /\ calls[c].sent + 1 \in Nat
      BY <3>1 DEF Call, CallPC
    <3>3. QED
      BY <3>1, <3>2 DEF Call
  <2>1. calls' \in [Calls -> Call]
        /\ \A d \in Calls : calls'[d].pc \in {"prepared", "stored"} => calls'[d].id \in Ids
    BY <2>0, <2>3 DEF TypeOK, Call
  <2>2. QED
    BY <1>3, <2>1 DEF Reply, TypeOK, Ids
<1>4. ASSUME NEW c \in Calls, NEW at \in Times, Accept(c, at)
      PROVE  TypeOK'
  <2>0. Len(messages) \in Nat /\ Len(messages') = Len(messages) + 1
    <3>1. Len(messages) \in Nat
      BY DEF TypeOK
    <3>2. QED
      BY <1>4, <3>1, AcceptType
  <2>1. Ids' = Ids \cup {Len(messages) + 1}
    BY <2>0 DEF Ids
  <2>2. calls' \in [Calls -> Call]
        /\ \A d \in Calls : calls'[d].pc \in {"prepared", "stored"} => calls'[d].id \in Ids'
    <3>1. Len(messages) + 1 \in 0 .. MaxMessages
      <4>1. Len(messages) + 1 <= MaxMessages
        BY <1>4, AcceptType
      <4>2. QED
        BY <2>0, <4>1
    <3>2. calls' = [calls EXCEPT
             ![c] = [@ EXCEPT !.pc = "prepared", !.id = Len(messages) + 1]]
      BY <1>4 DEF Accept
    <3>3. calls[c] \in Call
      BY DEF TypeOK
    <3>4. [calls[c] EXCEPT !.pc = "prepared", !.id = Len(messages) + 1] \in Call
      BY <3>1, <3>3 DEF Call, CallPC
    <3>6. QED
      BY <2>1, <3>2, <3>4 DEF TypeOK
  <2>3. \A id \in Ids' : messages'[id].at <= messages'[id].created + Limit
    <3>1. \A id \in Ids : messages[id].at <= messages[id].created + Limit
      BY DEF TypeOK
    <3>2. QED
      BY <1>4, <2>1, <3>1, AcceptType
  <2>4. QED
    BY <1>4, <2>1, <2>2, <2>3, AcceptType DEF Accept, TypeOK
<1>5. ASSUME NEW c \in Calls, PublishFails(c) \/ Publish(c)
      PROVE  TypeOK'
  <2>1. calls[c].pc = "prepared" /\ calls[c].id \in Ids
    BY <1>5 DEF HandleError, PublishFails, Publish, TypeOK
  <2>2. calls' \in [Calls -> Call]
        /\ \A d \in Calls : calls'[d].pc \in {"prepared", "stored"} => calls'[d].id \in Ids
    BY <1>1, <1>5, <2>1 DEF HandleError, PublishFails, Publish, CallPC
  <2>3. CASE UNCHANGED messages
    BY <1>5, <2>2, <2>3 DEF HandleError, PublishFails, Publish, TypeOK, Ids
  <2>4. CASE Store(c)
    <3>1. /\ messages' \in Seq(Message) /\ Len(messages') = Len(messages)
          /\ Kept /\ Ids' = Ids
      BY <2>1, <2>4, StoreType, RowChanged
    <3>2. QED
      BY <1>0, <1>5, <2>2, <3>1 DEF HandleError, PublishFails, Publish, TypeOK
  <2>5. QED
    BY <1>5, <2>3, <2>4 DEF HandleError, PublishFails, Publish
<1>6. ASSUME NEW id \in Ids, Cancel(id)
      PROVE  TypeOK'
  <2>1. /\ messages' \in Seq(Message) /\ Len(messages') = Len(messages)
        /\ Kept /\ Ids' = Ids
    BY <1>6, CancelType, RowChanged
  <2>2. QED
    BY <1>0, <1>6, <2>1 DEF Cancel, TypeOK
<1>7. CASE RunJob
  <2>1. /\ messages' \in Seq(Message) /\ Len(messages') = Len(messages)
        /\ Kept /\ Ids' = Ids
    BY <1>7, RunType
  <2>2. QED
    <3>1. clock \in Times /\ clock' = clock /\ lastRun' \in 0 .. clock
      BY <1>7 DEF RunJob, TypeOK, Times
    <3>2. QED
      BY <1>0, <1>7, <2>1, <3>1 DEF RunJob, TypeOK
<1>8. CASE Tick
  BY <1>8 DEF Tick, TypeOK, Times, Ids
<1>9. CASE StartReading
  <2>1. Listed \in SUBSET (1 .. MaxMessages)
    BY DEF Listed, TypeOK, Ids
  <2>2. reader' \in Reader
    BY <1>9, <2>1 DEF StartReading, TypeOK, Reader
  <2>3. QED
    BY <1>9, <2>2 DEF StartReading, TypeOK, Ids
<1>10. CASE ListStatusWithPaging
  <2>1. reader' \in Reader
    <3>1. reader \in Reader
      BY DEF TypeOK
    <3>2. /\ reader'.pc \in {"idle", "reading"}
          /\ reader'.page \in {1, reader.page + 1}
          /\ reader' = [pc |-> reader'.pc, page |-> reader'.page, order |-> reader.order,
                        unseen |-> reader'.unseen]
          /\ reader'.unseen \subseteq reader.unseen
      BY <1>10 DEF ListStatusWithPaging
    <3>3. QED
      BY <3>1, <3>2 DEF Reader
  <2>2. QED
    BY <1>10, <2>1 DEF ListStatusWithPaging, TypeOK, Ids
<1>11. CASE UNCHANGED vars
  BY <1>11 DEF vars, TypeOK, Ids
<1>12. ASSUME NEW c \in Calls, ReceiveStatus(c)
       PROVE  TypeOK'
  <2>1. calls[c] \in Call
        /\ [calls[c] EXCEPT !.told = calls[c].sent, !.ended = TRUE] \in Call
    BY DEF TypeOK, Call
  <2>2. calls' \in [Calls -> Call]
        /\ \A d \in Calls : calls'[d].pc \in {"prepared", "stored"} => calls'[d].id \in Ids
    BY <1>12, <2>1 DEF ReceiveStatus, TypeOK, Call
  <2>3. QED
    BY <1>12, <2>2 DEF ReceiveStatus, TypeOK, Ids
<1>13. QED
  BY <1>2, <1>3, <1>4, <1>5, <1>6, <1>7, <1>8, <1>9, <1>10, <1>11, <1>12 DEF Next

(* The server and the cron job keep their types; a message's time is never *)
(* further from its creation than the limit.                               *)
THEOREM ServerTypeCorrect == Spec => []TypeOK
BY InitTyped, NextTyped, PTL DEF Spec

-----------------------------------------------------------------------------
(* Time.  The last run of the job came before a scheduled message was due: *)
(* had it come after, the message would have been in its window.           *)
Slack(message) == DueFrom(message) + Period <= message.created + JobLimit

Fresh(message, now, run) ==
    message.state = "scheduled" =>
        message.since <= now /\ (Slack(message) => run <= DueFrom(message))

Timely ==
    /\ clock <= lastRun + Period
    /\ \A id \in Ids : Fresh(messages[id], clock, lastRun)

(* A run of the job leaves only messages that are not due yet, or that     *)
(* have no period left: it cannot find a message with slack too old.       *)
LEMMA RunKeepsFresh ==
    ASSUME TypeOK, NEW message \in Message, Fresh(message, clock, lastRun),
           clock <= lastRun + Period
    PROVE  Fresh(Take(message), clock, clock)
<1>1. CASE message.state = "scheduled" /\ ~InWindow(message)
  <2>1. Take(message) = message
    BY <1>1 DEF Take
  <2>2. message.since \in Nat /\ message.at \in Nat /\ message.created \in Nat
        /\ clock \in Nat /\ lastRun \in Nat /\ Period \in Nat /\ JobLimit \in Nat
    BY ServerAssumption DEF TypeOK, Message, Times
  <2>3. ASSUME Slack(message) PROVE clock <= DueFrom(message)
    <3>1. CASE ~(message.at <= clock)
      BY <2>2, <3>1 DEF DueFrom
    <3>2. CASE message.created + JobLimit < clock
      BY <1>1, <2>2, <2>3, <3>2 DEF Fresh, Slack, DueFrom
    <3>3. QED
      BY <1>1, <2>2, <3>1, <3>2 DEF InWindow
  <2>4. QED
    BY <1>1, <2>1, <2>3 DEF Fresh, Slack, DueFrom
<1>2. CASE message.state = "scheduled" /\ InWindow(message)
  BY <1>2 DEF Take, Fresh, Message
<1>3. CASE message.state # "scheduled"
  BY <1>3 DEF Take, Fresh
<1>4. QED
  BY <1>1, <1>2, <1>3

(* Every step keeps the messages fresh.                                    *)
LEMMA NextTimely == TypeOK /\ TypeOK' /\ Timely /\ [Next]_vars => Timely'
<1> SUFFICES ASSUME TypeOK, TypeOK', Timely, [Next]_vars PROVE Timely'
  OBVIOUS
<1> USE ServerAssumption
<1>0. /\ clock \in Nat /\ lastRun \in Nat /\ lastRun <= clock
      /\ \A id \in Ids : messages[id] \in Message
      /\ \A id \in Ids' : messages'[id] \in Message
  BY DEF TypeOK, Times, Ids
<1>1. ASSUME UNCHANGED <<clock, messages, lastRun>>
      PROVE  Timely'
  BY <1>1 DEF Timely, Fresh, Slack, DueFrom, Ids
<1>2. ASSUME NEW id \in Ids, NEW row \in Message,
             row.at = messages[id].at, row.call = messages[id].call,
             row.created = messages[id].created,
             messages' = [messages EXCEPT ![id] = row],
             row.state # "scheduled" \/ row.since = clock,
             UNCHANGED <<clock, lastRun>>
      PROVE  Timely'
  <2>1. Ids' = Ids /\ \A i \in Ids : messages'[i] = IF i = id THEN row ELSE messages[i]
    BY <1>2, RowChanged
  <2>2. clock <= DueFrom(row) \/ row.state # "scheduled"
    BY <1>0, <1>2 DEF DueFrom, Message, Times
  <2>3. DueFrom(row) \in Nat
    BY DEF DueFrom, Message, Times
  <2>4. Fresh(row, clock, lastRun)
    BY <1>0, <1>2, <2>2, <2>3 DEF Fresh
  <2>5. QED
    BY <1>2, <2>1, <2>4 DEF Timely, Fresh, Slack, DueFrom
<1>3. ASSUME NEW c \in Calls, NEW at \in Times, Accept(c, at)
      PROVE  Timely'
  <2>1. Len(messages) \in Nat
    BY DEF TypeOK
  <2>2. /\ Ids' = Ids \cup {Len(messages) + 1}
        /\ \A i \in Ids : messages'[i] = messages[i]
        /\ messages'[Len(messages) + 1].state = "absent"
    BY <1>3, <2>1, AcceptType DEF Ids
  <2>3. QED
    BY <1>3, <2>2 DEF Accept, Timely, Fresh, Slack, DueFrom
<1>4. ASSUME NEW c \in Calls, PublishFails(c) \/ Publish(c)
      PROVE  Timely'
  <2>1. calls[c].id \in Ids /\ UNCHANGED <<clock, lastRun>>
    BY <1>4 DEF HandleError, PublishFails, Publish, TypeOK
  <2>2. CASE UNCHANGED messages
    BY <1>1, <2>1, <2>2
  <2>3. CASE Store(c)
    BY <1>2, <2>1, <2>3, StoreType
  <2>4. QED
    BY <1>4, <2>2, <2>3 DEF HandleError, PublishFails, Publish
<1>5. ASSUME NEW id \in Ids, Cancel(id)
      PROVE  Timely'
  <2>1. UNCHANGED <<clock, lastRun>>
    BY <1>5 DEF Cancel
  <2>2. QED
    BY <1>2, <1>5, <2>1, CancelType
<1>6. CASE RunJob
  <2>1. Ids' = Ids /\ \A i \in Ids : messages'[i] = Take(messages[i])
    BY <1>6, RunType
  <2>2. \A i \in Ids : Fresh(Take(messages[i]), clock, clock)
    BY <1>0, RunKeepsFresh DEF Timely
  <2>3. clock' = clock /\ lastRun' = clock
    BY <1>6 DEF RunJob
  <2>4. \A i \in Ids' : Fresh(messages'[i], clock', lastRun')
    BY <2>1, <2>2, <2>3
  <2>5. clock' <= lastRun' + Period
    BY <1>0, <2>3
  <2>6. QED
    BY <2>4, <2>5 DEF Timely
<1>7. CASE Tick
  BY <1>0, <1>7 DEF Tick, Timely, Fresh, Slack, DueFrom, Ids, Message, Times
<1>8. CASE \E c \in Calls : Reject(c) \/ CloseStream(c) \/ Reply(c) \/ ReplyLost(c) \/ ReceiveStatus(c)
  BY <1>1, <1>8 DEF HandleError, Reject, CloseStream, Reply, ReplyLost, ReceiveStatus
<1>9. CASE StartReading \/ ListStatusWithPaging \/ UNCHANGED vars
  BY <1>1, <1>9 DEF StartReading, ListStatusWithPaging, vars
<1>10. QED
  BY <1>3, <1>4, <1>5, <1>6, <1>7, <1>8, <1>9 DEF Next

(* A scheduled message is dispatched within a period of its time, if that  *)
(* period ends within the limit of days after its creation, for every      *)
(* limit, every period and however late the transaction commits.           *)
THEOREM ScheduledIsDispatched == Spec => []DispatchedInTime
<1>1. Init => Timely
  BY ServerAssumption DEF Init, Timely, Ids
<1>2. TypeOK /\ Timely => DispatchedInTime
  <2> SUFFICES ASSUME TypeOK, Timely, NEW id \in Ids, Slack(messages[id]),
                      Overdue(messages[id])
               PROVE  FALSE
    BY DEF DispatchedInTime, Slack
  <2>0. messages[id] \in Message /\ clock \in Nat /\ lastRun \in Nat
    BY ServerAssumption DEF TypeOK, Times, Ids
  <2>1. DueFrom(messages[id]) \in Nat
    BY <2>0, ServerAssumption DEF Times, Message, DueFrom
  <2>2. lastRun <= DueFrom(messages[id]) /\ clock <= lastRun + Period
    BY DEF Timely, Fresh, Overdue
  <2>3. clock > DueFrom(messages[id]) + Period
    BY DEF Overdue
  <2>4. QED
    BY <2>0, <2>1, <2>2, <2>3, ServerAssumption
<1>3. QED
  BY <1>1, <1>2, NextTimely, ServerTypeCorrect, NextTyped, PTL DEF Spec

-----------------------------------------------------------------------------
(* Replies.  What a call has stored and what it has replied to differ by   *)
(* the message it is about to reply to, or failed to; a client that has    *)
(* the status has every reply.                                             *)
Counted(c) ==
    LET stored == Cardinality(StoredBy(c))
    IN  /\ calls[c].pc \in {"receive", "prepared", "ok"} => stored = calls[c].sent
        /\ calls[c].pc = "stored" => stored = calls[c].sent + 1
        /\ calls[c].pc = "error" => stored - calls[c].sent \in {0, 1}
        /\ calls[c].ended =>
              calls[c].pc \in {"ok", "error"} /\ calls[c].told = calls[c].sent
        /\ calls[c].pc = "prepared" =>
              /\ messages[calls[c].id].call = c
              /\ messages[calls[c].id].state = "absent"

AllCounted == \A c \in Calls : Counted(c)

(* There are finitely many messages.                                       *)
LEMMA StoredFinite ==
    ASSUME TypeOK, NEW c
    PROVE  IsFiniteSet(StoredBy(c)) /\ Cardinality(StoredBy(c)) \in Nat
<1>1. IsFiniteSet(Ids)
  BY FS_Interval DEF Ids, TypeOK
<1>2. StoredBy(c) \in SUBSET Ids
  BY DEF StoredBy
<1>3. IsFiniteSet(StoredBy(c))
  BY <1>1, <1>2, FS_Subset
<1>4. QED
  BY <1>3, FS_CardinalityType

(* While a call's rows are the same and it is where it was, its count is.  *)
LEMMA SameCount ==
    ASSUME AllCounted, NEW c \in Calls, StoredBy(c)' = StoredBy(c), calls'[c] = calls[c],
           calls[c].pc = "prepared" => messages'[calls[c].id] = messages[calls[c].id]
    PROVE  Counted(c)'
BY DEF AllCounted, Counted

(* Rows that keep their caller and stay stored, or stay out, are the same  *)
(* for every call.                                                         *)
LEMMA SameRows ==
    ASSUME Ids' = Ids, Kept, NEW c,
           \A id \in Ids : messages'[id].state = "absent" <=> messages[id].state = "absent"
    PROVE  StoredBy(c)' = StoredBy(c)
BY DEF StoredBy, Kept

(* Every step keeps the counts.                                            *)
LEMMA NextCounted == TypeOK /\ AllCounted /\ [Next]_vars => AllCounted'
<1> SUFFICES ASSUME TypeOK, AllCounted, [Next]_vars PROVE AllCounted'
  OBVIOUS
<1>0. /\ \A c \in Calls : calls[c].sent \in Nat /\ calls[c].pc \in CallPC
      /\ \A c \in Calls : Cardinality(StoredBy(c)) \in Nat
      /\ \A c \in Calls : calls[c].pc = "prepared" => calls[c].id \in Ids
  BY StoredFinite DEF TypeOK, Call
<1>1. ASSUME UNCHANGED messages, NEW c \in Calls,
             \A d \in Calls : d # c => calls'[d] = calls[d], Counted(c)'
      PROVE  AllCounted'
  <2>1. \A d : StoredBy(d)' = StoredBy(d)
    BY <1>1 DEF StoredBy, Ids
  <2>2. \A d \in Calls : d # c => Counted(d)'
    BY <1>1, <2>1, SameCount
  <2>3. QED
    BY <1>1, <2>2 DEF AllCounted
<1>2. ASSUME NEW c \in Calls, NEW pc \in CallPC \ {"prepared", "stored"},
             UNCHANGED messages, Goto(c, pc),
             \/ calls[c].pc \in {"receive", "prepared"}
             \/ calls[c].pc = "stored" /\ pc = "error"
      PROVE  AllCounted'
  <2>1. StoredBy(c)' = StoredBy(c)
    BY <1>2 DEF StoredBy, Ids
  <2>2. /\ calls'[c].pc = pc /\ calls'[c].sent = calls[c].sent
        /\ calls'[c].ended = calls[c].ended
        /\ \A d \in Calls : d # c => calls'[d] = calls[d]
    BY <1>2 DEF Goto, TypeOK, Call
  <2>3. Counted(c)'
    BY <1>0, <1>2, <2>1, <2>2 DEF AllCounted, Counted, CallPC
  <2>4. QED
    BY <1>1, <1>2, <2>2, <2>3
<1>3. ASSUME NEW c \in Calls, Reject(c) \/ CloseStream(c) \/ ReplyLost(c)
      PROVE  AllCounted'
  BY <1>2, <1>3 DEF HandleError, Reject, CloseStream, ReplyLost, AfterLostReply, CallPC
<1>4. ASSUME NEW c \in Calls, Reply(c)
      PROVE  AllCounted'
  <2>1. StoredBy(c)' = StoredBy(c)
    BY <1>4 DEF Reply, StoredBy, Ids
  <2>2. /\ calls'[c].pc \in {"receive", "ok"}
        /\ calls'[c].sent = calls[c].sent + 1
        /\ calls'[c].ended = calls[c].ended /\ ~calls[c].ended
        /\ \A d \in Calls : d # c => calls'[d] = calls[d]
    <3>1. PICK pc \in {"receive", "ok"} :
             calls' = [calls EXCEPT ![c] = [@ EXCEPT !.pc = pc, !.sent = calls[c].sent + 1]]
      BY <1>4 DEF Reply
    <3>2. ~calls[c].ended
      BY <1>4 DEF Reply, AllCounted, Counted
    <3>3. QED
      BY <3>1, <3>2 DEF TypeOK, Call
  <2>3. Counted(c)'
    BY <1>4, <2>1, <2>2 DEF Reply, AllCounted, Counted
  <2>4. QED
    BY <1>1, <1>4, <2>2, <2>3 DEF Reply
<1>13. ASSUME NEW c \in Calls, ReceiveStatus(c)
       PROVE  AllCounted'
  <2>1. StoredBy(c)' = StoredBy(c)
    BY <1>13 DEF ReceiveStatus, StoredBy, Ids
  <2>2. /\ calls'[c].pc = calls[c].pc /\ calls[c].pc \in {"ok", "error"}
        /\ calls'[c].sent = calls[c].sent /\ calls'[c].told = calls[c].sent
        /\ \A d \in Calls : d # c => calls'[d] = calls[d]
    BY <1>13 DEF ReceiveStatus, TypeOK, Call
  <2>3. Counted(c)'
    BY <2>1, <2>2 DEF AllCounted, Counted
  <2>4. QED
    BY <1>1, <1>13, <2>2, <2>3 DEF ReceiveStatus
<1>5. ASSUME NEW c \in Calls, NEW at \in Times, Accept(c, at)
      PROVE  AllCounted'
  <2>1. Len(messages) \in Nat
    BY DEF TypeOK
  <2>2. /\ Ids' = Ids \cup {Len(messages) + 1}
        /\ \A i \in Ids : messages'[i] = messages[i]
        /\ messages'[Len(messages) + 1].state = "absent"
        /\ messages'[Len(messages) + 1].call = c
    BY <1>5, <2>1, AcceptType DEF Ids
  <2>3. \A d : StoredBy(d)' = StoredBy(d)
    BY <2>2 DEF StoredBy
  <2>4. calls' = [calls EXCEPT
           ![c] = [@ EXCEPT !.pc = "prepared", !.id = Len(messages) + 1]]
    BY <1>5 DEF Accept
  <2>5. /\ calls'[c].pc = "prepared" /\ calls'[c].id = Len(messages) + 1
        /\ calls'[c].sent = calls[c].sent /\ calls'[c].ended = calls[c].ended
        /\ \A d \in Calls : d # c => calls'[d] = calls[d]
    BY <2>4 DEF TypeOK, Call
  <2>6. Counted(c)'
    BY <1>5, <2>2, <2>3, <2>5 DEF Accept, AllCounted, Counted
  <2>7. \A d \in Calls : d # c => Counted(d)'
    BY <1>0, <2>2, <2>3, <2>5, SameCount
  <2>8. QED
    BY <2>6, <2>7 DEF AllCounted
<1>6. ASSUME NEW c \in Calls, calls[c].pc = "prepared", Store(c),
             NEW pc \in {"stored", "error"}, Goto(c, pc)
      PROVE  AllCounted'
  <2> DEFINE id == calls[c].id
  <2>1. id \in Ids /\ messages[id].call = c /\ messages[id].state = "absent"
    BY <1>0, <1>6 DEF AllCounted, Counted
  <2>2. /\ Ids' = Ids /\ Kept
        /\ messages'[id].state # "absent"
        /\ \A i \in Ids : i # id => messages'[i] = messages[i]
    BY <1>6, <2>1, StoreType, RowChanged
  <2>3. /\ calls'[c].pc = pc /\ calls'[c].sent = calls[c].sent
        /\ calls'[c].ended = calls[c].ended
        /\ \A d \in Calls : d # c => calls'[d] = calls[d]
    BY <1>6 DEF Goto, TypeOK, Call
  <2>4. StoredBy(c)' = StoredBy(c) \cup {id} /\ id \notin StoredBy(c)
    BY <2>1, <2>2 DEF StoredBy, Kept
  <2>5. Cardinality(StoredBy(c)') = Cardinality(StoredBy(c)) + 1
    BY <2>4, StoredFinite, FS_AddElement
  <2>6. Counted(c)'
    BY <1>0, <1>6, <2>3, <2>5 DEF AllCounted, Counted
  <2>7. ASSUME NEW d \in Calls, d # c
        PROVE  Counted(d)'
    <3>1. StoredBy(d)' = StoredBy(d)
      BY <2>1, <2>2, <2>7 DEF StoredBy, Kept
    <3>2. calls[d].pc = "prepared" => messages'[calls[d].id] = messages[calls[d].id]
      BY <1>0, <2>1, <2>2, <2>7 DEF AllCounted, Counted
    <3>3. QED
      BY <2>3, <2>7, <3>1, <3>2, SameCount
  <2>8. QED
    BY <2>6, <2>7 DEF AllCounted
<1>7. ASSUME NEW c \in Calls, PublishFails(c) \/ Publish(c)
      PROVE  AllCounted'
  BY <1>2, <1>6, <1>7 DEF HandleError, PublishFails, Publish, CallPC
<1>8. ASSUME UNCHANGED calls, Ids' = Ids, Kept,
             \A id \in Ids : messages'[id].state = "absent" <=> messages[id].state = "absent",
             \A id \in Ids : messages[id].state = "absent" => messages'[id] = messages[id]
      PROVE  AllCounted'
  <2>1. ASSUME NEW c \in Calls PROVE Counted(c)'
    <3>1. StoredBy(c)' = StoredBy(c)
      BY <1>8, SameRows
    <3>2. calls[c].pc = "prepared" => messages'[calls[c].id] = messages[calls[c].id]
      BY <1>0, <1>8 DEF AllCounted, Counted
    <3>3. QED
      BY <1>8, <3>1, <3>2, SameCount
  <2>2. QED
    BY <2>1 DEF AllCounted
<1>9. ASSUME NEW id \in Ids, Cancel(id)
      PROVE  AllCounted'
  <2>1. /\ Ids' = Ids /\ Kept /\ messages'[id].state = "canceled"
        /\ \A i \in Ids : i # id => messages'[i] = messages[i]
    BY <1>9, CancelType, RowChanged
  <2>2. QED
    BY <1>8, <1>9, <2>1 DEF Cancel
<1>10. CASE RunJob
  <2>1. Ids' = Ids /\ Kept /\ \A i \in Ids : messages'[i] = Take(messages[i])
    BY <1>10, RunType
  <2>2. \A i \in Ids : messages[i] \in Message
    BY DEF TypeOK, Ids
  <2>3. \A i \in Ids : /\ Take(messages[i]).state = "absent" <=> messages[i].state = "absent"
                       /\ messages[i].state = "absent" => Take(messages[i]) = messages[i]
    BY <2>2 DEF Take, Message
  <2>4. QED
    BY <1>8, <1>10, <2>1, <2>3 DEF RunJob
<1>11. CASE Tick \/ StartReading \/ ListStatusWithPaging \/ UNCHANGED vars
  <2>1. UNCHANGED <<messages, calls>>
    BY <1>11 DEF Tick, StartReading, ListStatusWithPaging, vars
  <2>2. QED
    BY <1>8, <2>1 DEF Ids, Kept
<1>12. QED
  BY <1>3, <1>4, <1>5, <1>7, <1>9, <1>10, <1>11, <1>13 DEF Next

(* However the server ends a call, a client that has its status knows of   *)
(* all the messages the call stored but one, and of that one too if all    *)
(* went well; nothing is claimed where the status does not arrive.         *)
THEOREM StreamsAreConfirmed == Spec => []UnconfirmedAtMostOne
<1>1. Init => AllCounted
  <2> SUFFICES ASSUME Init, NEW c \in Calls PROVE Counted(c)
    BY DEF AllCounted
  <2>1. StoredBy(c) = {}
    BY DEF Init, StoredBy, Ids
  <2>2. QED
    BY <2>1, FS_EmptySet DEF Init, NoCall, Counted
<1>2. TypeOK /\ AllCounted => UnconfirmedAtMostOne
  <2> SUFFICES ASSUME TypeOK, AllCounted, NEW c \in Calls, calls[c].ended
               PROVE  /\ Cardinality(StoredBy(c)) - calls[c].told \in {0, 1}
                      /\ calls[c].pc = "ok" => Cardinality(StoredBy(c)) = calls[c].told
    BY DEF UnconfirmedAtMostOne
  <2>1. calls[c].sent \in Nat /\ calls[c].pc \in CallPC
        /\ Cardinality(StoredBy(c)) \in Nat
    BY StoredFinite DEF TypeOK, Call
  <2>2. QED
    BY <2>1 DEF AllCounted, Counted, CallPC
<1>3. QED
  BY <1>1, <1>2, NextCounted, ServerTypeCorrect, PTL DEF Spec

-----------------------------------------------------------------------------
(* Chunks.                                                                 *)

\* What \div returns.
LEMMA DivBounds ==
    ASSUME NEW a \in Nat, NEW b \in Nat \ {0}
    PROVE  /\ a \div b \in Nat
           /\ b * (a \div b) <= a
           /\ a < b * (a \div b) + b
OBVIOUS

LEMMA ProductMonotonic ==
    ASSUME NEW a \in Nat, NEW b \in Nat, NEW k \in Nat, a <= b
    PROVE  a * k <= b * k
OBVIOUS

(* ChunkArray cuts any sequence at every limit.                            *)
LEMMA ChunkArrayCuts ==
    ASSUME NEW S, NEW data \in Seq(S), NEW size \in Nat \ {0}
    PROVE  Cuts(ChunkArray(data, size), data, size)
<1> DEFINE len == Len(data)
           count == ChunkCount(data, size)
           end(i) == IF i * size < len THEN i * size ELSE len
           chunks == ChunkArray(data, size)
<1>0. len \in Nat /\ DOMAIN data = 1 .. len
  OBVIOUS
<1>1. /\ count \in Nat
      /\ size * count <= len + size - 1
      /\ len <= size * count
  <2>1. len + size - 1 \in Nat /\ count = (len + size - 1) \div size
    BY <1>0 DEF ChunkCount
  <2> HIDE DEF len, count
  <2>2. count \in Nat /\ size * count <= len + size - 1 /\ len + size - 1 < size * count + size
    BY <2>1, DivBounds
  <2>3. size * count \in Nat
    BY <2>2
  <2>4. QED
    BY <1>0, <2>2, <2>3
<1>2. chunks = [i \in 1 .. count |-> SubSeq(data, (i - 1) * size + 1, end(i))]
  BY DEF ChunkArray
<1> HIDE DEF count, len
<1>3. ASSUME NEW i \in 1 .. count
      PROVE  /\ i * size \in Nat /\ (i - 1) * size = i * size - size
             /\ i * size - size \in Nat /\ i * size - size < len
             /\ i < count => i * size < len
  <2>1. /\ i * size \in Nat /\ count * size \in Nat /\ size * count = count * size
        /\ (i - 1) * size = i * size - size /\ (i - 1) * size \in Nat
    <3>1. i \in Nat /\ i - 1 \in Nat
      BY <1>1
    <3>2. (i - 1) * size \in Nat /\ i * size \in Nat /\ count * size \in Nat
      BY <1>1, <3>1
    <3>3. (i - 1) * size = i * size - size /\ size * count = count * size
      BY <1>1, <3>1
    <3>4. QED
      BY <3>2, <3>3
  <2>2. i * size <= count * size
    BY <1>1, ProductMonotonic
  <2>3. i < count => (i + 1) * size <= count * size
    <3>1. i \in Nat /\ i + 1 \in Nat /\ (i < count => i + 1 <= count)
      BY <1>1
    <3>2. QED
      BY <1>1, <3>1, ProductMonotonic
  <2>4. (i + 1) * size = i * size + size
    BY <1>1
  <2>5. QED
    BY <1>0, <1>1, <2>1, <2>2, <2>3, <2>4
<1>4. ASSUME NEW i \in 1 .. count
      PROVE  /\ chunks[i] \in Seq(S)
             /\ Len(chunks[i]) = end(i) - (i * size - size)
             /\ \A k \in 1 .. Len(chunks[i]) : chunks[i][k] = data[(i * size - size) + k]
             /\ (i * size - size) + Len(chunks[i]) = end(i)
             /\ end(i) \in Nat /\ end(i) <= len /\ end(i) > i * size - size
             /\ end(i) <= i * size
  <2> DEFINE from == i * size - size
  <2>1. from \in Nat /\ from < len
    BY <1>1, <1>3
  <2>2. end(i) \in Nat /\ end(i) <= len /\ end(i) > from /\ end(i) <= i * size
    BY <1>0, <1>3
  <2>3. chunks[i] = SubSeq(data, from + 1, end(i))
    BY <1>2, <1>3
  <2> HIDE DEF from, end, chunks
  <2>4. /\ SubSeq(data, from + 1, end(i)) \in Seq(S)
        /\ Len(SubSeq(data, from + 1, end(i))) = end(i) - (from + 1) + 1
        /\ \A k \in 1 .. end(i) - (from + 1) + 1 :
              SubSeq(data, from + 1, end(i))[k] = data[from + 1 + k - 1]
    <3>1. /\ from + 1 \in Int /\ end(i) \in Int /\ from + 1 <= end(i)
          /\ \A j \in from + 1 .. end(i) : data[j] \in S
      BY <1>0, <2>1, <2>2 DEF len
    <3>2. QED
      BY <3>1, SubSeqProperties
  <2>5. end(i) - (from + 1) + 1 = end(i) - from
    BY <2>1, <2>2
  <2>6. \A k \in 1 .. end(i) - from : from + 1 + k - 1 = from + k
    BY <2>1
  <2>7. /\ chunks[i] \in Seq(S)
        /\ Len(chunks[i]) = end(i) - from
        /\ \A k \in 1 .. Len(chunks[i]) : chunks[i][k] = data[from + k]
        /\ from + Len(chunks[i]) = end(i)
    <3>1. chunks[i] \in Seq(S) /\ Len(chunks[i]) = end(i) - from
      BY <2>3, <2>4, <2>5
    <3>2. \A k \in 1 .. end(i) - from : chunks[i][k] = data[from + k]
      BY <2>3, <2>4, <2>5, <2>6
    <3>3. from + (end(i) - from) = end(i)
      BY <2>1, <2>2
    <3>4. QED
      BY <3>1, <3>2, <3>3
  <2>8. QED
    BY <2>2, <2>7 DEF from
<1>5. chunks \in Seq(Seq(S)) /\ DOMAIN chunks = 1 .. count /\ Len(chunks) = count
  <2>1. chunks \in [1 .. count -> Seq(S)]
    <3>1. \A i \in 1 .. count : chunks[i] \in Seq(S)
      BY <1>4
    <3>2. \A i \in 1 .. count : SubSeq(data, (i - 1) * size + 1, end(i)) \in Seq(S)
      BY <1>2, <3>1
    <3> HIDE DEF end, chunks
    <3>3. QED
      BY <1>2, <3>2
  <2> HIDE DEF chunks
  <2>2. QED
    BY <1>1, <2>1
<1> HIDE DEF chunks
<1>6. ASSUME NEW i \in DOMAIN chunks
      PROVE  /\ Len(chunks[i]) \in 1 .. size
             /\ i < Len(chunks) => Len(chunks[i]) = size
             /\ \A k \in DOMAIN chunks[i] :
                   /\ (i - 1) * size + k \in DOMAIN data
                   /\ chunks[i][k] = data[(i - 1) * size + k]
  <2>1. i \in 1 .. count
    BY <1>5
  <2>2. i < count => end(i) = i * size
    BY <1>3, <2>1
  <2> HIDE DEF end
  <2> DEFINE from == i * size - size
  <2>3. /\ (i - 1) * size = from /\ from \in Nat /\ i * size \in Nat
    BY <1>3, <1>4, <2>1
  <2>4. /\ Len(chunks[i]) = end(i) - from /\ end(i) \in Nat /\ end(i) <= len /\ end(i) > from
        /\ end(i) <= i * size /\ chunks[i] \in Seq(S)
        /\ \A k \in 1 .. Len(chunks[i]) : chunks[i][k] = data[from + k]
    BY <1>4, <2>1
  <2>5. DOMAIN chunks[i] = 1 .. Len(chunks[i])
    BY <2>4
  <2>6. from = i * size - size
    OBVIOUS
  <2> HIDE DEF from
  <2>7. Len(chunks[i]) \in 1 .. size /\ (i < Len(chunks) => Len(chunks[i]) = size)
    <3> DEFINE top == i * size
               last == end(i)
    <3>1. /\ from \in Nat /\ top \in Nat /\ last \in Nat /\ from = top - size
          /\ last > from /\ last <= top /\ (i < Len(chunks) => last = top)
          /\ Len(chunks[i]) = last - from
      BY <1>5, <2>2, <2>3, <2>4, <2>6
    <3> HIDE DEF top, last
    <3>2. last - from \in 1 .. size /\ (last = top => last - from = size)
      BY <3>1
    <3>3. QED
      BY <3>1, <3>2
  <2>8. \A k \in 1 .. Len(chunks[i]) : from + k \in 1 .. len
    BY <1>0, <2>3, <2>4
  <2>9. QED
    BY <1>0, <2>3, <2>4, <2>5, <2>7, <2>8
<1>7. ASSUME NEW j \in DOMAIN data
      PROVE  \E i \in DOMAIN chunks : \E k \in DOMAIN chunks[i] : (i - 1) * size + k = j
  <2> DEFINE before == (j - 1) \div size
             i == before + 1
             k == j - before * size
  <2>1. j \in 1 .. len /\ j - 1 \in Nat
    BY <1>0, <1>7
  <2>2. before \in Nat /\ size * before <= j - 1 /\ j - 1 < size * before + size
    BY <2>1, DivBounds
  <2>3. size * before = before * size /\ before * size \in Nat
        /\ i * size = before * size + size /\ (i - 1) * size = before * size
    BY <2>2
  <2> HIDE DEF before
  <2>4. before < count
    <3>1. SUFFICES ASSUME count <= before PROVE FALSE
      BY <1>1, <2>2
    <3>2. count * size <= before * size /\ count * size = size * count /\ size * count \in Nat
      BY <1>1, <2>2, <3>1, ProductMonotonic
    <3>3. QED
      BY <1>0, <1>1, <2>1, <2>2, <2>3, <3>2
  <2>5. i \in 1 .. count
    BY <1>1, <2>2, <2>4
  <2>6. /\ Len(chunks[i]) = end(i) - before * size /\ chunks[i] \in Seq(S)
    <3>1. \A n \in 1 .. count :
             Len(chunks[n]) = end(n) - (n * size - size) /\ chunks[n] \in Seq(S)
      BY <1>4
    <3> HIDE DEF end
    <3>2. /\ Len(chunks[i]) = end(i) - (i * size - size)
          /\ chunks[i] \in Seq(S) /\ i * size - size = before * size
      BY <2>3, <2>5, <3>1
    <3>3. QED
      BY <3>2
  <2>7. j <= end(i)
    BY <1>0, <2>1, <2>2, <2>3
  <2>8. end(i) \in Nat
    BY <1>4, <2>5
  <2> HIDE DEF end, i
  <2>9. k \in 1 .. Len(chunks[i])
    BY <2>1, <2>2, <2>3, <2>6, <2>7, <2>8
  <2>10. (i - 1) * size + k = j
    BY <2>1, <2>3
  <2>11. DOMAIN chunks[i] = 1 .. Len(chunks[i])
    BY <2>6
  <2> HIDE DEF k
  <2>12. QED
    BY <1>5, <2>5, <2>9, <2>10, <2>11
<1>8. QED
  BY <1>6, <1>7 DEF chunks, Cuts

(* ChunksPartition: whatever the limit of a batch and however many         *)
(* receivers there are, the chunks lose, repeat and reorder none of them.  *)
THEOREM ChunksArePartitions == Spec => []ChunksPartition
<1>1. ChunksPartition
  <2> SUFFICES ASSUME NEW c \in Calls, NEW size \in 1 .. MaxLimit
               PROVE  LET data == [i \in 1 .. Receivers[c] |-> i]
                      IN  Cuts(ChunkArray(data, size), data, size)
    BY DEF ChunksPartition
  <2> DEFINE data == [i \in 1 .. Receivers[c] |-> i]
  <2>1. data \in Seq(Nat) /\ size \in Nat \ {0}
    BY ServerAssumption
  <2> HIDE DEF data
  <2>2. Cuts(ChunkArray(data, size), data, size)
    BY <2>1, ChunkArrayCuts
  <2>3. QED
    BY <2>2 DEF data
<1>2. QED
  BY <1>1, PTL

-----------------------------------------------------------------------------
(* Pages.  A row keeps its place or moves back, as rows are only added to  *)
(* a list; and a page that is not full has no row behind it, since the     *)
(* places of a list are taken without a gap.                               *)
LEMMA RankType ==
    ASSUME NEW rows \in SUBSET Nat, IsFiniteSet(rows), NEW order, NEW id \in rows
    PROVE  Rank(rows, order, id) \in 0 .. Cardinality(rows) - 1
<1> DEFINE front == {other \in rows : Before(order, other, id)}
<1>1. id \notin front
  BY DEF Before
<1>2. front \in SUBSET rows
  OBVIOUS
<1>3. IsFiniteSet(front) /\ Cardinality(front) <= Cardinality(rows)
      /\ (Cardinality(rows) = Cardinality(front) => rows = front)
  BY <1>2, FS_Subset
<1>4. Cardinality(front) \in Nat /\ Cardinality(rows) \in Nat
  BY <1>3, FS_CardinalityType
<1>5. Cardinality(front) # Cardinality(rows)
  BY <1>1, <1>3
<1>6. Rank(rows, order, id) = Cardinality(front)
  BY DEF Rank
<1> HIDE DEF front
<1>7. QED
  BY <1>3, <1>4, <1>5, <1>6

LEMMA RankGrows ==
    ASSUME NEW more, IsFiniteSet(more), NEW rows \in SUBSET more, NEW order, NEW id
    PROVE  /\ Rank(rows, order, id) \in Nat /\ Rank(more, order, id) \in Nat
           /\ Rank(rows, order, id) <= Rank(more, order, id)
<1> DEFINE front == {other \in rows : Before(order, other, id)}
           longer == {other \in more : Before(order, other, id)}
<1>1. longer \in SUBSET more /\ front \in SUBSET longer
  OBVIOUS
<1>2. IsFiniteSet(longer)
  BY <1>1, FS_Subset
<1>3. IsFiniteSet(front) /\ Cardinality(front) <= Cardinality(longer)
  BY <1>1, <1>2, FS_Subset
<1>4. QED
  BY <1>2, <1>3, FS_CardinalityType DEF Rank

LEMMA RankOrders ==
    ASSUME NEW rows \in SUBSET Nat, IsFiniteSet(rows), NEW order,
           NEW i \in rows, NEW j \in rows, Before(order, i, j)
    PROVE  Rank(rows, order, i) < Rank(rows, order, j)
<1> DEFINE front(n) == {other \in rows : Before(order, other, n)}
<1>1. front(i) \in SUBSET front(j) /\ i \in front(j) /\ i \notin front(i)
  <2>1. \A n \in rows : Before(order, n, i) => Before(order, n, j)
    <3> TAKE n \in rows
    <3>1. n \in Nat /\ i \in Nat /\ j \in Nat
      OBVIOUS
    <3>2. QED
      BY <3>1 DEF Before
  <2>2. ~Before(order, i, i)
    BY DEF Before
  <2>3. QED
    BY <2>1, <2>2
<1>2. front(j) \in SUBSET rows
  OBVIOUS
<1>3. IsFiniteSet(front(j))
  BY <1>2, FS_Subset
<1>4. /\ IsFiniteSet(front(i)) /\ Cardinality(front(i)) <= Cardinality(front(j))
      /\ (Cardinality(front(j)) = Cardinality(front(i)) => front(j) = front(i))
  BY <1>1, <1>3, FS_Subset
<1>5. Cardinality(front(i)) \in Nat /\ Cardinality(front(j)) \in Nat
  BY <1>3, <1>4, FS_CardinalityType
<1>6. /\ Rank(rows, order, i) = Cardinality(front(i))
      /\ Rank(rows, order, j) = Cardinality(front(j))
  BY DEF Rank
<1> HIDE DEF front
<1>7. QED
  BY <1>1, <1>4, <1>5, <1>6

\* Every place of a list is taken.
LEMMA RankOnto ==
    ASSUME NEW rows \in SUBSET Nat, IsFiniteSet(rows), NEW order,
           NEW place \in 0 .. Cardinality(rows) - 1
    PROVE  \E id \in rows : Rank(rows, order, id) = place
<1> DEFINE places == 0 .. Cardinality(rows) - 1
           rank == [id \in rows |-> Rank(rows, order, id)]
<1>1. Cardinality(rows) \in Nat
  BY FS_CardinalityType
<1>2. IsFiniteSet(places) /\ Cardinality(places) = Cardinality(rows)
  BY <1>1, FS_Interval
<1>3. rank \in [rows -> places]
  BY RankType
<1>4. \A i, j \in rows : i # j => rank[i] # rank[j]
  <2> SUFFICES ASSUME NEW i \in rows, NEW j \in rows, i # j
               PROVE  Rank(rows, order, i) # Rank(rows, order, j)
    OBVIOUS
  <2>1. Rank(rows, order, i) \in Nat /\ Rank(rows, order, j) \in Nat
    BY RankGrows
  <2>2. Before(order, i, j) \/ Before(order, j, i)
    BY DEF Before
  <2>3. QED
    BY <2>1, <2>2, RankOrders
<1>5. rank \in Injection(rows, places)
  BY <1>3, <1>4 DEF Injection, IsInjective
<1> HIDE DEF places, rank
<1>6. rank \in Surjection(rows, places)
  BY <1>2, <1>5, FS_Injection
<1>7. place \in places
  BY DEF places
<1>8. PICK id \in rows : rank[id] = place
  BY <1>6, <1>7 DEF Surjection
<1>9. QED
  BY <1>8 DEF rank

\* A page with a row behind it is full.
LEMMA PageIsFull ==
    ASSUME NEW rows \in SUBSET Nat, IsFiniteSet(rows), NEW order, NEW from \in Nat,
           NEW id \in rows, Rank(rows, order, id) >= from + PageSize
    PROVE  Cardinality({i \in rows : Rank(rows, order, i) \in from .. from + PageSize - 1})
              >= PageSize
<1> DEFINE page == {i \in rows : Rank(rows, order, i) \in from .. from + PageSize - 1}
           places == from .. from + PageSize - 1
           rank == [i \in page |-> Rank(rows, order, i)]
<1>0. PageSize \in Nat \ {0} /\ Cardinality(rows) \in Nat
  BY ServerAssumption, FS_CardinalityType
<1>1. rank \in [page -> places]
  OBVIOUS
<1>2. ASSUME NEW place \in places
      PROVE  \E i \in page : rank[i] = place
  <2>1. Rank(rows, order, id) \in 0 .. Cardinality(rows) - 1
    BY RankType
  <2>2. place \in 0 .. Cardinality(rows) - 1
    BY <1>0, <1>2, <2>1
  <2>3. PICK i \in rows : Rank(rows, order, i) = place
    BY <2>2, RankOnto
  <2>4. i \in page
    BY <1>2, <2>3
  <2>5. QED
    BY <2>3, <2>4
<1>3. rank \in Surjection(page, places)
  BY <1>1, <1>2 DEF Surjection
<1>4. page \in SUBSET rows
  OBVIOUS
<1>5. IsFiniteSet(page)
  BY <1>4, FS_Subset
<1>6. Cardinality(places) = PageSize
  BY <1>0, FS_Interval
<1> HIDE DEF page, places, rank
<1>7. Cardinality(places) <= Cardinality(page)
  BY <1>3, <1>5, FS_Surjection
<1>8. Cardinality(page) \in Nat
  BY <1>5, FS_CardinalityType
<1>9. Cardinality(page) >= PageSize
  BY <1>0, <1>6, <1>7, <1>8
<1>10. QED
  BY <1>9 DEF page

LEMMA NextOffset ==
    ASSUME NEW page \in Nat \ {0}
    PROVE  Offset(page) \in Nat /\ Offset(page + 1) = Offset(page) + PageSize
<1>1. PageSize \in Nat /\ page - 1 \in Nat
  BY ServerAssumption
<1>2. (page - 1) * PageSize \in Nat
  BY <1>1
<1>3. (page + 1 - 1) * PageSize = (page - 1) * PageSize + PageSize
  BY <1>1
<1>4. QED
  BY <1>2, <1>3 DEF Offset

(* Every row that is still unseen lies on the page that is read next or    *)
(* behind it.                                                              *)
PagesInv ==
    /\ PagesMissNothing
    /\ reader.pc = "idle" => reader.page = 1
    /\ \A id \in reader.unseen :
          id \in Listed /\ Rank(Listed, reader.order, id) >= Offset(reader.page)

LEMMA ListedFinite ==
    ASSUME TypeOK
    PROVE  Listed \in SUBSET Nat /\ IsFiniteSet(Listed)
<1>1. IsFiniteSet(Ids) /\ Ids \subseteq Nat
  BY FS_Interval DEF TypeOK, Ids
<1>2. Listed \in SUBSET Ids
  BY DEF Listed
<1>3. QED
  BY <1>1, <1>2, FS_Subset

\* A row that is in the list stays there.
LEMMA ListedStays ==
    ASSUME TypeOK, [Next]_vars
    PROVE  Listed \subseteq Listed'
<1> SUFFICES ASSUME NEW id \in Ids, messages[id].state # "absent"
             PROVE  id \in Ids' /\ messages'[id].state # "absent"
  BY DEF Listed
<1>1. CASE UNCHANGED messages
  BY <1>1 DEF Ids
<1>2. ASSUME NEW c \in Calls, NEW at \in Times, Accept(c, at)
      PROVE  id \in Ids' /\ messages'[id].state # "absent"
  <2>1. Len(messages) \in Nat
    BY DEF TypeOK
  <2>2. QED
    BY <1>2, <2>1, AcceptType DEF Ids
<1>3. ASSUME NEW c \in Calls, PublishFails(c) \/ Publish(c)
      PROVE  id \in Ids' /\ messages'[id].state # "absent"
  <2>1. calls[c].id \in Ids
    BY <1>3 DEF PublishFails, Publish, TypeOK
  <2>2. CASE Store(c)
    <3>1. PICK row \in Message :
             /\ messages' = [messages EXCEPT ![calls[c].id] = row]
             /\ row.at = messages[calls[c].id].at
             /\ row.call = messages[calls[c].id].call
             /\ row.created = messages[calls[c].id].created
             /\ row.state \in {"taken", "scheduled"}
      BY <2>1, <2>2, StoreType
    <3>2. Ids' = Ids /\ \A i \in Ids : messages'[i] = IF i = calls[c].id THEN row ELSE messages[i]
      BY <2>1, <3>1, RowChanged
    <3>3. QED
      BY <3>1, <3>2
  <2>3. QED
    BY <1>1, <1>3, <2>2 DEF PublishFails, Publish
<1>4. ASSUME NEW i \in Ids, Cancel(i)
      PROVE  id \in Ids' /\ messages'[id].state # "absent"
  <2>1. PICK row \in Message :
           /\ messages' = [messages EXCEPT ![i] = row]
           /\ row.at = messages[i].at
           /\ row.call = messages[i].call
           /\ row.created = messages[i].created
           /\ row.state = "canceled"
    BY <1>4, CancelType
  <2>2. Ids' = Ids /\ \A j \in Ids : messages'[j] = IF j = i THEN row ELSE messages[j]
    BY <2>1, RowChanged
  <2>3. QED
    BY <2>1, <2>2
<1>5. CASE RunJob
  <2>1. Ids' = Ids /\ messages'[id] = Take(messages[id]) /\ messages[id] \in Message
    BY <1>5, RunType DEF TypeOK, Ids
  <2>2. QED
    BY <2>1 DEF Take, Message
<1>6. CASE \E c \in Calls : Reject(c) \/ CloseStream(c) \/ Reply(c) \/ ReplyLost(c) \/ ReceiveStatus(c)
  BY <1>1, <1>6 DEF Reject, CloseStream, Reply, ReplyLost, ReceiveStatus
<1>7. CASE Tick \/ StartReading \/ ListStatusWithPaging \/ UNCHANGED vars
  BY <1>1, <1>7 DEF Tick, StartReading, ListStatusWithPaging, vars
<1>8. QED
  BY <1>2, <1>3, <1>4, <1>5, <1>6, <1>7 DEF Next

LEMMA NextPaged ==
    ASSUME TypeOK, TypeOK', PagesInv, [Next]_vars
    PROVE  PagesInv'
<1>0. /\ reader \in Reader /\ reader.page \in Nat \ {0} /\ PageSize \in Nat \ {0}
      /\ Listed \in SUBSET Nat /\ IsFiniteSet(Listed)
  BY ListedFinite, ServerAssumption DEF TypeOK, Reader
<1>1. CASE UNCHANGED reader
  <2> SUFFICES ASSUME NEW id \in reader.unseen
               PROVE  id \in Listed' /\ Rank(Listed', reader.order, id) >= Offset(reader.page)
    BY <1>1 DEF PagesInv, PagesMissNothing, Offset
  <2>1. id \in Listed /\ Rank(Listed, reader.order, id) >= Offset(reader.page)
    BY DEF PagesInv
  <2>2. Listed \in SUBSET Listed'
    BY ListedStays
  <2>3. IsFiniteSet(Listed')
    <3>1. Ids' = 1 .. Len(messages') /\ Len(messages') \in Nat
      BY DEF TypeOK, Ids
    <3>2. IsFiniteSet(Ids') /\ Listed' \in SUBSET Ids'
      BY <3>1, FS_Interval DEF Listed
    <3>3. QED
      BY <3>2, FS_Subset
  <2>4. /\ Rank(Listed, reader.order, id) \in Nat /\ Rank(Listed', reader.order, id) \in Nat
        /\ Rank(Listed, reader.order, id) <= Rank(Listed', reader.order, id)
    BY <2>2, <2>3, RankGrows
  <2>5. Offset(reader.page) \in Nat
    BY <1>0 DEF Offset
  <2>6. QED
    BY <2>1, <2>2, <2>4, <2>5
<1>2. CASE StartReading
  <2>1. PICK order \in {"asc", "desc"} :
           reader' = [reader EXCEPT !.pc = "reading", !.order = order, !.unseen = Listed]
    BY <1>2 DEF StartReading
  <2>2. /\ reader'.pc = "reading" /\ reader'.order = order /\ reader'.unseen = Listed
        /\ reader'.page = reader.page /\ reader.page = 1
    BY <1>0, <1>2, <2>1 DEF Reader, StartReading, PagesInv
  <2>3. Listed' = Listed
    BY <1>2 DEF StartReading, Listed, Ids
  <2>4. Offset(1) = 0
    BY <1>0 DEF Offset
  <2>5. \A id \in Listed : Rank(Listed, order, id) >= 0
    BY <1>0, RankGrows
  <2>6. QED
    BY <2>2, <2>3, <2>4, <2>5 DEF PagesInv, PagesMissNothing, Offset
<1>3. CASE ListStatusWithPaging
  <2> DEFINE order == reader.order
             from == Offset(reader.page)
             rows == {id \in Listed : Rank(Listed, order, id) \in from .. from + PageSize - 1}
             last == Cardinality(rows) < PageSize
  <2>1. /\ reader' = [pc |-> IF last THEN "idle" ELSE "reading",
                      page |-> IF last THEN 1 ELSE reader.page + 1,
                      order |-> order,
                      unseen |-> reader.unseen \ rows]
        /\ Listed' = Listed
    BY <1>3 DEF ListStatusWithPaging, Page, Listed, Ids
  <2>2. from \in Nat /\ Offset(reader.page + 1) = from + PageSize
    BY <1>0, NextOffset
  <2>3. ASSUME NEW id \in reader.unseen, id \notin rows
        PROVE  id \in Listed /\ Rank(Listed, order, id) >= from + PageSize
    <3>1. id \in Listed /\ Rank(Listed, order, id) >= from
      BY <2>3 DEF PagesInv
    <3>2. Rank(Listed, order, id) \in Nat
      BY <1>0, RankGrows
    <3>3. Rank(Listed, order, id) \notin from .. from + PageSize - 1
      BY <2>3, <3>1
    <3> HIDE DEF from, order
    <3>4. QED
      BY <1>0, <2>2, <3>1, <3>2, <3>3
  <2>4. last => reader.unseen \subseteq rows
    <3> SUFFICES ASSUME NEW id \in reader.unseen, id \notin rows PROVE Cardinality(rows) >= PageSize
      <4>1. rows \in SUBSET Listed
        OBVIOUS
      <4>2. Cardinality(rows) \in Nat
        BY <1>0, <4>1, FS_Subset, FS_CardinalityType
      <4> HIDE DEF rows
      <4>3. QED
        BY <1>0, <4>2
    <3>1. id \in Listed /\ Rank(Listed, order, id) >= from + PageSize
      BY <2>3
    <3> HIDE DEF order, from
    <3>2. QED
      BY <1>0, <2>2, <3>1, PageIsFull
  <2> HIDE DEF rows, from, last, order
  <2>5. /\ reader'.pc = (IF last THEN "idle" ELSE "reading")
        /\ reader'.page = (IF last THEN 1 ELSE reader.page + 1)
        /\ reader'.order = order
        /\ reader'.unseen = reader.unseen \ rows
    BY <2>1
  <2>6. CASE last
    <3>1. reader'.unseen = {}
      BY <2>4, <2>5, <2>6
    <3>2. QED
      BY <2>5, <2>6, <3>1 DEF PagesInv, PagesMissNothing
  <2>7. CASE ~last
    <3>1. \A id \in reader'.unseen :
             id \in Listed' /\ Rank(Listed', reader'.order, id) >= Offset(reader'.page)
      BY <2>1, <2>2, <2>3, <2>5, <2>7
    <3>2. reader'.pc = "reading"
      BY <2>5, <2>7
    <3>3. QED
      BY <3>1, <3>2 DEF PagesInv, PagesMissNothing, Offset
  <2>8. QED
    BY <2>6, <2>7
<1>4. QED
  BY <1>1, <1>2, <1>3 DEF Next, Reject, CloseStream, Accept, PublishFails, Publish, Reply, ReplyLost,
     ReceiveStatus, Cancel, RunJob, Tick, vars

(* PagesMissNothing: whoever reads all pages has seen every row that was   *)
(* there when the first one was read, for every size of a page.            *)
THEOREM PagesAreComplete == Spec => []PagesMissNothing
<1>1. Init => PagesInv
  BY DEF Init, PagesInv, PagesMissNothing
<1>2. PagesInv => PagesMissNothing
  BY DEF PagesInv
<1>3. TypeOK /\ TypeOK' /\ PagesInv /\ [Next]_vars => PagesInv'
  BY NextPaged
<1>4. QED
  BY <1>1, <1>2, <1>3, ServerTypeCorrect, PTL DEF Spec
=============================================================================
