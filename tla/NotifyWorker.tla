---------------------------- MODULE NotifyWorker ----------------------------
(***************************************************************************)
(* The consuming half: the worker processes of the consumer group "notify" *)
(* (internal/components/consumer_group.go, internal/consumer), their SMS   *)
(* and mail handlers (internal/handlers), and, as far as the handlers see  *)
(* them, the providers.                                                    *)
(*                                                                         *)
(* ConsumeClaim runs in a goroutine per partition, so the handler of a     *)
(* record is claim[w][p].  A handler may outlive its session: the group    *)
(* gives up on it after the rebalance timeout and hands the partition to   *)
(* another worker, while it goes on writing to the database.               *)
(*                                                                         *)
(* As in NotifyService, a transaction that returns an error may have been  *)
(* committed.  Records that a session read ahead and its goroutine takes   *)
(* up after the session ended are left out: Fetch needs the partition.     *)
(***************************************************************************)
EXTENDS NotifyDb

CONSTANTS
    Workers,      \* worker processes, each a member of the group
    RowStatuses   \* bound: per-receiver statuses an SMS answer may carry

ASSUME WorkerAssumption ==
    /\ Nil \notin Workers
    /\ RowStatuses \subseteq {"sent", "failed", ""}

VARIABLES
    owner,      \* the worker whose session a partition belongs to
    next,       \* the offset that session reads next
    marked,     \* the offset it marked last
    committed,  \* the last offset committed for the group
    claim,      \* the handler at work on a partition, at each worker
    handed,     \* queues some provider was called with
    events,     \* the statuses a queue's rows of notify.events carry
    handled,    \* offsets whose handler returned without an error
    errored     \* offsets whose handler returned an error

sessionVars == <<owner, next, marked>>
workerVars == <<sessionVars, committed, claim, handed, events, handled, errored>>

\* rows[t] = "none": the answer has no row for target t.
Answer == [status : {"sent", "failed"},
           parsed : BOOLEAN,
           rows : [Targets -> {"none"} \cup RowStatuses \cup {"sent"}]]
NoRows == [t \in Targets |-> "none"]
NoAnswer == [status |-> "failed", parsed |-> FALSE, rows |-> NoRows]

ClaimPC == {"idle", "found", "loaded", "sending", "answered", "handled"}
Claim == [pc : ClaimPC, offset : Nat, loaded : SUBSET Targets, answer : Answer]
NoClaim == [pc |-> "idle", offset |-> 0, loaded |-> {}, answer |-> NoAnswer]

Busy(w, p) == claim[w][p].pc # "idle"
Claimed(w, p) == log[p][claim[w][p].offset]

SessionTypeOK ==
    /\ owner \in [Partitions -> Workers \cup {Nil}]
    /\ next \in [Partitions -> Nat]
    /\ marked \in [Partitions -> Nat]

\* A handler holds a record of its partition.
ClaimTypeOK ==
    /\ claim \in [Workers -> [Partitions -> Claim]]
    /\ \A w \in Workers, p \in Partitions :
          Busy(w, p) => claim[w][p].offset \in Offsets(p)

ProgressTypeOK ==
    /\ committed \in [Partitions -> Nat]
    /\ handled \in [Partitions -> SUBSET Nat]
    /\ errored \in [Partitions -> SUBSET Nat]

CallTypeOK ==
    /\ handed \subseteq Queues
    /\ events \in [Queues -> SUBSET {"sent", "failed"}]

WorkerTypeOK == SessionTypeOK /\ ClaimTypeOK /\ ProgressTypeOK /\ CallTypeOK

WorkerInit ==
    /\ owner = [p \in Partitions |-> Nil]
    /\ next = [p \in Partitions |-> 0]
    /\ marked = [p \in Partitions |-> 0]
    /\ committed = [p \in Partitions |-> 0]
    /\ claim = [w \in Workers |-> [p \in Partitions |-> NoClaim]]
    /\ handed = {}
    /\ events = [q \in Queues |-> {}]
    /\ handled = [p \in Partitions |-> {}]
    /\ errored = [p \in Partitions |-> {}]

-----------------------------------------------------------------------------
(* The consumer group.  A session starts behind the committed offset       *)
(* (OffsetOldest when there is none); a worker with a handler left over    *)
(* from an earlier session has not rejoined yet.                           *)

Rejoined(w) ==
    \A p \in Partitions : Busy(w, p) => owner[p] = w

\* Mutation: Offsets.Initial is OffsetNewest and a session always starts there.
StartAtNewest(p) == Len(log[p]) + 1

\* Mutation: every session starts at OffsetOldest.
StartAtOldest(p) == 1

StartOffset(p) == committed[p] + 1

Assign(w, p) ==
    /\ owner[p] = Nil
    /\ Rejoined(w)
    /\ owner' = [owner EXCEPT ![p] = w]
    /\ next' = [next EXCEPT ![p] = StartOffset(p)]
    /\ marked' = [marked EXCEPT ![p] = committed[p]]
    /\ NoFault
    /\ UNCHANGED <<dbVars, log, committed, claim, handed, events, handled, errored>>

\* A rebalance ends every session; a handler at work goes on.
EndSessions ==
    /\ owner' = [p \in Partitions |-> Nil]
    /\ next' = [p \in Partitions |-> 0]
    /\ marked' = [p \in Partitions |-> 0]

Rebalance ==
    /\ \E p \in Partitions : owner[p] # Nil
    /\ Fault
    /\ EndSessions
    /\ UNCHANGED <<dbVars, log, committed, claim, handed, events, handled, errored>>

\* The process dies with its handlers; the group rebalances.
Die(w) ==
    /\ claim' = [claim EXCEPT ![w] = [p \in Partitions |-> NoClaim]]
    /\ EndSessions

CrashWorker(w) ==
    /\ \E p \in Partitions : owner[p] = w \/ Busy(w, p)
    /\ Fault
    /\ Die(w)
    /\ UNCHANGED <<dbVars, log, committed, handed, events, handled, errored>>

-----------------------------------------------------------------------------
(* ConsumeClaim.                                                           *)

Advance(p) ==
    /\ next' = [next EXCEPT ![p] = @ + 1]
    /\ UNCHANGED <<owner, marked>>
Leave(w, p) == claim' = [claim EXCEPT ![w][p] = NoClaim]
Goto(w, p, label) == claim' = [claim EXCEPT ![w][p].pc = label]

\* The handler returned an error: logged, not marked, on to the next record.
HandlerError(w, p) ==
    /\ errored' = [errored EXCEPT ![p] = @ \cup {claim[w][p].offset}]
    /\ Leave(w, p)
    /\ UNCHANGED sessionVars

\* After a database error the handler calls createFailureEventAndUpdateStatus
\* with a nil queue or a nil response: that call returns the error of its own
\* transaction, or dereferences nil, and nothing recovers the panic.
DbError(w, p) ==
    /\ Fault
    /\ \/ HandlerError(w, p)
       \/ Die(w) /\ UNCHANGED errored

\* Mutation: the query sees soft-deleted queues.
FoundUnscoped(q) == Exists(queues[q]) /\ q \notin lateIds

\* Handle's first step and fetchQueueData's query, which does not see a
\* soft-deleted queue, nor one created before the millisecond in its id.
Found(q) == Visible(queues[q]) /\ q \notin lateIds

Fetch(w, p) ==
    /\ owner[p] = w
    /\ ~Busy(w, p)
    /\ next[p] \in Offsets(p)
    /\ Found(log[p][next[p]])
    /\ claim' = [claim EXCEPT ![w][p] =
          [NoClaim EXCEPT !.pc = "found", !.offset = next[p]]]
    /\ Advance(p)
    /\ NoFault
    /\ UNCHANGED <<dbVars, log, committed, handed, events, handled, errored>>

\* Find without a row is no error: the handler goes on with a zero queue,
\* whose empty id ConvertSnowflakeToTime answers with log.Fatalf.
FetchNothing(w, p) ==
    /\ owner[p] = w
    /\ ~Busy(w, p)
    /\ next[p] \in Offsets(p)
    /\ ~Found(log[p][next[p]])
    /\ Die(w)
    /\ NoFault
    /\ UNCHANGED <<dbVars, log, committed, handed, events, handled, errored>>

FetchError(w, p) ==
    /\ owner[p] = w
    /\ ~Busy(w, p)
    /\ next[p] \in Offsets(p)
    /\ Fault
    /\ \/ /\ errored' = [errored EXCEPT ![p] = @ \cup {next[p]}]
          /\ Advance(p)
          /\ UNCHANGED claim
       \/ Die(w) /\ UNCHANGED errored
    /\ UNCHANGED <<dbVars, log, committed, handed, events, handled>>

-----------------------------------------------------------------------------
(* SmsHandler and MailHandler.                                             *)

\* fetchQueueData's preloads are statements of their own.
Preload(w, p) ==
    /\ claim[w][p].pc = "found"
    /\ claim' = [claim EXCEPT ![w][p] =
          [@ EXCEPT !.pc = "loaded",
                    !.loaded = {t \in TargetsOf({Claimed(w, p)}) : Visible(targets[t])}]]
    /\ NoFault
    /\ UNCHANGED <<dbVars, log, sessionVars, committed, handed, events, handled, errored>>

ShowSending(q) ==
    /\ targets' = SetStatus(targets, TargetsOf({q}), "sending")
    /\ queues' = SetStatus(queues, {q}, "sending")
    /\ UNCHANGED <<messages, lateIds>>

UpdateProcessingStatus(w, p) ==
    /\ claim[w][p].pc = "loaded"
    /\ \/ /\ ShowSending(Claimed(w, p))
          /\ Goto(w, p, "sending")
          /\ NoFault
          /\ UNCHANGED <<sessionVars, errored>>
       \/ /\ ShowSending(Claimed(w, p)) \/ UNCHANGED dbVars
          /\ DbError(w, p)
    /\ UNCHANGED <<log, committed, handed, events, handled>>

\* What a provider may answer.  Mitake: no answer to parse, or a status of
\* the batch and a status for some of the receivers.  SendGrid: one status.
SmsAnswers(loaded) ==
    {NoAnswer, [NoAnswer EXCEPT !.parsed = TRUE]} \cup
    {[status |-> "sent", parsed |-> TRUE,
      rows |-> [t \in Targets |-> IF t \in loaded THEN f[t] ELSE "none"]] :
        f \in [loaded -> {"none"} \cup RowStatuses]}

MailAnswers(loaded) ==
    {[NoAnswer EXCEPT !.parsed = TRUE],
     [status |-> "sent", parsed |-> TRUE,
      rows |-> [t \in Targets |-> IF t \in loaded THEN "sent" ELSE "none"]]}

CallProvider(w, p, answers) ==
    /\ claim[w][p].pc = "sending"
    /\ handed' = handed \cup {Claimed(w, p)}
    /\ \E a \in answers :
          claim' = [claim EXCEPT ![w][p] = [@ EXCEPT !.pc = "answered", !.answer = a]]
    /\ NoFault
    /\ UNCHANGED <<dbVars, log, sessionVars, committed, events, handled, errored>>

SendSms(w, p) ==
    Topic[p] = "sms" /\ CallProvider(w, p, SmsAnswers(claim[w][p].loaded))

SendEmail(w, p) ==
    Topic[p] = "mail" /\ CallProvider(w, p, MailAnswers(claim[w][p].loaded))

\* Mutation: the queues are selected by message_id.
WriteResultOfMessage(q, queueStatus, messageStatus, targetTable) ==
    /\ queues' = SetStatus(queues, QueuesOf(MessageId[q]), queueStatus)
    /\ messages' = SetStatus(messages, {MessageId[q]}, messageStatus)
    /\ targets' = targetTable
    /\ UNCHANGED lateIds

\* The rows a result transaction leaves behind: it is all or nothing, because
\* PostgreSQL refuses to commit a transaction one of whose statements failed.
WriteResult(q, queueStatus, messageStatus, targetTable) ==
    /\ queues' = SetStatus(queues, {q}, queueStatus)
    /\ messages' = SetStatus(messages, {MessageId[q]}, messageStatus)
    /\ targets' = targetTable
    /\ UNCHANGED lateIds

\* Each target takes the status its row carries.
RowUpdates(rows) ==
    [t \in DOMAIN targets |->
        IF rows[t] # "none" /\ Visible(targets[t])
        THEN [targets[t] EXCEPT !.status = rows[t]]
        ELSE targets[t]]

\* Mutation: the event is left to a later step.
SuccessWithoutEvent(q, answer) ==
    /\ WriteResult(q, "success", "sent", RowUpdates(answer.rows))
    /\ UNCHANGED events

SuccessResult(q, answer) ==
    /\ WriteResult(q, "success", "sent", RowUpdates(answer.rows))
    /\ events' = [events EXCEPT ![q] = @ \cup {"sent"}]

FailureResult(q, answer) ==
    /\ WriteResult(q, "failed", "failed", SetStatus(targets, TargetsOf({q}), "failed"))
    /\ events' = IF answer.parsed
                 THEN [events EXCEPT ![q] = @ \cup {"failed"}]
                 ELSE events

\* handleSendResult
Result(q, answer) ==
    IF answer.status = "sent" THEN SuccessResult(q, answer) ELSE FailureResult(q, answer)

\* The mail handler writes the failure event with h.db, outside the
\* transaction it is in, so the event stays when the transaction fails.
EscapedEvents(p, answer) ==
    IF Topic[p] = "mail" /\ answer.status = "failed" THEN {{}, {"failed"}} ELSE {{}}

RolledBack(q, escaped) ==
    /\ \E E \in escaped : events' = [events EXCEPT ![q] = @ \cup E]
    /\ UNCHANGED dbVars

HandleSendResult(w, p) ==
    /\ claim[w][p].pc = "answered"
    /\ LET q == Claimed(w, p)
           answer == claim[w][p].answer
       IN  \/ /\ Result(q, answer)
              /\ Goto(w, p, "handled")
              /\ NoFault
              /\ UNCHANGED <<sessionVars, errored>>
           \/ /\ Fault
              /\ HandlerError(w, p)
              /\ Result(q, answer) \/ RolledBack(q, EscapedEvents(p, answer))
    /\ UNCHANGED <<log, committed, handed, handled>>

-----------------------------------------------------------------------------
(* MarkMessage and Commit.  Commit sends every mark of the session; the    *)
(* request may be lost, and one of an ended session is refused.            *)

InSession(w, p) == owner[p] = w

\* Mutation: the claim's position is committed, one past the record.
MarksPosition(w, p) ==
    [r \in Partitions |->
        IF ~InSession(w, r) THEN committed[r]
        ELSE IF r = p THEN next[p] ELSE marked[r]]

Marks(w, p) ==
    [r \in Partitions |->
        IF ~InSession(w, r) THEN committed[r]
        ELSE IF r = p THEN claim[w][p].offset ELSE marked[r]]

MarkAndCommit(w, p) ==
    /\ claim[w][p].pc = "handled"
    /\ handled' = [handled EXCEPT ![p] = @ \cup {claim[w][p].offset}]
    /\ Leave(w, p)
    /\ \/ /\ InSession(w, p)
          /\ marked' = [marked EXCEPT ![p] = claim[w][p].offset]
          /\ UNCHANGED <<owner, next>>
          /\ \/ committed' = Marks(w, p) /\ NoFault
             \/ UNCHANGED committed /\ Fault
       \/ /\ ~InSession(w, p)
          /\ NoFault
          /\ UNCHANGED <<sessionVars, committed>>
    /\ UNCHANGED <<dbVars, log, handed, events, errored>>

-----------------------------------------------------------------------------
Handle(w, p) ==
    \/ Fetch(w, p)
    \/ FetchNothing(w, p)
    \/ FetchError(w, p)
    \/ Preload(w, p)
    \/ UpdateProcessingStatus(w, p)
    \/ SendSms(w, p)
    \/ SendEmail(w, p)
    \/ HandleSendResult(w, p)
    \/ MarkAndCommit(w, p)

WorkerNext ==
    \/ Rebalance
    \/ \E w \in Workers :
          \/ CrashWorker(w)
          \/ \E p \in Partitions : Assign(w, p) \/ Handle(w, p)

\* Handlers run, and the group hands out the partitions nobody owns.
WorkerFairness ==
    /\ \A w \in Workers, p \in Partitions : WF_workerVars(Handle(w, p))
    /\ \A p \in Partitions : WF_workerVars(\E w \in Workers : Assign(w, p))
=============================================================================
