------------------------------ MODULE Lifecycle ------------------------------
(***************************************************************************)
(* What the tables promise to those who read them (the status calls of the *)
(* server, an operator's query): the statuses of a message, of its queues  *)
(* and of its targets change together, one queue's outcome at a time, each *)
(* for a reason that lies outside the database (a record in a topic, a     *)
(* call of a provider), and never again once the message is canceled.      *)
(*                                                                         *)
(* It has no processes, retries, sessions, errors or crashes: those are in *)
(* Notify, which implements it.                                            *)
(***************************************************************************)
CONSTANTS Messages, Queues, Targets, MessageId, QueueId

VARIABLES
    head,      \* the status of a message
    shown,     \* the status of a queue
    receiver,  \* the status of a target
    topic,     \* the queues a topic has a record of
    called     \* the queues a provider was called with

tables == <<head, shown, receiver>>
vars == <<tables, topic, called>>

QueuesIn(m) == {q \in Queues : MessageId[q] = m}
TargetsIn(Q) == {t \in Targets : QueueId[t] \in Q}

Init ==
    /\ head = [m \in Messages |-> "absent"]
    /\ shown = [q \in Queues |-> "absent"]
    /\ receiver = [t \in Targets |-> "absent"]
    /\ topic = {}
    /\ called = {}

\* What is canceled keeps its status.
Relabel(f, K, status) ==
    [k \in DOMAIN f |-> IF k \in K /\ f[k] # "canceled" THEN status ELSE f[k]]

RelabelAll(Q, status) ==
    /\ head' = Relabel(head, {MessageId[q] : q \in Q}, status)
    /\ shown' = Relabel(shown, Q, status)
    /\ receiver' = Relabel(receiver, TargetsIn(Q), status)

Accept(m) ==
    /\ head[m] = "absent"
    /\ \E status \in {"pending", "scheduled"} : head' = [head EXCEPT ![m] = status]
    /\ shown' = Relabel(shown, QueuesIn(m), "pending")
    /\ receiver' = Relabel(receiver, TargetsIn(QueuesIn(m)), "pending")
    /\ UNCHANGED <<topic, called>>

\* Several dispatchers may each begin with the same message.
Dispatch(m) ==
    /\ head[m] # "absent"
    /\ RelabelAll(QueuesIn(m), "process")
    /\ UNCHANGED <<topic, called>>

Append(q) ==
    /\ head[MessageId[q]] \notin {"absent", "pending", "scheduled"}
    /\ topic' = topic \cup {q}
    /\ UNCHANGED <<tables, called>>

\* Some of a message's queues may be shown so, and others not.
Acknowledge(Q) ==
    /\ Q \subseteq topic
    /\ RelabelAll(Q, "enqueued")
    /\ UNCHANGED <<topic, called>>

Take(q) ==
    /\ q \in topic
    /\ shown' = Relabel(shown, {q}, "sending")
    /\ receiver' = Relabel(receiver, TargetsIn({q}), "sending")
    /\ UNCHANGED <<head, topic, called>>

Call(q) ==
    /\ q \in topic
    /\ called' = called \cup {q}
    /\ UNCHANGED <<tables, topic>>

\* The message shows the outcome of the queue that finished last.
Outcome(q, queueStatus, messageStatus) ==
    /\ q \in called
    /\ shown' = Relabel(shown, {q}, queueStatus)
    /\ head' = Relabel(head, {MessageId[q]}, messageStatus)
    /\ UNCHANGED <<topic, called>>

\* A successful call may say nothing of a receiver, or something else.
Succeed(q) ==
    /\ Outcome(q, "success", "sent")
    /\ DOMAIN receiver' = DOMAIN receiver
    /\ \A t \in Targets :
          \/ receiver'[t] = receiver[t]
          \/ /\ t \in TargetsIn({q})
             /\ receiver[t] # "canceled"
             /\ receiver'[t] \in {"sent", "failed", ""}

Fail(q) ==
    /\ Outcome(q, "failed", "failed")
    /\ receiver' = Relabel(receiver, TargetsIn({q}), "failed")

Cancel(m) ==
    /\ head[m] \notin {"absent", "canceled"}
    /\ head' = [head EXCEPT ![m] = "canceled"]
    /\ shown' = Relabel(shown, QueuesIn(m), "canceled")
    /\ receiver' = Relabel(receiver, TargetsIn(QueuesIn(m)), "canceled")
    /\ UNCHANGED <<topic, called>>

Next ==
    \/ \E m \in Messages : Accept(m) \/ Dispatch(m) \/ Cancel(m)
    \/ \E q \in Queues : Append(q) \/ Take(q) \/ Call(q) \/ Succeed(q) \/ Fail(q)
    \/ \E Q \in SUBSET Queues : Acknowledge(Q)

Spec == Init /\ [][Next]_vars
=============================================================================
