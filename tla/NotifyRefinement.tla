-------------------------- MODULE NotifyRefinement --------------------------
(***************************************************************************)
(* Notify implements Lifecycle: the statuses are those of the tables, the  *)
(* topics are the records in the log and the calls those the handlers      *)
(* made.                                                                   *)
(***************************************************************************)
EXTENDS Notify

Status(table) == [k \in DOMAIN table |-> table[k].status]

Lifecycle == INSTANCE Lifecycle WITH
    head <- Status(messages),
    shown <- Status(queues),
    receiver <- Status(targets),
    topic <- {q \in Queues : InTopic(q)},
    called <- handed

(* Every transaction of the server, the cron job and the handlers changes  *)
(* the three tables as one step of a message's life, whatever was retried, *)
(* lost, delivered twice, canceled in between or left half done before it. *)
ImplementsLifecycle == Lifecycle!Spec
=============================================================================
