------------------------------ MODULE MCNotify ------------------------------
(***************************************************************************)
(* Instances of Notify for TLC.  Queues and targets are numbers; the       *)
(* functions below give them their message, queue and topic.               *)
(***************************************************************************)
EXTENDS NotifyRefinement, TLC

CONSTANTS m1, p1, p2, w1, w2, c1, c2

\* One message split into two queues of one target each.
OneMessageTwoQueues == 1 :> m1 @@ 2 :> m1
OneEach == 1 :> 1 @@ 2 :> 2
OneTarget == 1 :> 1

SmsOnly == m1 :> "sms"
MailOnly == m1 :> "mail"
SmsTopic == p1 :> "sms"
MailTopic == p1 :> "mail"
TwoMailPartitions == p1 :> "mail" @@ p2 :> "mail"

WorkersAlike == Permutations(Workers)
CronsAlike == Permutations(Crons)
=============================================================================
