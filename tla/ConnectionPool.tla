---------------------------- MODULE ConnectionPool ----------------------------
(***************************************************************************)
(* The database connections of one process (database/sql under gorm, set   *)
(* up by internal/components/db.go) and the goroutines that share them:    *)
(* the requests and streams of the server, the SMS and mail handlers of a  *)
(* worker, the job of the cron process.                                    *)
(*                                                                         *)
(* Every query and every transaction takes a connection and keeps it until *)
(* it ends.  Two callers ask for a second one while they keep the first:   *)
(* the mail handler, which creates its failure event with h.db inside the  *)
(* transaction of the result, and the cron job, which calls HandleEnqueue  *)
(* inside a transaction of its own.                                        *)
(***************************************************************************)
EXTENDS Naturals, FiniteSets

CONSTANTS
    Callers,   \* goroutines that may be at work in a process
    Kind,      \* what each of them is
    MaxOpen    \* DB_MAX_OPEN_CONNS: 5

Kinds == {"request", "stream", "sms", "mail", "job"}

ASSUME PoolAssumption ==
    /\ IsFiniteSet(Callers)
    /\ Kind \in [Callers -> Kinds]
    /\ MaxOpen \in Nat \ {0}

VARIABLE stage  \* what each caller is doing with the pool

\* Mutation: the SMS handler writes outside its transaction too.
NestsAnyHandler(c) == Kind[c] \in {"sms", "mail", "job"}

Nests(c) == Kind[c] \in {"mail", "job"}
Nesters == {c \in Callers : Nests(c)}

AtWork(c) == stage[c] # "idle"
In(label) == {c \in Callers : stage[c] = label}

\* Connections in use.  A caller that has got its second one holds two.
Open ==
    Cardinality(In("holding")) + Cardinality(In("waitingInside"))
        + 2 * Cardinality(In("holdingInside"))

HasFree == Open < MaxOpen

Stages == {"idle", "working", "waiting", "holding", "waitingInside", "holdingInside"}
PoolTypeOK ==
    /\ stage \in [Callers -> Stages]
    /\ \A c \in Callers : stage[c] \in {"waitingInside", "holdingInside"} => Nests(c)
PoolInit == stage = [c \in Callers |-> "idle"]

-----------------------------------------------------------------------------
Move(c, from, to) ==
    /\ stage[c] = from
    /\ stage' = [stage EXCEPT ![c] = to]

Begin(c) == Move(c, "idle", "working")
End(c) == Move(c, "working", "idle")

Query(c) == Move(c, "working", "waiting")
Grant(c) == HasFree /\ Move(c, "waiting", "holding")
Release(c) == Move(c, "holding", "working")

QueryInside(c) == Nests(c) /\ Move(c, "holding", "waitingInside")
GrantInside(c) == HasFree /\ Move(c, "waitingInside", "holdingInside")
ReleaseInside(c) == Move(c, "holdingInside", "holding")

\* The context of a unary request ends with its client, and with it the wait;
\* all others pass a context that is never cancelled.
GiveUp(c) == Kind[c] = "request" /\ Move(c, "waiting", "working")

PoolNext(c) ==
    \/ Query(c) \/ Grant(c) \/ Release(c)
    \/ QueryInside(c) \/ GrantInside(c) \/ ReleaseInside(c)
    \/ GiveUp(c)

\* The database answers every query and a transaction runs finitely many, so
\* its connection comes back.  A free connection goes to a waiting caller
\* picked at random (database/sql), so none is passed over forever.
PoolFairness ==
    /\ \A c \in Callers : SF_stage(Grant(c)) /\ SF_stage(Release(c))
    /\ \A c \in Nesters : SF_stage(GrantInside(c)) /\ WF_stage(ReleaseInside(c))

-----------------------------------------------------------------------------
Waiting(c) == stage[c] \in {"waiting", "waitingInside"}
Progressing(c) == stage[c] \in {"holding", "holdingInside"}

(* Whoever waits for a connection waits for somebody who will give one     *)
(* back: the pool is never in the hands of callers that all wait for it.   *)
NoCircularWait ==
    \/ \A c \in Callers : ~Waiting(c)
    \/ HasFree
    \/ \E c \in Callers : Progressing(c)

(* Every caller that asks for a connection gets one, or gives up.          *)
WaitersServed == \A c \in Callers : Waiting(c) ~> ~Waiting(c)

(* The table schema: notify.queues manages the state of sending and        *)
(* ensures reliable delivery.  A mail handler that has a failure to store  *)
(* gets to store it.                                                       *)
FailuresAreStored ==
    \A c \in Callers : stage[c] = "waitingInside" ~> stage[c] # "waitingInside"
=============================================================================
