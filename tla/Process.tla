------------------------------- MODULE Process -------------------------------
(***************************************************************************)
(* The life of one process: cmd/server, cmd/worker or cmd/cronjob, run by  *)
(* fx.  Constructors append a hook each as fx builds what the Invoke       *)
(* functions ask for; the hooks are started in that order and stopped in   *)
(* the reverse one, within the 15 seconds fx gives them.                   *)
(***************************************************************************)
EXTENDS ConnectionPool, Sequences

VARIABLES
    kind,        \* the program that was started
    phase,
    built,       \* hooks appended
    up,          \* hooks started
    down,        \* hooks stopped
    registered,  \* the topics a handler is registered for
    executed     \* the cron job's Execute has returned

lifeVars == <<kind, phase, built, up, down, registered, executed>>
vars == <<lifeVars, stage>>

Programs == {"server", "worker", "cronjob"}
Phases == {"constructing", "invoking", "running", "stopping", "exited"}
Topics == {"sms", "mail"}

Telemetry == <<"otlp", "tracer", "meter">>
HooksOf ==
    [server |-> Telemetry \o <<"db", "producer", "grpc">>,
     worker |-> Telemetry \o <<"db", "consumer">>,
     cronjob |-> Telemetry \o <<"db", "producer">>]
Hooks == HooksOf[kind]

CallersOf(program) ==
    {c \in Callers :
        Kind[c] \in CASE program = "server" -> {"request", "stream"}
                      [] program = "worker" -> Topics
                      [] program = "cronjob" -> {"job"}}

TypeOK ==
    /\ PoolTypeOK
    /\ kind \in Programs
    /\ phase \in Phases
    /\ built \in 0 .. Len(Hooks)
    /\ up \in 0 .. built
    /\ down \in 0 .. up
    /\ registered \subseteq Topics
    /\ executed \in BOOLEAN
    /\ \A c \in Callers : AtWork(c) => c \in CallersOf(kind)

Init ==
    /\ PoolInit
    /\ kind \in Programs
    /\ phase = "constructing"
    /\ built = 0
    /\ up = 0
    /\ down = 0
    /\ registered = {}
    /\ executed = FALSE

-----------------------------------------------------------------------------
(* Hooks.                                                                  *)

Started(h) == \E i \in 1 .. up : Hooks[i] = h

NextToStop == Hooks[up - down]

Stopped(h) == \E i \in up - down + 1 .. up : Hooks[i] = h

Idle == \A c \in Callers : ~AtWork(c)

Exit ==
    /\ phase' = "exited"
    /\ stage' = [c \in Callers |-> "idle"]

-----------------------------------------------------------------------------
(* fx.New: constructors, then the Invoke functions.                        *)

Construct ==
    /\ phase = "constructing"
    /\ built < Len(Hooks)
    /\ built' = built + 1
    /\ phase' = IF built' = Len(Hooks) THEN "invoking" ELSE phase
    /\ UNCHANGED <<stage, kind, up, down, registered, executed>>

\* A constructor that cannot reach its database or broker ends the process.
ConstructFails ==
    /\ phase = "constructing"
    /\ Exit
    /\ UNCHANGED <<kind, built, up, down, registered, executed>>

RegisterHandler(topic) ==
    /\ kind = "worker"
    /\ phase = "invoking"
    /\ registered' = registered \cup {topic}
    /\ UNCHANGED <<stage, kind, phase, built, up, down, executed>>

\* The job runs inside its Invoke function, before any hook is started.
RunJob(c) ==
    /\ kind = "cronjob"
    /\ phase = "invoking"
    /\ ~executed
    /\ c \in CallersOf(kind)
    /\ Idle
    /\ Begin(c)
    /\ UNCHANGED lifeVars

JobReturns(c) ==
    /\ kind = "cronjob"
    /\ End(c)
    /\ executed' = TRUE
    /\ UNCHANGED <<kind, phase, built, up, down, registered>>

\* The query for scheduled messages failed: log.Fatalf.  Only the first query
\* does that; here the process may end so at any step of the job.
JobFails(c) ==
    /\ kind = "cronjob"
    /\ stage[c] = "working"
    /\ Exit
    /\ UNCHANGED <<kind, built, up, down, registered, executed>>

\* main returns as soon as the job is done, while fx goes on in a goroutine.
MainReturns ==
    /\ kind = "cronjob"
    /\ executed
    /\ phase # "exited"
    /\ Exit
    /\ UNCHANGED <<kind, built, up, down, registered, executed>>

Invoked ==
    CASE kind = "server" -> TRUE
      [] kind = "worker" -> registered = Topics
      [] kind = "cronjob" -> executed

-----------------------------------------------------------------------------
(* App.Run: start the hooks, wait for a signal, stop them.                 *)

\* Mutation: hooks are started while others are still appended.
StartHookEarly ==
    /\ phase \in {"constructing", "invoking"}
    /\ up < Len(Hooks)
    /\ up' = up + 1
    /\ phase' = IF up' = Len(Hooks) THEN "running" ELSE phase
    /\ UNCHANGED <<stage, kind, built, down, registered, executed>>

StartHook ==
    /\ phase = "invoking"
    /\ Invoked
    /\ up' = up + 1
    /\ phase' = IF up' = Len(Hooks) THEN "running" ELSE phase
    /\ UNCHANGED <<stage, kind, built, down, registered, executed>>

Signal ==
    /\ phase = "running"
    /\ phase' = "stopping"
    /\ UNCHANGED <<stage, kind, built, up, down, registered, executed>>

\* Mutation: grpc.Server.Stop and a Close that does not wait for its handlers.
StopsAtOnce(h) == TRUE

\* GracefulStop waits for the calls at work, and Close for the session, whose
\* end waits for every ConsumeClaim.
StopReturns(h) == h \in {"grpc", "consumer"} => Idle

StopHook ==
    /\ phase = "stopping"
    /\ down < up
    /\ StopReturns(NextToStop)
    /\ down' = down + 1
    /\ UNCHANGED <<stage, kind, phase, built, up, registered, executed>>

StopDone ==
    /\ phase = "stopping"
    /\ down = up
    /\ Exit
    /\ UNCHANGED <<kind, built, up, down, registered, executed>>

\* The 15 seconds are over (a client keeps its stream open, a provider does
\* not answer), or the process is killed, or Serve or Consume fails.
Abort ==
    /\ phase \in {"invoking", "running", "stopping"}
    /\ Exit
    /\ UNCHANGED <<kind, built, up, down, registered, executed>>

-----------------------------------------------------------------------------
(* The callers.  GracefulStop lets no call in; Close does not keep claims  *)
(* from the records they have buffered.                                    *)

\* Mutation: a group consumes as soon as it is constructed.
AcceptsWhenBuilt(c) ==
    /\ c \in CallersOf(kind)
    /\ IF Kind[c] \in Topics
       THEN built = Len(Hooks) /\ ~Stopped("consumer")
       ELSE Started("grpc") /\ phase # "stopping"

Accepts(c) ==
    /\ c \in CallersOf(kind)
    /\ IF Kind[c] \in Topics
       THEN Started("consumer") /\ ~Stopped("consumer")
       ELSE Started("grpc") /\ phase # "stopping"

Call(c) ==
    /\ phase # "exited"
    /\ Accepts(c)
    /\ Begin(c)
    /\ UNCHANGED lifeVars

Return(c) ==
    /\ kind # "cronjob"
    /\ End(c)
    /\ UNCHANGED lifeVars

Next ==
    \/ Construct \/ ConstructFails
    \/ \E topic \in Topics : RegisterHandler(topic)
    \/ \E c \in Callers : RunJob(c) \/ JobReturns(c) \/ JobFails(c)
    \/ MainReturns
    \/ StartHook \/ Signal \/ StopHook \/ StopDone \/ Abort
    \/ \E c \in Callers : Call(c) \/ Return(c)
    \/ \E c \in Callers : PoolNext(c) /\ UNCHANGED lifeVars

Spec == Init /\ [][Next]_vars

FairSpec == Spec /\ PoolFairness

-----------------------------------------------------------------------------
Uses ==
    [grpc |-> {"db", "producer"}, consumer |-> {"db"}, tracer |-> {"otlp"},
     meter |-> {"otlp"}, otlp |-> {}, db |-> {}, producer |-> {}]

Needs(c) == IF Kind[c] \in Topics THEN {"db"} ELSE {"db", "producer"}

(* While the hooks are stopped, nothing is closed that something still     *)
(* open, or a call, a handler or a job still at work, has yet to use:      *)
(* spans are flushed over an open connection, results are stored.          *)
UsedIsOpen ==
    /\ \A c \in Callers : AtWork(c) => \A h \in Needs(c) : ~Stopped(h)
    /\ \A i \in 1 .. up :
          ~Stopped(Hooks[i]) => \A h \in Uses[Hooks[i]] : ~Stopped(h)

(* No record is read before its topic has a handler: ConsumeClaim would    *)
(* mark it and leave it unhandled for good.                                *)
RegisteredBeforeConsumed ==
    \A c \in Callers : AtWork(c) /\ Kind[c] \in Topics => Kind[c] \in registered
=============================================================================
