----------------------------- MODULE ProcessProofs -----------------------------
(***************************************************************************)
(* What holds of a process for any set of callers and any size of its      *)
(* pool: the order of its start and stop, and the only two ways in which   *)
(* its pool can be stuck.                                                  *)
(***************************************************************************)
EXTENDS Process, FiniteSetTheorems, TLAPS

-----------------------------------------------------------------------------
(* The pool.                                                               *)

(* A caller's move keeps the type of the pool, if only those that nest get *)
(* inside.                                                                 *)
LEMMA MoveType ==
    ASSUME PoolTypeOK, NEW c \in Callers, NEW from, NEW to \in Stages,
           Move(c, from, to), to \in {"waitingInside", "holdingInside"} => Nests(c)
    PROVE  PoolTypeOK'
BY DEF PoolTypeOK, Move, Nests

(* A query or a transaction keeps it, and sends no caller to or from work. *)
LEMMA PoolStep ==
    ASSUME PoolTypeOK, NEW c \in Callers, PoolNext(c)
    PROVE  PoolTypeOK' /\ \A d \in Callers : AtWork(d)' <=> AtWork(d)
<1>1. PICK from \in Stages \ {"idle"}, to \in Stages \ {"idle"} :
         /\ Move(c, from, to)
         /\ to \in {"waitingInside", "holdingInside"} => Nests(c)
  <2>1. CASE Query(c) \/ Grant(c) \/ Release(c) \/ GiveUp(c)
    BY <2>1 DEF Query, Grant, Release, GiveUp, Stages
  <2>2. CASE QueryInside(c)
    BY <2>2 DEF QueryInside, Stages
  <2>3. CASE GrantInside(c)
    BY <2>3 DEF GrantInside, Move, PoolTypeOK, Stages
  <2>4. CASE ReleaseInside(c)
    BY <2>4 DEF ReleaseInside, Stages
  <2>5. QED
    BY <2>1, <2>2, <2>3, <2>4 DEF PoolNext
<1>2. PoolTypeOK'
  BY <1>1, MoveType
<1>3. \A d \in Callers : AtWork(d)' <=> AtWork(d)
  BY <1>1 DEF Move, AtWork, PoolTypeOK
<1>4. QED
  BY <1>2, <1>3

(* Every stage has finitely many callers.                                  *)
LEMMA InIsFinite ==
    ASSUME NEW label
    PROVE  /\ IsFiniteSet(In(label)) /\ Cardinality(In(label)) \in Nat
           /\ IsFiniteSet(In(label)') /\ Cardinality(In(label)') \in Nat
<1>1. In(label) \in SUBSET Callers /\ In(label)' \in SUBSET Callers
  BY DEF In
<1>2. QED
  BY <1>1, PoolAssumption, FS_Subset, FS_CardinalityType

(* A caller's move takes it from one stage to another.                     *)
LEMMA MoveCounts ==
    ASSUME PoolTypeOK, NEW c \in Callers, NEW from, NEW to, from # to, Move(c, from, to)
    PROVE  /\ Cardinality(In(from)') = Cardinality(In(from)) - 1
           /\ Cardinality(In(to)') = Cardinality(In(to)) + 1
           /\ \A label : label \notin {from, to} => In(label)' = In(label)
<1>1. c \in In(from) /\ c \notin In(to)
  BY DEF Move, In
<1>2. In(from)' = In(from) \ {c} /\ In(to)' = In(to) \cup {c}
  BY DEF Move, In, PoolTypeOK
<1>3. Cardinality(In(from) \ {c}) = Cardinality(In(from)) - 1
  BY <1>1, InIsFinite, FS_RemoveElement
<1>4. Cardinality(In(to) \cup {c}) = Cardinality(In(to)) + 1
  BY <1>1, InIsFinite, FS_AddElement
<1>5. \A label : label \notin {from, to} => In(label)' = In(label)
  BY DEF Move, In, PoolTypeOK
<1>6. QED
  BY <1>2, <1>3, <1>4, <1>5

(* No more connections are in use than the pool may open.                  *)
PoolWithin == Open \in Nat /\ Open <= MaxOpen

(* A query or a transaction takes one only if there is one.                *)
LEMMA PoolStepWithin ==
    ASSUME PoolTypeOK, PoolWithin, NEW c \in Callers, PoolNext(c)
    PROVE  PoolWithin'
<1> DEFINE h == Cardinality(In("holding"))
           w == Cardinality(In("waitingInside"))
           i == Cardinality(In("holdingInside"))
<1>0. /\ h \in Nat /\ w \in Nat /\ i \in Nat
      /\ h' \in Nat /\ w' \in Nat /\ i' \in Nat
      /\ Open = h + w + 2 * i /\ Open' = h' + w' + 2 * i'
      /\ MaxOpen \in Nat
  BY InIsFinite, PoolAssumption DEF Open
<1>1. CASE Query(c) \/ GiveUp(c)
  <2>1. PICK from \in {"working", "waiting"}, to \in {"working", "waiting"} :
          from # to /\ Move(c, from, to)
    BY <1>1 DEF Query, GiveUp
  <2>2. h' = h /\ w' = w /\ i' = i
    BY <2>1, MoveCounts
  <2>3. QED
    BY <1>0, <2>2 DEF PoolWithin
<1>2. CASE Grant(c)
  <2>1. h' = h + 1 /\ w' = w /\ i' = i
    BY <1>2, MoveCounts DEF Grant
  <2>2. QED
    BY <1>0, <1>2, <2>1 DEF Grant, HasFree, PoolWithin
<1>3. CASE Release(c)
  <2>1. h' = h - 1 /\ w' = w /\ i' = i
    BY <1>3, MoveCounts DEF Release
  <2>2. QED
    BY <1>0, <2>1 DEF PoolWithin
<1>4. CASE QueryInside(c)
  <2>1. h' = h - 1 /\ w' = w + 1 /\ i' = i
    BY <1>4, MoveCounts DEF QueryInside
  <2>2. QED
    BY <1>0, <2>1 DEF PoolWithin
<1>5. CASE GrantInside(c)
  <2>1. h' = h /\ w' = w - 1 /\ i' = i + 1
    BY <1>5, MoveCounts DEF GrantInside
  <2>2. QED
    BY <1>0, <1>5, <2>1 DEF GrantInside, HasFree, PoolWithin
<1>6. CASE ReleaseInside(c)
  <2>1. h' = h + 1 /\ w' = w /\ i' = i - 1
    BY <1>6, MoveCounts DEF ReleaseInside
  <2>2. QED
    BY <1>0, <2>1 DEF PoolWithin
<1>7. QED
  BY <1>1, <1>2, <1>3, <1>4, <1>5, <1>6 DEF PoolNext

(* Who begins or ends its work, or ends with its process, holds none then. *)
LEMMA OthersWithin ==
    ASSUME PoolTypeOK, PoolWithin,
           \/ \E c \in Callers : Begin(c) \/ End(c)
           \/ Exit
           \/ UNCHANGED stage
    PROVE  PoolWithin'
<1>1. CASE \E c \in Callers : Begin(c) \/ End(c)
  <2>1. PICK c \in Callers, from \in {"idle", "working"}, to \in {"idle", "working"} :
          from # to /\ Move(c, from, to)
    BY <1>1 DEF Begin, End
  <2>2. /\ In("holding")' = In("holding")
        /\ In("waitingInside")' = In("waitingInside")
        /\ In("holdingInside")' = In("holdingInside")
    BY <2>1, MoveCounts
  <2>3. QED
    BY <2>2 DEF Open, PoolWithin
<1>2. CASE Exit
  <2>1. In("holding")' = {} /\ In("waitingInside")' = {} /\ In("holdingInside")' = {}
    BY <1>2 DEF Exit, In
  <2>2. Open' = 0 + 0 + 2 * 0 /\ MaxOpen \in Nat
    BY <2>1, FS_EmptySet, PoolAssumption DEF Open
  <2>3. QED
    BY <2>2 DEF PoolWithin
<1>3. CASE UNCHANGED stage
  BY <1>3 DEF Open, In, PoolWithin
<1>4. QED
  BY <1>1, <1>2, <1>3

-----------------------------------------------------------------------------
(* The hooks.                                                              *)

(* The hooks of the three programs, in the order they are appended.        *)
LEMMA HooksAre ==
    /\ kind = "server" => Hooks = <<"otlp", "tracer", "meter", "db", "producer", "grpc">>
    /\ kind = "worker" => Hooks = <<"otlp", "tracer", "meter", "db", "consumer">>
    /\ kind = "cronjob" => Hooks = <<"otlp", "tracer", "meter", "db", "producer">>
BY DEF Hooks, HooksOf, Telemetry

(* A hook uses only what was appended before it.                           *)
LEMMA HooksUseEarlierOnes ==
    ASSUME kind \in Programs, NEW i \in 1 .. Len(Hooks), NEW j \in 1 .. Len(Hooks),
           Hooks[j] \in Uses[Hooks[i]]
    PROVE  j < i
<1>1. /\ Uses["otlp"] = {} /\ Uses["db"] = {} /\ Uses["producer"] = {}
      /\ Uses["tracer"] = {"otlp"} /\ Uses["meter"] = {"otlp"}
      /\ Uses["consumer"] = {"db"} /\ Uses["grpc"] = {"db", "producer"}
  BY DEF Uses
<1>2. CASE kind = "server"
  <2>1. /\ Len(Hooks) = 6
        /\ Hooks[1] = "otlp" /\ Hooks[2] = "tracer" /\ Hooks[3] = "meter"
        /\ Hooks[4] = "db" /\ Hooks[5] = "producer" /\ Hooks[6] = "grpc"
    BY <1>2, HooksAre
  <2>2. i \in 1 .. 6 /\ j \in 1 .. 6
    BY <2>1
  <2>3. QED
    BY <1>1, <2>1, <2>2
<1>3. CASE kind # "server"
  <2>1. /\ Len(Hooks) = 5
        /\ Hooks[1] = "otlp" /\ Hooks[2] = "tracer" /\ Hooks[3] = "meter"
        /\ Hooks[4] = "db" /\ Hooks[5] \in {"consumer", "producer"}
    BY <1>3, HooksAre DEF Programs
  <2>2. i \in 1 .. 5 /\ j \in 1 .. 5
    BY <2>1
  <2>3. QED
    BY <1>1, <2>1, <2>2
<1>4. QED
  BY <1>2, <1>3

(* The last hook of a server is its listener, of a worker its consumer.    *)
LEMMA LastHook ==
    ASSUME kind \in Programs
    PROVE  /\ Len(Hooks) \in Nat \ {0}
           /\ kind = "server" => Hooks[Len(Hooks)] = "grpc"
           /\ kind = "worker" => Hooks[Len(Hooks)] = "consumer"
<1>1. CASE kind = "server"
  <2>1. Len(Hooks) = 6 /\ Hooks[6] = "grpc"
    BY <1>1, HooksAre
  <2>2. QED
    BY <1>1, <2>1
<1>2. CASE kind = "worker"
  <2>1. Len(Hooks) = 5 /\ Hooks[5] = "consumer"
    BY <1>2, HooksAre
  <2>2. QED
    BY <1>2, <2>1
<1>3. CASE kind = "cronjob"
  BY <1>3, HooksAre
<1>4. QED
  BY <1>1, <1>2, <1>3 DEF Programs

(* A cron process has neither.                                             *)
LEMMA CronHooks ==
    ASSUME kind = "cronjob", up \in 0 .. Len(Hooks)
    PROVE  ~Started("grpc") /\ ~Started("consumer")
<1>1. /\ Len(Hooks) = 5
      /\ Hooks[1] = "otlp" /\ Hooks[2] = "tracer" /\ Hooks[3] = "meter"
      /\ Hooks[4] = "db" /\ Hooks[5] = "producer"
  BY HooksAre
<1>2. \A i \in 1 .. 5 : Hooks[i] # "grpc" /\ Hooks[i] # "consumer"
  BY <1>1
<1>3. QED
  BY <1>1, <1>2 DEF Started

(* Which callers a program has.                                            *)
LEMMA CallersOfAre ==
    ASSUME kind \in Programs
    PROVE  \A c \in Callers : c \in CallersOf(kind) <=>
              \/ kind = "server" /\ Kind[c] \in {"request", "stream"}
              \/ kind = "worker" /\ Kind[c] \in Topics
              \/ kind = "cronjob" /\ Kind[c] = "job"
<1>1. CASE kind = "server"
  BY <1>1 DEF CallersOf
<1>2. CASE kind = "worker"
  BY <1>2 DEF CallersOf
<1>3. CASE kind = "cronjob"
  BY <1>3 DEF CallersOf
<1>4. QED
  BY <1>1, <1>2, <1>3 DEF Programs

-----------------------------------------------------------------------------
(* The inductive invariant: how far hooks are in each phase, that all      *)
(* Invoke functions have returned before the first hook is started, and    *)
(* that callers are at work only while no hook has been stopped.           *)
Phased ==
    /\ phase = "constructing" => up = 0
    /\ phase = "invoking" => built = Len(Hooks) /\ up < Len(Hooks)
    /\ phase \in {"running", "stopping"} => up = Len(Hooks)
    /\ phase \in {"constructing", "invoking", "running"} => down = 0
    /\ up > 0 => Invoked

WorkIsTimely ==
    \A c \in Callers : AtWork(c) =>
        /\ down = 0
        /\ Kind[c] \in Topics => registered = Topics
        /\ kind = "cronjob" => ~executed /\ \A d \in Callers : AtWork(d) => d = c

LifeInv == TypeOK /\ Phased /\ WorkIsTimely

(* The initial state satisfies it.                                         *)
LEMMA InitLife == Init => LifeInv
<1> SUFFICES ASSUME Init PROVE LifeInv
  OBVIOUS
<1>1. Len(Hooks) \in Nat \ {0}
  BY LastHook DEF Init
<1>2. \A c \in Callers : ~AtWork(c)
  BY DEF Init, PoolInit, AtWork
<1>3. PoolTypeOK
  BY DEF Init, PoolInit, PoolTypeOK, Stages
<1>4. TypeOK
  <2>1. built \in 0 .. Len(Hooks) /\ up \in 0 .. built /\ down \in 0 .. up
    BY <1>1 DEF Init
  <2>2. QED
    BY <1>2, <1>3, <2>1 DEF Init, TypeOK, Phases
<1>5. Phased /\ WorkIsTimely
  BY <1>2 DEF Init, Phased, WorkIsTimely
<1>6. QED
  BY <1>4, <1>5 DEF LifeInv

(* When a process has ended nobody is at work.                             *)
LEMMA ExitLife ==
    ASSUME LifeInv, Exit, UNCHANGED <<kind, built, up, down, registered, executed>>
    PROVE  LifeInv'
<1>1. PoolTypeOK' /\ \A c \in Callers : ~AtWork(c)'
  BY DEF Exit, PoolTypeOK, Stages, AtWork
<1>2. QED
  BY <1>1 DEF LifeInv, TypeOK, Phased, WorkIsTimely, Exit, Phases, Hooks, Invoked

(* A step of the pool keeps it.                                            *)
LEMMA PoolLife ==
    ASSUME LifeInv, UNCHANGED lifeVars, PoolTypeOK',
           \A c \in Callers : AtWork(c)' => AtWork(c)
    PROVE  LifeInv'
BY DEF LifeInv, TypeOK, Phased, WorkIsTimely, lifeVars, Hooks, Invoked

(* So does every step of its start.                                        *)
LEMMA StartLife ==
    ASSUME LifeInv,
           Construct \/ (\E topic \in Topics : RegisterHandler(topic)) \/ StartHook \/ Signal
    PROVE  LifeInv'
<1> USE DEF LifeInv
<1>0. Len(Hooks) \in Nat \ {0}
  BY LastHook DEF TypeOK
<1>1. CASE Construct
  BY <1>0, <1>1 DEF Construct, TypeOK, PoolTypeOK, Phased, WorkIsTimely, Phases, AtWork, Nests, Hooks, Invoked
<1>2. ASSUME NEW topic \in Topics, RegisterHandler(topic)
      PROVE  LifeInv'
  <2>1. registered' \subseteq Topics /\ (registered = Topics => registered' = Topics)
    BY <1>2 DEF RegisterHandler, TypeOK
  <2>2. Invoked => Invoked'
    BY <1>2, <2>1 DEF RegisterHandler, Invoked, TypeOK
  <2>3. QED
    BY <1>2, <2>1, <2>2 DEF RegisterHandler, TypeOK, PoolTypeOK, Phased, WorkIsTimely, AtWork, Nests, Hooks
<1>3. CASE StartHook
  <2>1. Invoked /\ Invoked'
    BY <1>3 DEF StartHook, Invoked
  <2>2. QED
    BY <1>0, <1>3, <2>1 DEF StartHook, TypeOK, PoolTypeOK, Phased, WorkIsTimely, Phases, AtWork, Nests, Hooks
<1>4. CASE Signal
  BY <1>4 DEF Signal, TypeOK, PoolTypeOK, Phased, WorkIsTimely, Phases, AtWork, Nests, Hooks, Invoked
<1>5. QED
  BY <1>1, <1>2, <1>3, <1>4

(* And of its stop: the first hook to stop waits until nobody is at work.  *)
LEMMA StopLife ==
    ASSUME LifeInv, StopHook
    PROVE  LifeInv'
<1> USE DEF LifeInv
<1>1. \A c \in Callers : ~AtWork(c)
  <2>1. SUFFICES ASSUME NEW c \in Callers, AtWork(c) PROVE FALSE
    OBVIOUS
  <2>2. down = 0 /\ up = Len(Hooks) /\ up \in Nat /\ up > 0
    BY <2>1, LastHook DEF StopHook, WorkIsTimely, Phased, TypeOK
  <2>3. CASE kind \in {"server", "worker"}
    <3>1. NextToStop \in {"grpc", "consumer"}
      BY <2>2, <2>3, LastHook DEF NextToStop, TypeOK
    <3>2. QED
      BY <2>1, <3>1 DEF StopHook, StopReturns, Idle
  <2>4. CASE kind = "cronjob"
    BY <2>1, <2>2, <2>4 DEF Phased, WorkIsTimely, Invoked
  <2>5. QED
    BY <2>3, <2>4 DEF TypeOK, Programs
<1>2. PoolTypeOK' /\ \A c \in Callers : ~AtWork(c)'
  BY <1>1 DEF StopHook, TypeOK, PoolTypeOK, AtWork, Nests
<1>3. TypeOK'
  BY <1>2, LastHook DEF StopHook, TypeOK, Hooks
<1>4. Phased' /\ WorkIsTimely'
  BY <1>2 DEF StopHook, Phased, WorkIsTimely, Hooks, Invoked
<1>5. QED
  BY <1>3, <1>4

(* And every call and return.                                              *)
LEMMA WorkLife ==
    ASSUME LifeInv, NEW c \in Callers,
           RunJob(c) \/ JobReturns(c) \/ Call(c) \/ Return(c)
    PROVE  LifeInv'
<1> USE DEF LifeInv
<1>1. CASE RunJob(c)
  <2>1. PoolTypeOK'
    BY <1>1, MoveType DEF RunJob, Begin, TypeOK, Stages
  <2>2. Kind[c] \notin Topics
    BY <1>1, CallersOfAre DEF RunJob, TypeOK, Topics
  <2>3. \A d \in Callers : AtWork(d)' => d = c
    BY <1>1 DEF RunJob, Idle, Begin, Move, AtWork, TypeOK, PoolTypeOK
  <2>4. QED
    BY <1>1, <2>1, <2>2, <2>3 DEF RunJob, TypeOK, Phased, WorkIsTimely, lifeVars, Hooks, Invoked
<1>2. CASE JobReturns(c)
  <2>1. PoolTypeOK'
    BY <1>2, MoveType DEF JobReturns, End, TypeOK, Stages
  <2>2. \A d \in Callers : AtWork(d)' => AtWork(d) /\ d # c
    BY <1>2 DEF JobReturns, End, Move, AtWork, TypeOK, PoolTypeOK
  <2>3. \A d \in Callers : ~AtWork(d)'
    <3>1. AtWork(c)
      BY <1>2 DEF JobReturns, End, Move, AtWork
    <3>2. QED
      BY <1>2, <2>2, <3>1 DEF JobReturns, WorkIsTimely
  <2>4. TypeOK'
    BY <1>2, <2>1, <2>3 DEF JobReturns, TypeOK, Hooks
  <2>5. Phased' /\ WorkIsTimely'
    BY <1>2, <2>3 DEF JobReturns, Phased, WorkIsTimely, Hooks, Invoked
  <2>6. QED
    BY <2>4, <2>5
<1>3. CASE Call(c)
  <2>1. PoolTypeOK'
    BY <1>3, MoveType DEF Call, Begin, TypeOK, Stages
  <2>2. \A d \in Callers : AtWork(d)' => AtWork(d) \/ d = c
    BY <1>3 DEF Call, Begin, Move, AtWork, TypeOK, PoolTypeOK
  <2>3. c \in CallersOf(kind)
    BY <1>3 DEF Call, Accepts
  <2>4. kind # "cronjob"
    BY <1>3, <2>3, CronHooks DEF Call, Accepts, TypeOK
  <2>5. up > 0
    BY <1>3 DEF Call, Accepts, Started, TypeOK
  <2>6. down = 0
    <3>1. SUFFICES ASSUME down # 0 PROVE FALSE
      OBVIOUS
    <3>2. phase = "stopping" /\ up = Len(Hooks)
      BY <1>3, <3>1 DEF Call, Phased, TypeOK, Phases
    <3>3. kind = "worker" /\ Kind[c] \in Topics
      BY <1>3, <2>3, <2>4, <3>2, CallersOfAre DEF Call, Accepts, TypeOK, Topics
    <3>4. up \in up - down + 1 .. up /\ Hooks[up] = "consumer"
      BY <3>1, <3>2, <3>3, LastHook DEF TypeOK
    <3>5. QED
      BY <1>3, <3>3, <3>4 DEF Call, Accepts, Stopped
  <2>7. Kind[c] \in Topics => registered = Topics
    BY <2>3, <2>5, CallersOfAre DEF Phased, Invoked, TypeOK, Topics
  <2>8. QED
    BY <1>3, <2>1, <2>2, <2>3, <2>4, <2>6, <2>7
       DEF Call, TypeOK, Phased, WorkIsTimely, lifeVars, Hooks, Invoked
<1>4. CASE Return(c)
  <2>1. PoolTypeOK'
    BY <1>4, MoveType DEF Return, End, TypeOK, Stages
  <2>2. \A d \in Callers : AtWork(d)' => AtWork(d)
    BY <1>4 DEF Return, End, Move, AtWork, TypeOK, PoolTypeOK
  <2>3. QED
    BY <1>4, <2>1, <2>2, PoolLife DEF Return
<1>5. QED
  BY <1>1, <1>2, <1>3, <1>4

(* Every step keeps it.                                                    *)
LEMMA NextLife == LifeInv /\ [Next]_vars => LifeInv'
<1> SUFFICES ASSUME LifeInv, [Next]_vars PROVE LifeInv'
  OBVIOUS
<1>1. CASE Construct \/ (\E topic \in Topics : RegisterHandler(topic)) \/ StartHook \/ Signal
  BY <1>1, StartLife
<1>2. CASE ConstructFails \/ MainReturns \/ StopDone \/ Abort \/ \E c \in Callers : JobFails(c)
  BY <1>2, ExitLife DEF ConstructFails, MainReturns, StopDone, Abort, JobFails
<1>3. CASE StopHook
  BY <1>3, StopLife
<1>4. CASE \E c \in Callers : RunJob(c) \/ JobReturns(c) \/ Call(c) \/ Return(c)
  BY <1>4, WorkLife
<1>5. CASE \E c \in Callers : PoolNext(c) /\ UNCHANGED lifeVars
  BY <1>5, PoolStep, PoolLife DEF LifeInv, TypeOK
<1>6. CASE UNCHANGED vars
  <2>1. PoolTypeOK' /\ \A c \in Callers : AtWork(c)' => AtWork(c)
    BY <1>6 DEF vars, LifeInv, TypeOK, PoolTypeOK, AtWork, Nests
  <2>2. QED
    BY <1>6, <2>1, PoolLife DEF vars
<1>7. QED
  BY <1>1, <1>2, <1>3, <1>4, <1>5, <1>6 DEF Next

(* So it holds always.                                                     *)
LEMMA Life == Spec => []LifeInv
BY InitLife, NextLife, PTL DEF Spec

-----------------------------------------------------------------------------
(* Every process keeps its types: hooks are started in the order they were *)
(* appended, and only callers of the program are at work.                  *)
THEOREM ProcessTypeCorrect == Spec => []TypeOK
<1>1. LifeInv => TypeOK
  BY DEF LifeInv
<1>2. QED
  BY <1>1, Life, PTL

(* No more connections are in use than the pool may open, ever.            *)
LEMMA PoolKept == Spec => []PoolWithin
<1>1. Init => PoolWithin
  <2>1. ASSUME Init, NEW label, label # "idle"
        PROVE  In(label) = {}
    BY <2>1 DEF Init, PoolInit, In
  <2>2. Init => Open = 0 + 0 + 2 * 0
    BY <2>1, FS_EmptySet DEF Open
  <2>3. QED
    BY <2>2, PoolAssumption DEF PoolWithin
<1>2. LifeInv /\ PoolWithin /\ [Next]_vars => PoolWithin'
  <2> SUFFICES ASSUME LifeInv, PoolWithin, [Next]_vars PROVE PoolWithin'
    OBVIOUS
  <2>0. PoolTypeOK
    BY DEF LifeInv, TypeOK
  <2>1. CASE \E c \in Callers : PoolNext(c)
    BY <2>0, <2>1, PoolStepWithin
  <2>2. CASE \E c \in Callers : RunJob(c) \/ JobReturns(c) \/ Call(c) \/ Return(c)
    BY <2>0, <2>2, OthersWithin DEF RunJob, JobReturns, Call, Return
  <2>3. CASE ConstructFails \/ MainReturns \/ StopDone \/ Abort \/ \E c \in Callers : JobFails(c)
    BY <2>0, <2>3, OthersWithin DEF ConstructFails, MainReturns, StopDone, Abort, JobFails
  <2>4. CASE \/ Construct \/ StartHook \/ Signal \/ StopHook
             \/ \E topic \in Topics : RegisterHandler(topic)
             \/ UNCHANGED vars
    BY <2>0, <2>4, OthersWithin
       DEF Construct, StartHook, Signal, StopHook, RegisterHandler, vars
  <2>5. QED
    BY <2>1, <2>2, <2>3, <2>4 DEF Next
<1>3. QED
  BY <1>1, <1>2, Life, PTL DEF Spec

\* As many mail handlers as the pool has connections are each storing a failed
\* result; or a cron job has a pool of one.
TakenByNesting ==
    \/ /\ kind = "worker"
       /\ Cardinality({c \in In("waitingInside") : Kind[c] = "mail"}) = MaxOpen
    \/ kind = "cronjob" /\ MaxOpen = 1

(* Whatever the size of its pool, a server never gets stuck in it; a       *)
(* worker only where as many mail handlers as there are connections each   *)
(* hold one and wait for a second (the mail.go transaction whose event is  *)
(* created with h.db), a cron job only with a pool of one.                 *)
THEOREM PoolStuckOnlyByNesting == Spec => [](NoCircularWait \/ TakenByNesting)
<1>1. ASSUME LifeInv, PoolWithin, ~NoCircularWait
      PROVE  TakenByNesting
  <2> DEFINE W == In("waitingInside")
  <2>1. In("holding") = {} /\ In("holdingInside") = {} /\ ~HasFree
    BY <1>1 DEF NoCircularWait, In, Progressing
  <2>2. /\ IsFiniteSet(W) /\ Cardinality(W) \in Nat
        /\ MaxOpen \in Nat \ {0}
        /\ Cardinality({}) = 0
    BY InIsFinite, FS_EmptySet, PoolAssumption
  <2>3. Open = Cardinality(W)
    BY <2>1, <2>2 DEF Open
  <2>4. Cardinality(W) = MaxOpen
    BY <1>1, <2>1, <2>2, <2>3 DEF HasFree, PoolWithin
  <2>5. W # {}
    BY <2>2, <2>4
  <2>6. \A c \in W : c \in Callers /\ Nests(c) /\ AtWork(c) /\ c \in CallersOf(kind)
    BY <1>1 DEF LifeInv, TypeOK, PoolTypeOK, In, AtWork
  <2>7. kind \in Programs
    BY <1>1 DEF LifeInv, TypeOK
  <2>8. kind # "server"
    BY <2>5, <2>6, <2>7, CallersOfAre DEF Nests
  <2>9. CASE kind = "worker"
    <3>1. \A c \in W : Kind[c] = "mail"
      BY <2>6, <2>7, <2>9, CallersOfAre DEF Nests, Topics
    <3>2. {c \in W : Kind[c] = "mail"} = W
      BY <3>1
    <3>3. QED
      BY <2>4, <2>9, <3>2 DEF TakenByNesting
  <2>10. CASE kind = "cronjob"
    <3>1. PICK j \in W : W = {j}
      BY <1>1, <2>5, <2>6, <2>10 DEF LifeInv, WorkIsTimely
    <3>2. Cardinality({j}) = 1
      BY FS_Singleton
    <3>3. QED
      BY <2>4, <2>10, <3>1, <3>2 DEF TakenByNesting
  <2>11. QED
    BY <2>7, <2>8, <2>9, <2>10 DEF Programs
<1>2. QED
  BY <1>1, Life, PoolKept, PTL

(* No worker reads a record before the handler of its topic is registered, *)
(* whatever the order of the Invoke functions.                             *)
THEOREM HandlersRegistered == Spec => []RegisteredBeforeConsumed
<1>1. LifeInv => RegisteredBeforeConsumed
  BY DEF LifeInv, WorkIsTimely, RegisteredBeforeConsumed
<1>2. QED
  BY <1>1, Life, PTL

(* No process closes what a call, a handler, a job or a hook that is still *)
(* open has yet to use, however its stop is interleaved with its work.     *)
THEOREM NothingClosedInUse == Spec => []UsedIsOpen
<1>1. ASSUME LifeInv PROVE UsedIsOpen
  <2>1. ASSUME NEW c \in Callers, AtWork(c), NEW h
        PROVE  ~Stopped(h)
    <3>1. down = 0 /\ up \in Nat
      BY <1>1, <2>1 DEF LifeInv, WorkIsTimely, TypeOK
    <3>2. up - down + 1 .. up = {}
      BY <3>1
    <3>3. QED
      BY <3>2 DEF Stopped
  <2>2. ASSUME NEW i \in 1 .. up, ~Stopped(Hooks[i]), NEW h \in Uses[Hooks[i]]
        PROVE  ~Stopped(h)
    <3>1. /\ Len(Hooks) \in Nat
          /\ up \in 0 .. Len(Hooks) /\ down \in 0 .. up /\ kind \in Programs
      BY <1>1, LastHook DEF LifeInv, TypeOK
    <3>2. i \notin up - down + 1 .. up
      BY <2>2 DEF Stopped
    <3>3. SUFFICES ASSUME NEW j \in up - down + 1 .. up, Hooks[j] = h
                   PROVE  FALSE
      BY DEF Stopped
    <3>4. i \in 1 .. Len(Hooks) /\ j \in 1 .. Len(Hooks) /\ i < j
      BY <3>1, <3>2, <3>3, <2>2
    <3>5. Hooks[j] \in Uses[Hooks[i]]
      BY <2>2, <3>3
    <3>6. j < i
      BY <3>1, <3>4, <3>5, HooksUseEarlierOnes
    <3>7. QED
      BY <3>1, <3>4, <3>6
  <2>3. QED
    BY <2>1, <2>2 DEF UsedIsOpen
<1>2. QED
  BY <1>1, Life, PTL
=============================================================================
