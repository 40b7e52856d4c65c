----------------------------- MODULE Application ------------------------------
(***************************************************************************)
(* The life of one process (app.py): run starts the HTTP server, the worker*)
(* task and the statistics task and serves rounds until a signal asks the  *)
(* scheduler to stop; shutdown then stops its parts one by one.            *)
(*                                                                         *)
(* Scheduler, worker and statistics are tasks of one event loop: an action *)
(* is the code between two awaits, and each database call or POST is an    *)
(* await of its own.  What rounds and deliveries are about is the matter of*)
(* Monitor and Outbox; here they only use the database and the clients.    *)
(* The channels of a tick, drained one after the other, are one.           *)
(***************************************************************************)
EXTENDS Integers

CONSTANTS
    CallsFail,       \* whether a database call may raise
    BatchSize,       \* OutboxWorker.batch_size
    MaxRounds,       \* bound: rounds with alerts
    MaxAlerts        \* bound: alerts of a round

ASSUME ApplicationAssumption ==
    /\ CallsFail \in BOOLEAN
    /\ BatchSize \in Nat \ {0} /\ MaxRounds \in Nat /\ MaxAlerts \in Nat

VARIABLES
    stage,       \* run and shutdown: what they wait for
    stop,        \* the scheduler's stop event
    round,       \* the scheduler: "asleep", "probing" or "enqueuing"
    alerts,      \* alerts the round has still to enqueue
    rounds,      \* bound: rounds with alerts so far
    statistics,  \* the statistics task: "none", "running", "cancelled" or "over"
    workerStop,  \* the worker's stop event
    worker,      \* the worker: "none", "asleep", "claiming", "posting", "marking", "over"
    batch,       \* rows the tick has claimed and not finished
    untried,     \* queued rows that no tick has claimed yet
    retried,     \* rows put back for a later attempt
    clients,     \* the transports' HTTP clients: "open" or "closed"
    database,    \* the outbox's connection: "open" or "closed"
    healthy      \* gauge fping_monitor_storage_healthy

scheduler == <<stop, round, alerts, rounds>>
delivery  == <<workerStop, worker, batch, untried, retried>>
resources == <<clients, database>>
vars == <<stage, scheduler, statistics, delivery, resources, healthy>>

\* What run and shutdown wait for: the scheduler, the cancelled statistics
\* task, the worker task, the closing of the clients.
Stages == {"starting", "serving", "statistics", "worker", "clients", "exited"}

Init ==
    /\ stage = "starting"
    /\ stop = FALSE /\ round = "asleep" /\ alerts = 0 /\ rounds = 0
    /\ statistics = "none"
    /\ workerStop = FALSE /\ worker = "none"
    /\ batch = 0 /\ untried = 0 /\ retried = 0
    /\ clients = "open" /\ database = "open" /\ healthy = FALSE

\* Application.run, up to the first round.  Without a channel there is no worker.
Start ==
    /\ stage = "starting"
    /\ stage' = "serving"
    /\ worker' \in {"asleep", "none"}
    /\ statistics' = "running"
    /\ healthy' = TRUE
    /\ UNCHANGED <<scheduler, workerStop, batch, untried, retried, resources>>

\* SIGINT or SIGTERM.
Signal ==
    /\ ~stop
    /\ stop' = TRUE
    /\ UNCHANGED <<stage, round, alerts, rounds, statistics, delivery, resources, healthy>>
-----------------------------------------------------------------------------
(* The scheduler *)

StartRound ==
    /\ stage = "serving" /\ ~stop
    /\ round = "asleep"
    /\ round' = "probing"
    /\ UNCHANGED <<stage, stop, alerts, rounds, statistics, delivery, resources, healthy>>

\* The probe returns, or raises and the round ends without an alert.  Without a
\* channel notifier.send does nothing.
FinishProbing ==
    /\ round = "probing"
    /\ \/ /\ round' = "asleep"
          /\ UNCHANGED <<alerts, rounds>>
       \/ /\ worker # "none" /\ rounds < MaxRounds
          /\ rounds' = rounds + 1
          /\ alerts' \in 1..MaxAlerts
          /\ round' = "enqueuing"
    /\ UNCHANGED <<stage, stop, statistics, delivery, resources, healthy>>

\* Mutant: the round ends before its last enqueue returns.
EnqueueReturnsEarly ==
    /\ round = "enqueuing"
    /\ \/ untried' = untried + 1
       \/ CallsFail /\ UNCHANGED untried
    /\ alerts' = alerts - 1
    /\ round' = "asleep"
    /\ UNCHANGED <<stage, stop, rounds, statistics, workerStop, worker, batch, retried,
                   resources, healthy>>

\* One enqueue returns, or raises and its alert is dropped.
EnqueueReturns ==
    /\ round = "enqueuing"
    /\ \/ untried' = untried + 1
       \/ CallsFail /\ UNCHANGED untried
    /\ alerts' = alerts - 1
    /\ round' = IF alerts = 1 THEN "asleep" ELSE "enqueuing"
    /\ UNCHANGED <<stage, stop, rounds, statistics, workerStop, worker, batch, retried,
                   resources, healthy>>
-----------------------------------------------------------------------------
(* The worker and the statistics *)

StartTick ==
    /\ worker = "asleep" /\ ~workerStop
    /\ worker' = "claiming"
    /\ UNCHANGED <<stage, scheduler, statistics, workerStop, batch, untried, retried,
                   resources, healthy>>

\* The next of n rows of the tick: its POST, or, when it has no attempt left,
\* only the mark that it is dead.
NextOf(n) == IF n = 0 THEN {"asleep"} ELSE {"posting", "marking"}

\* Which due rows, untried and retried, a claim can take; not all of the retried
\* ones need be due.
Claimable ==
    {c \in (0..untried) \X (0..retried) :
        /\ c[1] + c[2] <= BatchSize
        /\ c[1] = untried \/ c[1] + c[2] = BatchSize}

ClaimReturns ==
    /\ worker = "claiming"
    /\ \E c \in Claimable :
         /\ untried' = untried - c[1]
         /\ retried' = retried - c[2]
         /\ batch' = c[1] + c[2]
    /\ worker' \in NextOf(batch')
    /\ UNCHANGED <<stage, scheduler, statistics, workerStop, resources, healthy>>

PostReturns ==
    /\ worker = "posting"
    /\ worker' = "marking"
    /\ UNCHANGED <<stage, scheduler, statistics, workerStop, batch, untried, retried,
                   resources, healthy>>

\* The row is delivered or dead, or pending again.
MarkReturns ==
    /\ worker = "marking"
    /\ batch' = batch - 1
    /\ retried' \in {retried, retried + 1}
    /\ worker' \in NextOf(batch')
    /\ UNCHANGED <<stage, scheduler, statistics, workerStop, untried, resources, healthy>>

\* A database call of the tick raises: run_forever logs it and sleeps.  Rows marked
\* in_flight by then stay so.
TickFails ==
    /\ CallsFail
    /\ \/ worker = "marking" /\ UNCHANGED <<untried, retried>>
       \/ worker = "claiming" /\ \E c \in Claimable :
            \E n \in 0..c[1], m \in 0..c[2] : untried' = untried - n /\ retried' = retried - m
    /\ batch' = 0
    /\ worker' = "asleep"
    /\ UNCHANGED <<stage, scheduler, statistics, workerStop, resources, healthy>>

WorkerEnds ==
    /\ worker = "asleep" /\ workerStop
    /\ worker' = "over"
    /\ UNCHANGED <<stage, scheduler, statistics, workerStop, batch, untried, retried,
                   resources, healthy>>

\* The counts are read between two awaits; a cancelled task reads no more.
PublishStatistics ==
    /\ statistics = "running"
    /\ healthy' \in {TRUE} \cup (IF CallsFail THEN {FALSE} ELSE {})
    /\ UNCHANGED <<stage, scheduler, statistics, delivery, resources>>
-----------------------------------------------------------------------------
(* Application.shutdown *)

\* Mutant: the statistics task is left running.
SchedulerEndsUncancelled ==
    /\ stage = "serving"
    /\ round = "asleep" /\ stop
    /\ stage' = "worker"
    /\ workerStop' = TRUE
    /\ UNCHANGED <<scheduler, statistics, worker, batch, untried, retried, resources,
                   healthy>>

\* run_forever has returned: shutdown cancels the statistics task.
SchedulerEnds ==
    /\ stage = "serving"
    /\ round = "asleep" /\ stop
    /\ stage' = "statistics"
    /\ statistics' = "cancelled"
    /\ UNCHANGED <<scheduler, delivery, resources, healthy>>

\* Mutant: the worker is awaited without being asked to stop.
StatisticsEndUnasked ==
    /\ stage = "statistics"
    /\ statistics' = "over"
    /\ stage' = "worker"
    /\ UNCHANGED <<scheduler, delivery, resources, healthy>>

\* It is over: the worker is asked to stop.
StatisticsEnd ==
    /\ stage = "statistics"
    /\ statistics' = "over"
    /\ stage' = "worker"
    /\ workerStop' = TRUE
    /\ UNCHANGED <<scheduler, worker, batch, untried, retried, resources, healthy>>

\* Mutant: shutdown does not wait for the worker's task.
WorkerAwaitedNot == stage = "worker"

\* shutdown waits for the worker's task.
WorkerAwaited == stage = "worker" /\ worker \in {"none", "over"}

\* The worker's task is awaited; the HTTP server stops without an await.
WorkerStopped ==
    /\ WorkerAwaited
    /\ stage' = "clients"
    /\ UNCHANGED <<scheduler, statistics, delivery, resources, healthy>>

\* The clients are closed one by one, whether or not closing raises, then the
\* database.
Close ==
    /\ stage = "clients"
    /\ \/ clients = "open" /\ clients' = "closed" /\ UNCHANGED <<stage, database, healthy>>
       \/ /\ clients = "closed"
          /\ database' = "closed"
          /\ healthy' = FALSE
          /\ stage' = "exited"
          /\ UNCHANGED clients
    /\ UNCHANGED <<scheduler, statistics, delivery>>
-----------------------------------------------------------------------------
Scheduler == StartRound \/ FinishProbing \/ EnqueueReturns

Worker ==
    StartTick \/ ClaimReturns \/ PostReturns \/ MarkReturns \/ TickFails \/ WorkerEnds

Shutdown == SchedulerEnds \/ StatisticsEnd \/ WorkerStopped \/ Close

Next == Start \/ Signal \/ Scheduler \/ Worker \/ PublishStatistics \/ Shutdown

(***************************************************************************)
(* The event loop runs what is ready, and what is awaited returns: a probe *)
(* has a timeout, a database call is local, a transport's attempts are     *)
(* bounded.  The worker's poll competes with the stop it waits for.        *)
(***************************************************************************)
Fairness ==
    /\ WF_vars(Start)
    /\ WF_vars(FinishProbing \/ EnqueueReturns)
    /\ WF_vars(Worker)
    /\ WF_vars(Shutdown)

Spec == Init /\ [][Next]_vars /\ Fairness
-----------------------------------------------------------------------------
(* Properties *)

\* The type invariant.
TypeOK ==
    /\ stage \in Stages
    /\ stop \in BOOLEAN /\ workerStop \in BOOLEAN /\ healthy \in BOOLEAN
    /\ round \in {"asleep", "probing", "enqueuing"}
    /\ alerts \in 0..MaxAlerts /\ rounds \in 0..MaxRounds
    /\ statistics \in {"none", "running", "cancelled", "over"}
    /\ worker \in {"none", "asleep", "claiming", "posting", "marking", "over"}
    /\ batch \in 0..BatchSize /\ untried \in Nat /\ retried \in Nat
    /\ clients \in {"open", "closed"} /\ database \in {"open", "closed"}
    /\ (round = "enqueuing") <=> (alerts > 0)
    /\ (worker \in {"posting", "marking"}) <=> (batch > 0)

(***************************************************************************)
(* What shutdown closes is in nobody's hands: when the clients close no    *)
(* transport is posting, when the database closes no enqueue, claim, mark  *)
(* or statistics is under way, and none starts later (app.py:124-129): the *)
(* tick a stop falls into finishes what it claimed.                        *)
(***************************************************************************)
NothingAfterClose ==
    /\ clients = "closed" => worker # "posting"
    /\ database = "closed" =>
         /\ round # "enqueuing"
         /\ worker \notin {"claiming", "marking"}
         /\ statistics # "running"

(***************************************************************************)
(* Once the database is closed the gauge says so: no late statistics turns *)
(* it back.                                                                *)
(***************************************************************************)
ClosedIsUnhealthy == [][database = "closed" => healthy' = FALSE]_vars

(***************************************************************************)
(* A signal ends the process, whatever round and tick it falls into.       *)
(***************************************************************************)
ShutdownEnds == stop ~> (stage = "exited")

(***************************************************************************)
(* The comment at app.py:127: the worker is stopped after the scheduler so *)
(* that it still consumes what was queued.  Every row was tried at exit.   *)
(***************************************************************************)
QueueDrained == stage = "exited" => untried = 0
=============================================================================
