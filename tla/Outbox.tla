------------------------------- MODULE Outbox --------------------------------
(***************************************************************************)
(* The durable outbox (storage.py) and the worker that drains it           *)
(* (outbox.py).  An event is one row of table outbox and, for each channel,*)
(* one row of outbox_delivery; the worker claims the due rows of a channel,*)
(* hands each to the channel's transport and records the outcome.          *)
(*                                                                         *)
(* The connection is in autocommit mode, so every INSERT is a step that a  *)
(* crash can follow; _lock keeps the other database calls out until the    *)
(* enqueue is over.  Times are reduced to whether next_attempt_at has      *)
(* passed, and ORDER BY next_attempt_at LIMIT n to any n due rows.         *)
(*                                                                         *)
(* sends, received and refused are histories the code does not keep.       *)
(***************************************************************************)
EXTENDS Integers, FiniteSets, FiniteSetsExt

CONSTANTS
    Event,           \* the alerts the scheduler may hand over
    Channel,         \* every channel a configuration may name
    NoEvent,         \* no enqueue is running
    NoDelivery,      \* the worker handles no row
    MaxEventAttempts,\* config max_event_attempts
    BatchSize,       \* OutboxWorker.batch_size
    StorageFails,    \* whether a database call of a running process may raise
    Reconfigures,    \* whether the channels may differ from start to start
    MaxRestarts      \* bound: crashes and orderly restarts

ASSUME OutboxAssumption ==
    /\ IsFiniteSet(Event) /\ IsFiniteSet(Channel)
    /\ NoEvent \notin Event /\ NoDelivery \notin Event \X Channel
    /\ MaxEventAttempts \in Nat \ {0} /\ BatchSize \in Nat \ {0}
    /\ {StorageFails, Reconfigures} \subseteq BOOLEAN /\ MaxRestarts \in Nat

Delivery == Event \X Channel

VARIABLES
    stored,    \* table outbox: the events it holds
    row,       \* table outbox_delivery: status, "none" for no row
    attempts,  \* table outbox_delivery: attempts
    due,       \* table outbox_delivery: whether next_attempt_at has passed
    active,    \* the channels of this process, each with a transport
    enqueuing, \* the event an enqueue is writing
    worker,    \* the worker task: "asleep", "draining" or "stopped"
    stopping,  \* shutdown has asked the worker to stop
    scan,      \* drain_once: channels this tick has still to claim
    batch,     \* drain_once: claimed rows not handled yet
    current,   \* _deliver: the row in hand
    call,      \* _deliver: its transport.send, "none" when there is none
    sends,     \* history: transport.send calls
    received,  \* history: deliveries that reached the receiver at least once
    refused,   \* history: deliveries a transport gave up as not retryable
    restarts   \* history: crashes and orderly restarts so far

tables   == <<stored, row, attempts, due>>
task     == <<worker, scan, batch, current, call>>
history  == <<sends, received, refused, restarts>>
vars     == <<tables, active, enqueuing, stopping, task, history>>

Terminal == {"delivered", "dead"}

Outcome == {"accepted", "refused", "exhausted"}

\* build_channels and _build_transports pick the channels the configuration
\* enables, and agree on them.  The configuration is read at the start only.
ChannelsOf(configured) == IF Reconfigures THEN SUBSET configured ELSE {configured}

Init ==
    /\ stored = {}
    /\ row = [d \in Delivery |-> "none"]
    /\ attempts = [d \in Delivery |-> 0]
    /\ due = [d \in Delivery |-> FALSE]
    /\ active \in ChannelsOf(Channel)
    /\ enqueuing = NoEvent
    /\ worker = "asleep" /\ stopping = FALSE
    /\ scan = {} /\ batch = {} /\ current = NoDelivery /\ call = "none"
    /\ sends = [d \in Delivery |-> 0]
    /\ received = {} /\ refused = {} /\ restarts = 0
-----------------------------------------------------------------------------
(* Enqueue: the thread OutboxNotifier.send waits for *)

\* INSERT OR IGNORE INTO outbox.  A stored event is left alone (no change), and
\* without a channel _NullOutboxNotifier stores nothing.
Enqueue(e) ==
    /\ ~stopping /\ active # {}
    /\ enqueuing = NoEvent
    /\ e \notin stored
    /\ stored' = stored \cup {e}
    /\ enqueuing' = e
    /\ UNCHANGED <<row, attempts, due, active, stopping, task, history>>

\* The channels whose row the enqueue has still to insert.
Missing(e) == {c \in active : row[<<e, c>>] = "none"}

InsertDelivery(c) ==
    /\ enqueuing # NoEvent
    /\ c \in Missing(enqueuing)
    /\ row' = [row EXCEPT ![<<enqueuing, c>>] = "pending"]
    /\ due' = [due EXCEPT ![<<enqueuing, c>>] = TRUE]
    /\ enqueuing' = IF Missing(enqueuing) = {c} THEN NoEvent ELSE enqueuing
    /\ UNCHANGED <<stored, attempts, active, stopping, task, history>>

\* An INSERT of a delivery row raises: the scheduler logs it and forgets it.
EnqueueFails ==
    /\ StorageFails
    /\ enqueuing # NoEvent
    /\ enqueuing' = NoEvent
    /\ UNCHANGED <<tables, active, stopping, task, history>>
-----------------------------------------------------------------------------
(* The worker *)

\* Without a channel the worker is a _NullOutboxWorker, which does nothing.
StartTick ==
    /\ worker = "asleep" /\ ~stopping /\ active # {}
    /\ worker' = "draining"
    /\ scan' = active
    /\ UNCHANGED <<tables, active, enqueuing, stopping, batch, current, call,
                   history>>

Due(c) == {d \in Delivery : d[2] = c /\ row[d] = "pending" /\ due[d]}

LimitOf(S) == IF Cardinality(S) < BatchSize THEN Cardinality(S) ELSE BatchSize

\* Mutant: a claim reads rows without marking them.
InFlightUnmarked(S) == row

\* The rows of S become in_flight.
InFlight(S) == [d \in Delivery |-> IF d \in S THEN "in_flight" ELSE row[d]]

Claim(c) ==
    /\ worker = "draining" /\ batch = {} /\ current = NoDelivery
    /\ c \in scan
    /\ enqueuing = NoEvent
    /\ scan' = scan \ {c}
    /\ \E S \in kSubset(LimitOf(Due(c)), Due(c)) :
         /\ row' = InFlight(S)
         /\ batch' = S
    /\ UNCHANGED <<stored, attempts, due, active, enqueuing, worker, stopping,
                   current, call, history>>

\* An exception out of drain_once: the tick is over, what it held is dropped.
AbortTick ==
    /\ worker' = "asleep"
    /\ scan' = {} /\ batch' = {} /\ current' = NoDelivery /\ call' = "none"

\* The claim marks rows one by one and raises on the way.
ClaimFails(c) ==
    /\ StorageFails
    /\ worker = "draining" /\ batch = {} /\ current = NoDelivery
    /\ c \in scan
    /\ enqueuing = NoEvent
    /\ \E S \in SUBSET Due(c) : Cardinality(S) <= BatchSize /\ row' = InFlight(S)
    /\ AbortTick
    /\ UNCHANGED <<stored, attempts, due, active, enqueuing, stopping, history>>

\* Mutant: an exhausted row is noticed one attempt late.
IsExhaustedLate(n) == n > MaxEventAttempts

IsExhausted(n) == n >= MaxEventAttempts

\* _deliver hands the row to its transport,
CallTransport(d) ==
    /\ worker = "draining" /\ current = NoDelivery
    /\ d \in batch
    /\ ~IsExhausted(attempts[d])
    /\ current' = d
    /\ batch' = batch \ {d}
    /\ call' = "posting"
    /\ sends' = [sends EXCEPT ![d] = @ + 1]
    /\ UNCHANGED <<tables, active, enqueuing, worker, stopping, scan, received,
                   refused, restarts>>

MarkDead(d) ==
    /\ row' = [row EXCEPT ![d] = "dead"]
    /\ attempts' = [attempts EXCEPT ![d] = @ + 1]
    /\ UNCHANGED due

\* or gives it up without a call.
GiveUp(d) ==
    /\ worker = "draining" /\ current = NoDelivery
    /\ d \in batch
    /\ IsExhausted(attempts[d])
    /\ enqueuing = NoEvent
    /\ MarkDead(d)
    /\ batch' = batch \ {d}
    /\ UNCHANGED <<stored, active, enqueuing, worker, stopping, scan, current, call,
                   history>>

(***************************************************************************)
(* transport.send returns, raises NotificationFailed (a placeholder token  *)
(* included), or raises RetriesExhausted or anything else: the contract of *)
(* TransportContract, which Transport implements.  Even when it raises the *)
(* receiver may have got a POST whose answer was lost.                     *)
(***************************************************************************)
TransportAnswers(outcome) ==
    /\ call = "posting"
    /\ call' = outcome
    /\ received' \in IF outcome = "accepted" THEN {received \cup {current}}
                     ELSE {received, received \cup {current}}
    /\ refused' = IF outcome = "refused" THEN refused \cup {current} ELSE refused
    /\ UNCHANGED <<tables, active, enqueuing, stopping, worker, scan, batch,
                   current, sends, restarts>>

MarkDelivered(d) ==
    /\ row' = [row EXCEPT ![d] = "delivered"]
    /\ UNCHANGED <<attempts, due>>

\* Mutant: a retry forgets to count itself.
MarkRetryUncounted(d) ==
    /\ row' = [row EXCEPT ![d] = "pending"]
    /\ due' = [due EXCEPT ![d] = FALSE]
    /\ UNCHANGED attempts

MarkRetry(d) ==
    /\ row' = [row EXCEPT ![d] = "pending"]
    /\ attempts' = [attempts EXCEPT ![d] = @ + 1]
    /\ due' = [due EXCEPT ![d] = FALSE]

\* Mutant: the outcome of an exhausted call is taken for a success.
MarkOptimistic ==
    IF call = "refused" THEN MarkDead(current) ELSE MarkDelivered(current)

\* Mutant: an exhausted call is logged, and its row left as it is.
MarkForgetsRetry ==
    IF call = "exhausted" THEN UNCHANGED <<row, attempts, due>>
    ELSE IF call = "refused" THEN MarkDead(current) ELSE MarkDelivered(current)

\* Mutant: an exhausted call is given up as if it had been refused.
MarkImpatient ==
    IF call = "accepted" THEN MarkDelivered(current) ELSE MarkDead(current)

Mark ==
    CASE call = "accepted"  -> MarkDelivered(current)
      [] call = "refused"   -> MarkDead(current)
      [] call = "exhausted" -> MarkRetry(current)

RecordOutcome ==
    /\ call \in Outcome
    /\ enqueuing = NoEvent
    /\ Mark
    /\ current' = NoDelivery
    /\ call' = "none"
    /\ UNCHANGED <<stored, active, enqueuing, worker, stopping, scan, batch, history>>

\* mark_* raises, after a transport call or on giving up.
MarkFails ==
    /\ StorageFails
    /\ enqueuing = NoEvent
    /\ call \in Outcome \/ \E d \in batch : current = NoDelivery /\ IsExhausted(attempts[d])
    /\ AbortTick
    /\ UNCHANGED <<tables, active, enqueuing, stopping, history>>

EndTick ==
    /\ worker = "draining"
    /\ scan = {} /\ batch = {} /\ current = NoDelivery
    /\ worker' = "asleep"
    /\ UNCHANGED <<tables, active, enqueuing, stopping, scan, batch, current, call,
                   history>>

\* The back-off of a row is over.
BackoffEnds(d) ==
    /\ row[d] = "pending" /\ ~due[d]
    /\ due' = [due EXCEPT ![d] = TRUE]
    /\ UNCHANGED <<stored, row, attempts, active, enqueuing, stopping, task, history>>
-----------------------------------------------------------------------------
(* Shutdown, crash and restart *)

\* Application.shutdown stops the scheduler first, so no enqueue is running.
RequestStop ==
    /\ ~stopping
    /\ enqueuing = NoEvent
    /\ stopping' = TRUE
    /\ UNCHANGED <<tables, active, enqueuing, task, history>>

\* run_forever leaves its loop; a tick that has begun runs to its end.
WorkerStops ==
    /\ worker = "asleep" /\ stopping
    /\ worker' = "stopped"
    /\ UNCHANGED <<tables, active, enqueuing, stopping, scan, batch, current, call,
                   history>>

\* Mutant: the restart also revives what was given up.
ReclaimedAll ==
    [d \in Delivery |-> IF row[d] \in {"in_flight", "dead"} THEN "pending" ELSE row[d]]

\* Mutant: the restart reclaims nothing.
ReclaimedNone == row

\* Mutant: the restart throws the claimed rows away.
ReclaimedDropped ==
    [d \in Delivery |-> IF row[d] = "in_flight" THEN "none" ELSE row[d]]

\* reclaim_in_flight
Reclaimed ==
    [d \in Delivery |-> IF row[d] = "in_flight" THEN "pending" ELSE row[d]]

\* The process ends, by a crash or after an orderly stop, and a new one opens
\* the same database, perhaps with other channels.
Restart ==
    /\ restarts < MaxRestarts
    /\ restarts' = restarts + 1
    /\ row' = Reclaimed
    /\ active' \in ChannelsOf(Channel)
    /\ enqueuing' = NoEvent
    /\ stopping' = FALSE
    /\ AbortTick
    /\ UNCHANGED <<stored, attempts, due, sends, received, refused>>
-----------------------------------------------------------------------------
Worker ==
    \/ StartTick \/ EndTick
    \/ \E c \in Channel : Claim(c) \/ ClaimFails(c)
    \/ \E d \in Delivery : CallTransport(d) \/ GiveUp(d)
    \/ \E outcome \in Outcome : TransportAnswers(outcome)
    \/ RecordOutcome \/ MarkFails

Next ==
    \/ \E e \in Event : Enqueue(e)
    \/ \E c \in Channel : InsertDelivery(c)
    \/ EnqueueFails
    \/ Worker
    \/ \E d \in Delivery : BackoffEnds(d)
    \/ RequestStop \/ WorkerStops \/ Restart

Spec == Init /\ [][Next]_vars

(***************************************************************************)
(* The worker task runs until it is stopped, its transports answer (they   *)
(* post under a timeout and retry a bounded number of times), an enqueue   *)
(* that has begun runs on, and time passes.                                *)
(***************************************************************************)
Fairness ==
    /\ WF_vars(Worker)
    /\ WF_vars(WorkerStops)
    /\ WF_vars(\E c \in Channel : InsertDelivery(c))
    /\ \A d \in Delivery : WF_vars(BackoffEnds(d))

FairSpec == Spec /\ Fairness
-----------------------------------------------------------------------------
(* Properties *)

\* The type invariant, with the rows the worker may hold.
TypeOK ==
    /\ stored \subseteq Event
    /\ row \in [Delivery -> {"none", "pending", "in_flight"} \cup Terminal]
    /\ attempts \in [Delivery -> 0..MaxEventAttempts + 1]
    /\ due \in [Delivery -> BOOLEAN]
    /\ active \subseteq Channel
    /\ enqueuing \in stored \cup {NoEvent}
    /\ worker \in {"asleep", "draining", "stopped"}
    /\ stopping \in BOOLEAN
    /\ scan \subseteq active /\ batch \subseteq Event \X active
    /\ current \in (Event \X active) \cup {NoDelivery}
    /\ call \in Outcome \cup {"none", "posting"}
    /\ (call = "none") <=> (current = NoDelivery)
    /\ worker # "draining" => scan = {} /\ batch = {} /\ current = NoDelivery
    /\ sends \in [Delivery -> Nat] /\ restarts \in 0..MaxRestarts
    /\ received \subseteq Delivery /\ refused \subseteq Delivery

(***************************************************************************)
(* The worker only touches rows it has claimed: what it holds is in_flight *)
(* in the database, and its batch never holds the row in hand.             *)
(***************************************************************************)
Held == batch \cup (IF current = NoDelivery THEN {} ELSE {current})

HeldIsInFlight ==
    /\ \A d \in Held : row[d] = "in_flight"
    /\ current \notin batch

(***************************************************************************)
(* storage.py:16: in_flight means that the worker is on the row.  True as  *)
(* long as no database call raises; one that does strands its rows until   *)
(* the next restart.                                                       *)
(***************************************************************************)
InFlightIsHeld == \A d \in Delivery : row[d] = "in_flight" => d \in Held

(***************************************************************************)
(* A delivery that ended stays as it ended, over restarts too.             *)
(***************************************************************************)
TerminalIsFinal ==
    [][\A d \in Delivery : row[d] \in Terminal =>
         row'[d] = row[d] /\ attempts'[d] = attempts[d]]_vars

(***************************************************************************)
(* "delivered" is never claimed of an alert the receiver did not get.      *)
(***************************************************************************)
DeliveredWasReceived ==
    \A d \in Delivery : row[d] = "delivered" => d \in received

(***************************************************************************)
(* A row is given up only if its transport refused it as not retryable, or *)
(* after its full budget of calls.                                         *)
(***************************************************************************)
DeadHasCause ==
    \A d \in Delivery : row[d] = "dead" /\ d \notin refused =>
        attempts[d] = MaxEventAttempts + 1 /\ sends[d] >= MaxEventAttempts

(***************************************************************************)
(* config.py:94: max_event_attempts bounds the ticks of an event.  A call  *)
(* whose outcome was lost with the process is not counted, so each restart *)
(* can add one.                                                            *)
(***************************************************************************)
SendsBounded ==
    \A d \in Delivery : sends[d] <= MaxEventAttempts + restarts

(***************************************************************************)
(* The outbox keeps its promise: through every claim, lost answer, raising *)
(* database call, restart and change of the channels, a delivery it queued *)
(* is owed until it ends, and ends at most once.                           *)
(***************************************************************************)
StatusOf(d) ==
    CASE row[d] = "none" -> "unknown"
      [] row[d] \in {"pending", "in_flight"} -> "owed"
      [] row[d] \in Terminal -> row[d]

Promise == INSTANCE AtLeastOnce WITH status <- [d \in Delivery |-> StatusOf(d)]

KeepsPromise == Promise!Spec

(***************************************************************************)
(* While an event is in the outbox every channel has a row for it, but for *)
(* the enqueue that is running, if the channels never change: the          *)
(* docstring at storage.py:158 promises one transaction.                   *)
(***************************************************************************)
AllChannelsQueued ==
    \A e \in stored : e # enqueuing => Missing(e) = {}

(***************************************************************************)
(* Every queued delivery ends: crashes, lost answers and back-offs only    *)
(* put it off, unless the process is stopped and not started again, or the *)
(* channel is not configured, whose rows wait until it is again.           *)
(***************************************************************************)
EveryDeliveryEnds ==
    []<>(worker # "stopped") =>
        \A d \in Delivery :
            (row[d] = "pending") ~> (row[d] \in Terminal \/ d[2] \notin active)
=============================================================================
