# fping_mon: formal specification

fping_mon (package `fping_monitor`) pings a list of hosts with `fping`, confirms
which are DOWN or UP, and sends `host_down` / `host_recovered` alerts through a
durable SQLite outbox to a webhook and to Cuckoo endpoints. This directory holds
TLA+ modules of that program, TLC configurations that check them on small
instances, and TLAPS proofs for every size of the system.

Paths such as `scheduler.py:184` are relative to `src/fping_monitor/`.

## 1. The system

| Component | State it keeps | Operations | Talks to |
| --- | --- | --- | --- |
| Host state machine (`state.py`) | per host: status, two streak counters, open incident | apply a result, build the alert of a transition | called by StateManager |
| StateManager (`state.py`) | `_states`, `_recently_removed` with removal times | `upsert_targets`, `apply`, `all_states` | Scheduler, Application |
| Scheduler (`scheduler.py`) | mass failure window, stop event, round count | `run_forever`, `probe_once`, back-fill | probe threads, StateManager, OutboxNotifier, metrics |
| fping probe (`probes.py`) | none | run fping, parse its output | subprocess |
| Outbox (`storage.py`) | tables `outbox`, `outbox_delivery` on disk | `enqueue`, `claim_due_for_channel`, `mark_*`, `reclaim_in_flight` | called from threads, one lock |
| Outbox adapter and worker (`outbox.py`) | worker task, stop event | `OutboxNotifier.send`, `drain_once`, `_deliver`, `stop` | Outbox, transports |
| Transports (`notifications.py`, `cuckoo.py`) | HTTP client | `send` with its own HTTP retries | receiver |
| Application (`app.py`, `__main__.py`) | the wiring, the statistics task | `bootstrap`, `run`, `reload_config`, `shutdown`, signals | all of the above |
| Configuration (`config.py`) | none | `load_config`, target expansion | Application |
| Metrics and HTTP endpoint (`metrics.py`, `api.py`) | gauges and counters | update, `/metrics`, `/readyz` | everyone writes, nobody reads back |

Everything runs in one asyncio event loop; fping and every database call run in
threads the loop waits for. Alerts travel

    probe results -> StateManager.apply -> Scheduler (suppress / forward / back-fill)
      -> OutboxNotifier.send -> tables -> OutboxWorker -> transport -> receiver

Two processes interleave: the scheduler's rounds and the worker's ticks. They
meet only in the database. A SIGHUP reload rewrites the target list at any
`await` of either. Host states live in memory and are lost with the process; the
outbox survives it.

### What is hard about it

* A round is not atomic: between its awaits a reload removes, re-adds or drops
  hosts whose results or alerts are under way.
* A mass failure suppresses `host_down`; whether a host is announced later
  depends on the back-fill of a later round and on what reloads did meanwhile.
* Enqueue is several autocommitted statements, and it may fail; the round goes on.
* A crash may come after a POST was received and before that was recorded.
* Retries are nested (HTTP attempts in a transport call, calls in an event's
  budget), with an exception hierarchy deciding between retry and dead letter.
* An exception in the worker's tick abandons what the tick had claimed.
* One text report of fping stands for many hosts: a line may be missing, repeated
  or about somebody else, and the exit code may contradict it.
* Ids come from the configuration and from its expansion, and everything else is
  keyed by them.
* The gauges are written by three tasks at different moments of a round.

`PROJECT.json` lists every such hazard at its line with the properties that would
catch it, or the reason why none does yet.

### What makes each component correct

* Host state machine: the status is the outcome that last reached its threshold
  of consecutive results; alerts alternate and share incidents in pairs.
* Scheduler: alerts are unique and ordered, incidents held are announced,
  suppression only delays, and a send that fails takes no other alert along.
* Outbox and worker: only claimed rows are touched; "delivered" and "dead" are
  true, final and reached in the end; the number of calls is bounded.
* Transport: bounded attempts, and a verdict the worker can trust.
* Application: a stop finds nobody using what it closes, and it ends.
* The whole: what the monitor believes it announced is in the tables, once and in
  order, through crashes that keep the tables and lose the belief.
* fping probe: whatever fping prints and however it ends, a host that answered is
  up and no other is.
* Configuration: a target list is refused exactly if some id would be given twice
  or an item is malformed or too large.
* Metrics: who is alerted and looks at the gauges sees the same.

## 2. Modules

| Module | Models | Role |
| --- | --- | --- |
| `HostState` | `HostState`, `_apply_one`, `_next_status`, `_maybe_build_event` | pure operators |
| `HostStateProofs` | | lemmas about them, for `MonitorProofs` and `HostHistoryProofs` |
| `TargetList` | `_parse_targets`, `_parse_address`, `_expand_cidr` | pure operators |
| `FpingProbe` | `probe_targets`, `parse_fping_output` | pure operators |
| `HostHistory` | one host of one configuration under all runs of fping | checks `TargetList`, `FpingProbe` and `HostState` against references without ids seen so far and without counters |
| `HostHistoryProofs` | | TLAPS proofs about `HostHistory`, and so about the list and the probe |
| `Monitor` | Scheduler, StateManager, `reload_config`, `bootstrap` | state machine over `HostState` |
| `IncidentLedger` | what the receiver may rely on: open once, close once | abstract specification, implemented by `Monitor` |
| `MonitorProofs` | | TLAPS proofs about `Monitor` |
| `Telemetry` | `metrics.py` as the scheduler, `bootstrap` and `reload_config` use it | `Monitor` with its gauges |
| `TelemetryProofs` | | TLAPS proofs about `Telemetry`, over those about `Monitor` |
| `Outbox` | `storage.py`, `OutboxNotifier`, `OutboxWorker`, `build_channels` | state machine |
| `AtLeastOnce` | what the outbox promises of a delivery | abstract specification, implemented by `Outbox` |
| `OutboxProofs` | | TLAPS proofs about `Outbox` |
| `Transport` | `WebhookNotifier.send`, `CuckooNotifier.send`, the `except` clauses of `_deliver` | state machine |
| `TransportContract` | what the worker assumes of one transport call | abstract specification, implemented by `Transport`; `Outbox!TransportAnswers` is its step |
| `TransportProofs` | | TLAPS proofs about `Transport` |
| `Pipeline` | one process with both | composition of `Monitor` and `Outbox` |
| `PipelineProofs` | | TLAPS proofs about `Pipeline`, over those about its two parts |
| `Application` | `Application.run` and `shutdown`, the signals, the statistics task, and the awaits of rounds and ticks | state machine |
| `ApplicationProofs` | | TLAPS proofs about `Application` |
| `MCHostHistory` | | target lists and reports for TLC |
| `MCMonitor`, `MCTelemetry`, `MCOutbox` | | symmetry sets for TLC |

Definitions commented `Mutant:` are not part of the model. They are plausible
bugs; putting one in place of the definition it precedes breaks the property
`PROJECT.json` pairs it with.

### TargetList, FpingProbe and HostHistory

A configuration is a sequence of items; `ParseTargets` folds `AddItem` over it, as
the loop of `_parse_targets` does, and one bad item refuses it all. An address is
a number of `Width` bits for the 32 of IPv4, and the rules at the borders are the
code's own: networks of up to four addresses keep all of them, an item with a
single address keeps its id. The suffix of a generated id is the address modulo
`SuffixSpan`, for the last two octets, so that two addresses of a large item may
share one. Item ids are sequences, so that an item can be called what
another one's expansion generates.

`ProbeTargets` is one batch of `probe_targets`: unsafe addresses, a timeout, a
missing binary, or a report of lines with an exit code. `HostHistory` lets
fping produce every report of up to `MaxLines` lines about the addresses of the
batch or a stranger, with every class of exit code, and follows one target of the
list through `MaxRounds` rounds. Lines the regular expression rejects are left
out (the parser skips them), and so are latencies and the labels of targets.

### Monitor

An action is the code from one await to the next.

| Action | Code |
| --- | --- |
| `StartRound` | `probe_once` up to the first `to_thread` |
| `ProbeRaises` | an exception of the probe, caught by `run_forever` |
| `FinishProbing` | `apply`, the mass failure test, suppression, up to the first `notifier.send` |
| `SendNext` | a send that returns or raises, up to the next send; after the last one the back-fill is set up, or the round ends |
| `Reload` | `reload_config`, that is `upsert_targets` on a new list |
| `GraceEnds` | 300 s of wall clock time pass for a removed host |
| `Restart` | a crash at any point, then `bootstrap` with any target list |

`place` says which table holds a host, `hs` its `HostState`, `queue` the alerts
the round has still to send, `closing` that the round ended a mass failure
window. `sent[h]` is a history: every alert handed to the notifier, in order,
and whether the enqueue succeeded. Incidents are uuids in the code; here an
incident is the position its first alert takes in `sent[h]`, which is what makes
"fresh" provable instead of assumed.

Abstractions, all recorded in the module:

* The counters saturate at their thresholds (they are compared by `>=` only).
* All batches of a round are one. Results are applied after the last batch.
* Alerts of a round are sent in any order (the code uses dictionary order), and
  the incidents of a back-fill are allocated together rather than each before its
  send: nothing reads them between.
* Suppressed iterations of the forwarding loop happen before the first send:
  what they write is read by no other coroutine before the round ends.
* `_mass_failure_pending_down` is written but never read, so it is left out.
  Metrics and rounds over an empty target list are left to `Telemetry`.
* The configured minimum of 5 hosts for a mass failure is the constant `MassMin`,
  so that small instances meet mass failures; `MonitorForgotten.cfg` uses 5.

### Telemetry

Each action is the action of `Monitor` with the metric updates on its way: the
gauges of the round in progress, the loaded targets, the mass failure, and
`host_up` of every target, which has no sample (`NoSample`) before its first
round. `EmptyRound` is the round over an empty list, which only touches metrics.
`TProbeRaises` passes the end of the round by, which leaves the in-progress gauge
as it was.

### Outbox

A row of `outbox_delivery` is a pair of event and channel. Every autocommitted
INSERT is a step (`Enqueue`, then one `InsertDelivery` per channel); the storage
lock keeps other database calls out until the enqueue is over, a crash or an
error may come in between. A claim is one step because a crash half-way leaves
rows in_flight that `reclaim_in_flight` makes pending again, as they were; an
*exception* half-way is different and is `ClaimFails`. `next_attempt_at` is
reduced to whether it has passed, and the ordered `LIMIT` to any set of due rows
of that size. `Restart` is a crash or the start after an orderly stop; with
`Reconfigures`, it may find other channels (`active`): rows of a channel that is gone
stay as they are, unclaimed, until it comes back. `StatusOf` maps rows to the
states of `AtLeastOnce`.
Durability is that of a process crash: with `synchronous=NORMAL` a power failure
may lose the last transactions, which is not modelled.

### Pipeline

`Monitor` and `Outbox` are INSTANCEd over one set of variables. `BeginSend` is the
thread of `notifier.send` inserting the event; the round waits (`Monitor!Send` does
not happen) until the last `InsertDelivery` of that event. The storage lock keeps the
worker out of the database meanwhile, while its POSTs and the reloads go on. A `Restart` takes both: the
monitor's memory is gone, and an event half inserted stays so. `issued` numbers
the events in the order of their INSERTs and keeps their alerts, the content of
table `outbox`. Shutdown asks the worker to stop after the last round.

### Transport

Status codes are the constants of a run, chosen at the borders of the classes
the code tells apart. The delay is a stage without length. `_compute_backoff`
cannot return the negative value that leaves the loop early, because
`config.py` rejects a maximum below 1; that branch is not modelled.

### Application

`Monitor` and `Outbox` say what rounds and deliveries do; `Application` says only
what they wait for, so that a stop can fall into each of their awaits: `round`
is a probe or an enqueue, `worker` a claim, a POST or a mark. `stage` is the
await `run` and `shutdown` are at.

| Action | Code |
| --- | --- |
| `Start` | `run` up to the scheduler's first round; with no channel, `_NullOutboxWorker` |
| `Signal` | `_handle_signal` for SIGINT and SIGTERM, at any time |
| `StartRound`, `FinishProbing`, `EnqueueReturns` | `Scheduler.run_forever`, awaits only |
| `StartTick`, `ClaimReturns`, `PostReturns`, `MarkReturns`, `TickFails`, `WorkerEnds` | `OutboxWorker.run_forever`, awaits only |
| `PublishStatistics` | one turn of `_publish_outbox_stats`, which has no await inside |
| `SchedulerEnds`, `StatisticsEnd`, `WorkerStopped`, `Close` | `shutdown`, between its awaits |

The channels of a tick are one, and rows are counted instead of named: those no
claim has taken yet (`untried`) and those put back for a later attempt
(`retried`). HTTP requests, reloads and metrics other than the storage gauge are
left out; none of them takes part in a stop.

## 3. What is checked

| Run | Instance | Shows |
| --- | --- | --- |
| `host_history` | 3 failures, 2 successes; 16 addresses; about 500 target lists; for 5 of them 8 rounds with every report of 2 lines | the list meets its reference; status = last confirmed streak of what fping reported; alerts alternate |
| `probe_shared` | the same | finding 5 |
| `monitor_faults` | 2 hosts, thresholds 1, every fault on, with gauges | types, unique alerts, recoveries after their host_down, held incidents announced, alerts agree with the host when handed over and with the gauges, the number of targets is shown |
| `monitor_service` | 3 hosts (one removable), thresholds 1 and 2, no faults, fairness | no silent DOWN outside a mass failure, none announced within one, suppressed hosts are announced in the end, no open incident is forgotten, `IncidentLedger` is implemented |
| `monitor_orphan` | 1 host, enqueue may fail | finding 1 |
| `monitor_forgotten` | 5 hosts, one removable | finding 2 |
| `outbox_faults` | 2 events, 1 channel that comes and goes, batches of 2, raising database calls, 2 restarts | claimed rows only; delivered and dead are true and final; calls bounded; `AtLeastOnce` is implemented |
| `outbox_torn` | 1 event, 2 channels, 1 restart | finding 3 |
| `pipeline` | 1 host, 1 channel that comes and goes, 3 events, 1 restart, fairness | what is announced is queued once, in order and in full; no stranded row; every delivery ends; an incident that lasts is heard of |
| `transport` | 13 codes, 3 attempts, both notifiers, every kind of token | attempts bounded, refused only on evidence, `TransportContract` is implemented |
| `application` | 2 rounds of up to 2 alerts, batches of 2, raising database calls, with or without a channel | nobody uses what shutdown closes; the storage gauge tells the truth; a stop ends the process |
| `application_undrained` | 1 alert, no failure | finding 4 |

Bounds, and why they are enough:

* `MaxAlerts` guards only transitions to DOWN, which must leave room for the recovery
  too, so a recovery or a send is never cut off. With 4 (the runs without restarts) a
  second incident follows a closed one. With 3 (the others) it follows one that a
  restart or an expired grace forgot: the case where the second meets what the first
  left behind. The theorems hold for every bound.
* Four bits of address have networks on both sides of each rule (1, 2, 4, 8
  and 16 addresses), suffixes that collide (`SuffixSpan = 8`) and items on both
  sides of `MaxExpansion = 6`. The lists hold every item of one id alone, and
  pairs and triples that give out the same ids or addresses in either order.
* Two lines about a batch of two hosts are a report with one missing, one
  repeated, one foreign or none; 8 rounds hold a whole incident and the start
  of another (3 + 2 + 3).
* Three events in `Pipeline` are an incident, its end, and one announced
  again after a restart.
* Two hosts suffice for the safety properties of `Monitor`, which are per host:
  hosts interact only through the mass failure ratio, and the proofs show
  that the invariant does not depend on it. Three are used where the window,
  the removal and another host's results must combine.
* The thresholds are 1 in the fault run because streaks are the subject of
  `HostHistory`; 2 successes in the service run keep a DOWN host DOWN over a
  good result.
* `MaxRestarts`, two events and batches of two allow a restart during a
  restart's work, and rows of one claim at different stages.
* Two rounds and batches of two let a stop find a tick with rows handled and rows
  still to handle, while another round enqueues more than one claim takes.
* `CHECK_DEADLOCK FALSE` is set where the system really stops: the bounded
  history of `HostHistory`, a `Pipeline` whose process was stopped, a transport call that is over, an outbox whose
  process was stopped and is not started again, and an application that exited.

Fairness and its justification:

* `Monitor!Fairness`: `run_forever` starts a round every interval; a probe
  returns, since fping runs under a timeout; an enqueue is a local write.
  Nothing forces a probe to succeed or a mass failure to end: `EventuallyAnnounced`
  assumes in its own statement that rounds outside a mass failure recur. Nothing
  forces a send to succeed either: `SendNext` may store the alert or raise.
* `Outbox!Fairness`: the worker task runs until it is stopped, transports
  answer (their POSTs have timeouts and attempts are bounded), an enqueue that has
  begun goes on, back-offs end. `EveryDeliveryEnds` assumes that the process is not
  stopped for good.
* `Pipeline!Fairness`: that of the outbox, and a send that has its turn begins
  (`asyncio.to_thread`). Nothing is asked of rounds, so `IncidentIsHeard` speaks of
  incidents the monitor holds; like `EveryDeliveryEnds` it assumes that the
  process is not stopped for good.
* `Transport!Spec`: weak fairness of its one sequential process.
* `Application!Fairness`: what is awaited returns (fping runs under a timeout, the
  database is local, a transport's attempts are bounded) and the event loop runs
  what is ready. Nothing forces a signal.

### Findings

1. `monitor_orphan`: when an enqueue raises, the alert is dropped but the host
   keeps the incident; the later `host_recovered` is stored for an incident the
   receiver never heard of. The comment at `state.py:227-228` says that without a
   `host_down` sent before it, a `host_recovered` must not be sent alone.
2. `monitor_forgotten`: the back-fill looks once, at the hosts monitored in the
   round that closes the window. A host suppressed in the window, removed by a
   reload over that round and added again within the grace is DOWN without an
   incident for good, against `docs/usage.md:434-435`.
3. `outbox_torn`: the connection is in autocommit mode, so `enqueue` is not the
   transaction its docstring (`storage.py:158`) asks for; a crash between its
   INSERTs leaves an event some channels never deliver.
4. `application_undrained`: `shutdown` asks the worker to stop right after the
   scheduler, and the worker leaves its loop without another drain. What the last
   round queued is tried only after the next start, although the comment at
   `app.py:127` has the worker still consume it. Nothing is lost: the rows are on
   disk.
5. `probe_shared`: two targets may have the same address, and `address_to_id`
   (`probes.py:174`) keeps the later one only. In a batch with both, the earlier
   one is a timeout in every round and goes DOWN although fping's text, which
   `probes.py:10` calls the last word on every target, says that it answers.

Two more disagreements with the documentation have no run of their own; theorems say
how far they reach:

* An exception of the probe (text of fping that does not decode, a thread that cannot
  start: `probe_targets` catches only `TimeoutExpired`, `FileNotFoundError` and
  `OSError`) is logged by `run_forever` (`scheduler.py:87`) and skips
  `_record_round_complete`. `fping_monitor_probe_round_in_progress` then stays 1
  until a later round completes, against its help text (`metrics.py:113`: 1 while a
  round runs, else 0), and `docs/usage.md:372` reads a lasting 1 as a stuck fping.
  `RoundIsShown` is the documented meaning, and `RoundsAreShown` proves that such an
  exception is the only way to break it.
* A database call that raises in a tick (`outbox.py:125`) leaves the rows the tick had
  claimed in_flight. No claim takes them and no worker is on them, although
  `storage.py:16` says that the worker is processing an in_flight row; they wait for
  the next start of the process. `NoneIsStranded` proves that nothing else strands a
  row, and `outbox_faults` that what is stranded stays owed. For this reason
  `pipeline` checks `InFlightIsHeld` and `EveryDeliveryEnds` without raising database
  calls.

Also true of the code, and within what the properties allow: a restart forgets
open incidents (they are never closed, and a host still DOWN is announced under
a new one); a DOWN host dropped after its grace never gets its recovery; rows of a
channel that left the configuration wait for its return.

## 4. What is proved

Every safety property that a passing run checks is a theorem, for all values of the
constants, from the assumptions on them only: any finite sets of hosts, events and
channels, any thresholds, ratio, budget, batch size and number of restarts, target
lists and outputs of fping of any length, and each fault on or off.

| Module | Theorems | Property of a run |
| --- | --- | --- |
| `MonitorProofs` | `TypeCorrect`, `AlertsAreUnique`, `RecoveriesFollow`, `OpenIncidentsAnnounced`, `AlertsMatch` | the five of `monitor_faults` about `Monitor` |
| | `NoneIsSilent`, `WindowsAreQuiet`, `IncidentsAreKept`, `LedgerKept` | the safety properties of `monitor_service`; the first two with every fault on, the others with raising probes and sends |
| `TelemetryProofs` | `StatusIsShown`, `AlertsAreShown`, `TargetsAreCounted` | the three of `monitor_faults` about the gauges |
| | `RoundsAreShown` | none: `RoundIsShown`, as long as no probe raises |
| `OutboxProofs` | `TypeCorrect`, `HandsAreClaimed`, `DeliveriesAreTrue`, `GivingUpHasCause`, `CallsAreBounded`, `EndsAreFinal`, `Implements` | all seven of `outbox_faults` |
| | `NoneIsStranded` | `InFlightIsHeld` of the outbox alone |
| `PipelineProofs` | `ContainsMonitor`, `ContainsOutbox` | none: the composition implements both parts, so their theorems hold in it |
| | `RecoveriesAreAnswers`, `HeldIncidentsAreQueued`, `AlertsHaveOneEvent`, `InFlightHeld` | the safety properties of `pipeline` |
| `TransportProofs` | `RefusalsHaveEvidence`, `PostsAreBounded` | the invariants of `transport` |
| | `StepsMeetContract` | the safety half of `MeetsContract` |
| `ApplicationProofs` | `TypeCorrect`, `ClosedIsUnused`, `ClosedStaysUnhealthy` | the safety properties of `application` |
| `HostHistoryProofs` | `ListIsReference`, `Alternation`, `StatusFollowsHistory` | the three of `host_history` |

Each module proves an inductive invariant and takes the properties from it.

**Monitor.** None of the properties is inductive. That an alert about to be sent
is not a duplicate is known only from where its incident came from, at the time it
was queued. `IInv` therefore says, for each host (`Good`): incidents in the history
are positions of the history; alerts are unique and recoveries follow (`LogOK`);
a held incident is announced or queued, and open (`HeldOK`); a queued
`host_down` has the next free position and is the incident its host holds, a
queued `host_recovered` closes one announced and not closed, unless the host was
dropped since, and no host has two alerts queued (`QueueOK`). The proof follows
that shape: lemmas about one result on one host (`ApplyOneFacts`,
`AlertOfFacts`), about `Good` under each thing that can happen to a host
(`ObserveGood`, `SuppressGood`, `BackFillGood`, `SendGood`, `ForgetGood`...),
about the end of a segment (`ProceedGood`), and one lemma per action.

**The mass failure window.** `WindowInv` adds what `IInv` does not say: while the
window is open no `host_down` is on its way and no back-fill is pending
(`QuietWindow`), and a host that every configuration names is DOWN without an
incident only during a window, or until the round that closed it has done its
back-fill (`SilentOK`). It holds with every fault on, where the run checks it
without: a raising enqueue loses an alert but not the incident, and a restart
forgets the status with the incident. For hosts that a reload removes it is false
(finding 2).

**The ledger.** `LedgerKept` maps the history of alerts to the phases of
`IncidentLedger` and every step of `Service` to an opening, a closing or a stutter.
That an opened incident is the only open one of its host needs more than
uniqueness: an incident open for the receiver must still be held by the host or
have its recovery queued (`KeptOK`; `IncidentsAreKept` states it for the receiver). The bound `MaxAlerts` must leave room for what
is still to be said of it (`RoomOK`), since the ledger has one phase per incident
up to that bound. A restart or an expired grace forgets open incidents, so the
theorem is about `ServiceSpec`.

**Telemetry.** Every action is one of `Monitor` (`TelemetryInductive` carries its
`IInv` along). `TInv` adds that the mass failure gauge is the window, that
`QuietWindow` holds, and that a queued alert agrees with the gauge of its host.
The last is what makes `AlertsAgreeWithGauges` hold many awaits after the round
wrote the gauges: nobody writes them before the queue is empty. `RoundsAreShown` adds
to the specification that no probe raises, and shows that nothing else violates
`RoundIsShown`: no reload, restart, send or empty round.

**Outbox.** `SendsBounded` is the one that is far from inductive. A call is counted
in `sends` when it is made and in `attempts` when its outcome is recorded, and
between the two a crash or a raising database call may lose the count. The invariant
adds a budget for each delivery: calls made so far exceed the recorded attempts by
at most the restarts, plus one for a row whose call is under way or was abandoned,
since an abandoned row is not called again before a restart reclaims it. Next to
it stand who holds which rows and in which status, that a dead row was refused or
has its budget used up, and that a row a transport accepted was received.
`Implements` maps each action to a step of `AtLeastOnce` or a stutter: the two
steps that need the invariant are the marks, which need that the row they end is
in flight, and that an accepted one was received. `NoneIsStranded` assumes that
database calls do not raise; with them it is false.

**Pipeline.** The module instantiates the two proofs (`MP`, `OP`), and its first
section shows that their copies of the definitions are those `Pipeline` uses, so
that `StepInv` of each part can be cited for its half of a step (`PartsStep`).
What is new is `WayOK`, the way of an alert from the round to the tables. The
events stored are the issued ones and only they have rows; the enqueue under way
is of an alert still queued, and some channel lacks its row; every other issued
event is of an alert that the monitor counts as sent (`SentOK`, with uniqueness
from `MP!IInv` this gives one event per alert); and every incident held, or about
to be closed, is announced to every configured channel or still queued (`ToldOK`).
A reconfiguration comes with a restart, which forgets all incidents, so that `ToldOK`
survives channels that come and go.

**HostHistory.** Three arguments.

* The list. `ParseTargets` is a fold over data of any length. The induction is not
  cited from a library theorem over predicates, which no backend instantiates, but
  made with sets: the proper subsets of a finite set are well founded, so a set of
  counterexamples would have a minimal member (`MaxExists`, `Climb`, `FoldExists`).
  That gives `ParseSteps` (each prefix of the list is parsed by one more `AddItem`) and
  then `Correct`, the relation between the prefix's result and the reference for that
  prefix. `NetFacts` is the arithmetic of networks: the addresses `ExpandCidr`
  enumerates are the set of those with the same prefix, without the two borders from
  eight up.
* The probe. `LineOf` finds the last line about an address, `OwnerOf` the last target
  that has it; for a target no later one shadows they meet, and `ProbeIsRight` and
  `BatchFacts` carry the result through batches to the host's own place.
* The host. `Alternation` from an invariant that numbers the alerts (`AInv`).
  For the status the counters must be the exact lengths of the streaks that end the
  history, cut at the threshold (`Exact`); then one more result moves the verdict of
  the whole history (`VerdictGrows`) as `ApplyOne` moves the status.

**Transport.** The loop's stage, the attempts left and the last answer agree, so that
a final answer was really given and the POSTs are those of the attempts used.

**Application.** What each stage of a stop still finds running: after the scheduler
has ended no round is under way, after the statistics task was awaited nobody
raises the gauge, after the worker ended no claim, POST or mark is under way. What
is closed comes after all three.

Assumptions worth a look. `PowerAssumption` of `TargetList` states two facts of
powers of two that hold for every `Width` and that the provers lack.
`HostHistoryAssumption` says what a list and an output are: the items of a list are of
the shapes `_parse_address` tells apart (`IsItem`), so that their data may still be
malformed, reversed or repeated; an answer is a sequence of BOOLEANs.
`PipelineAssumption` is what `Monitor` and `Outbox` assume. TLC evaluates them all.

Only model-checked: liveness, which is beyond the prover (`EventuallyAnnounced`,
`EveryDeliveryEnds`, `IncidentIsHeard`, `ShutdownEnds`, and the liveness half of
`MeetsContract`), and the counterexamples of the findings.

## 5. Plan

Done: all the modules above, and the proofs of all their safety properties. What is
left, should another part come to depend on it: the reload counters and the ready
check of the application, and proofs that `Application`'s awaits are those of
`Monitor` and `Outbox`, whose rounds and ticks it abstracts to counts.

## 6. Not modelled

* Logging, message bodies and headers (`logging.py`, `cuckoo.py`, payload
  conversion): data no decision depends on.
* The HTTP endpoint (`api.py`): a stateless reader in a thread of its own. The ready
  check reads a counter and a clock. It counts rounds over an empty list as
  completed, and after a start it is not ready before the first round ends.
* Counters, timestamps and latencies of the metrics store: written once per event
  and read by nobody in the process.
* Validation of the sections of the configuration other than `targets`: independent
  range checks, which appear as the assumptions on the constants.
* Where fping writes its report: `probe_targets` parses the standard output, and the
  model takes the report to be what is parsed there.
* Real time: how long a slow receiver delays the other channels of its tick, how
  soon a signal is noticed.
