------------------------------- MODULE Monitor -------------------------------
(***************************************************************************)
(* The monitoring process: the Scheduler's probe rounds, the StateManager  *)
(* they update, configuration reloads, and the calls of notifier.send that *)
(* hand alerts to the outbox.                                              *)
(*                                                                         *)
(* The process is one asyncio event loop, so an action is the code from    *)
(* one await to the next.  A round has two kinds of await: the probing     *)
(* threads (pc = "probing") and one enqueue at a time (pc = "sending");    *)
(* between rounds the loop sleeps (pc = "idle").  A SIGHUP reload or a     *)
(* crash may come at any await.                                            *)
(*                                                                         *)
(* uuid4 incidents are numbered per host by the position in sent[h] their  *)
(* first alert takes; sent[h] is a history the code does not keep.  Batches*)
(* are one: every batch is awaited before any result is applied.  Metrics, *)
(* and the rounds over an empty target list (which only touch metrics) are *)
(* left out, and so is _mass_failure_pending_down, which is never read.    *)
(***************************************************************************)
EXTENDS HostState, Integers, Sequences, FiniteSets

CONSTANTS
    Host,              \* every host any configuration may name
    Removable,         \* the hosts a reload may drop from the configuration
    MassMin,           \* smallest round that can be a mass failure (5 in the code)
    RatioNum,          \* config state.mass_failure_ratio is RatioNum / RatioDen
    RatioDen,
    WebhookEnabled,    \* config webhook.enabled
    GraceExpires,      \* whether the removal grace can run out
    StoreFails,        \* whether an enqueue may raise
    Crashes,           \* whether the process may crash and restart
    MaxAlerts          \* bound: alerts per host (guards DOWN transitions only)

ASSUME MonitorAssumption ==
    /\ IsFiniteSet(Host) /\ Removable \subseteq Host
    /\ MassMin \in Nat /\ RatioNum \in Nat /\ RatioDen \in Nat /\ MaxAlerts \in Nat
    /\ {WebhookEnabled, GraceExpires, StoreFails, Crashes} \subseteq BOOLEAN

VARIABLES
    pc,        \* where the round is: "idle", "probing" or "sending"
    place,     \* StateManager: which table holds the host
    hs,        \* StateManager: the HostState of each host
    snapshot,  \* probe_once: the targets of this round
    window,    \* Scheduler: _mass_failure_window_started_at is set
    closing,   \* probe_once: this round closes the window, back-fill owed
    queue,     \* probe_once: alerts this round has still to send
    sent       \* history: every alert handed to notifier.send, and its fate

vars == <<pc, place, hs, snapshot, window, closing, queue, sent>>

(***************************************************************************)
(* _states holds a "monitored" host; _recently_removed a host "in_grace",  *)
(* "stale" once remove_grace_seconds have passed (it is dropped only by    *)
(* the next upsert); neither holds an "absent" one.                        *)
(***************************************************************************)
Place == {"monitored", "in_grace", "stale", "absent"}

Alert == [host: Host, type: AlertTypes, incident: Nat]

Monitored == {h \in Host : place[h] = "monitored"}

FreshIncident(h) == Len(sent[h]) + 1

Init ==
    /\ pc = "idle"
    /\ place \in [Host -> {"monitored", "absent"}]
    /\ \A h \in Host \ Removable : place[h] = "monitored"
    /\ hs = [h \in Host |-> NewHost]
    /\ snapshot = {} /\ queue = {}
    /\ window = FALSE /\ closing = FALSE
    /\ sent = [h \in Host |-> <<>>]
-----------------------------------------------------------------------------
(* The probe round *)

StartRound ==
    /\ pc = "idle"
    /\ Monitored # {}
    /\ snapshot' = Monitored
    /\ pc' = "probing"
    /\ UNCHANGED <<place, hs, window, closing, queue, sent>>

\* An exception of the probing threads ends the round with nothing applied;
\* run_forever logs it and goes on.
ProbeRaises ==
    /\ pc = "probing"
    /\ snapshot' = {}
    /\ pc' = "idle"
    /\ UNCHANGED <<place, hs, window, closing, queue, sent>>

Failed(results) == {h \in DOMAIN results : ~results[h]}

MassFailure(results) ==
    LET total == Cardinality(DOMAIN results)
    IN  /\ total >= MassMin
        /\ Cardinality(Failed(results)) * RatioDen >= RatioNum * total

\* Mutant: a host that has an incident is announced again.
BackFillAll(state) ==
    LET owed == {h \in Monitored : state[h].status = "down"}
    IN  /\ hs' = [h \in Host |-> IF h \in owed
                                 THEN [state[h] EXCEPT !.incident = FreshIncident(h)]
                                 ELSE state[h]]
        /\ queue' = {[host |-> h, type |-> "host_down", incident |-> FreshIncident(h)] :
                       h \in owed}
        /\ closing' = FALSE
        /\ pc' = IF owed = {} THEN "idle" ELSE "sending"

\* Mutant: the round never forgets that it owes a back-fill.
BackFillKeepsClosing(state) ==
    LET owed == {h \in Monitored : state[h].status = "down" /\ state[h].incident = None}
    IN  /\ hs' = [h \in Host |-> IF h \in owed
                                 THEN [state[h] EXCEPT !.incident = FreshIncident(h)]
                                 ELSE state[h]]
        /\ queue' = {[host |-> h, type |-> "host_down", incident |-> FreshIncident(h)] :
                       h \in owed}
        /\ closing' = TRUE
        /\ pc' = IF owed = {} THEN "idle" ELSE "sending"

\* Mutant: a host without an incident is announced, whatever its status.
BackFillAnyStatus(state) ==
    LET owed == {h \in Monitored : state[h].incident = None}
    IN  /\ hs' = [h \in Host |-> IF h \in owed
                                 THEN [state[h] EXCEPT !.incident = FreshIncident(h)]
                                 ELSE state[h]]
        /\ queue' = {[host |-> h, type |-> "host_down", incident |-> FreshIncident(h)] :
                       h \in owed}
        /\ closing' = FALSE
        /\ pc' = IF owed = {} THEN "idle" ELSE "sending"

\* The hosts that are DOWN without an incident get one, and an alert each.
BackFill(state) ==
    LET owed == {h \in Monitored : state[h].status = "down" /\ state[h].incident = None}
    IN  /\ hs' = [h \in Host |-> IF h \in owed
                                 THEN [state[h] EXCEPT !.incident = FreshIncident(h)]
                                 ELSE state[h]]
        /\ queue' = {[host |-> h, type |-> "host_down", incident |-> FreshIncident(h)] :
                       h \in owed}
        /\ closing' = FALSE
        /\ pc' = IF owed = {} THEN "idle" ELSE "sending"

\* Mutant: the back-fill is dropped when the round had alerts of its own.
ProceedNoBackFill(state, alerts, closes) ==
    /\ hs' = state
    /\ queue' = alerts
    /\ closing' = FALSE
    /\ pc' = IF alerts = {} THEN "idle" ELSE "sending"

\* The round goes on to the next await: a send if one is left, the back-fill
\* after the last one, or the end of the round.
Proceed(state, alerts, closes) ==
    IF alerts = {} /\ closes
    THEN BackFill(state)
    ELSE /\ hs' = state
         /\ queue' = alerts
         /\ closing' = closes
         /\ pc' = IF alerts = {} THEN "idle" ELSE "sending"

Observed(results) == DOMAIN results \cap Monitored

Applied(results) ==
    [h \in Host |-> IF h \in Observed(results)
                    THEN ApplyOne(hs[h], results[h], FreshIncident(h))
                    ELSE hs[h]]

Raised(results) ==
    UNION {{[host |-> h, type |-> a.type, incident |-> a.incident] :
              a \in AlertOf(hs[h], results[h], FreshIncident(h))} :
           h \in Observed(results)}

\* Mutant: the ratio guard is forgotten where alerts are forwarded.
SuppressedNever(results) == {}

Suppressed(results) ==
    {a \in Raised(results) : MassFailure(results) /\ a.type = "host_down"}

\* Mutant: the incident of a suppressed host_down stays with the host.
MutedKeepsIncident(results) == Applied(results)

\* A suppressed host_down takes its incident back from the host.
Muted(results) ==
    [h \in Host |-> IF \E a \in Suppressed(results) : a.host = h
                    THEN [Applied(results)[h] EXCEPT !.incident = None]
                    ELSE Applied(results)[h]]

\* The bound: a host goes DOWN only if its history has room for two alerts.
RoomFor(results) ==
    \A h \in Observed(results) :
        hs[h].status # "down" /\ Applied(results)[h].status = "down"
            => Len(sent[h]) + 2 <= MaxAlerts

\* Mutant: prev_mass_failure_active is read after the window was updated.
ApplyResultsLatePrev(results) ==
    /\ pc = "probing"
    /\ RoomFor(results)
    /\ window' = MassFailure(results)
    /\ Proceed(Muted(results), Raised(results) \ Suppressed(results), FALSE)
    /\ snapshot' = {}
    /\ UNCHANGED <<place, sent>>

(***************************************************************************)
(* The probing threads are back.  Results of hosts a reload has removed    *)
(* meanwhile are not applied, but they count for the mass failure test.    *)
(* The suppressed iterations of the forwarding loop write nothing that     *)
(* another coroutine reads before the round ends, and are taken here.      *)
(***************************************************************************)
ApplyResults(results) ==
    /\ pc = "probing"
    /\ RoomFor(results)
    /\ window' = MassFailure(results)
    /\ IF WebhookEnabled
       THEN Proceed(Muted(results), Raised(results) \ Suppressed(results),
                    window /\ ~MassFailure(results))
       ELSE Proceed(Applied(results), {}, FALSE)
    /\ snapshot' = {}
    /\ UNCHANGED <<place, sent>>

FinishProbing == \E results \in [snapshot -> BOOLEAN] : ApplyResults(results)

HandOver(a, stored) ==
    sent' = [sent EXCEPT ![a.host] =
               Append(@, [type |-> a.type, incident |-> a.incident, stored |-> stored])]

\* Mutant: an enqueue that raised is tried again in the round.
SendAgain(a) ==
    /\ pc = "sending"
    /\ \E stored \in BOOLEAN :
         /\ stored \/ StoreFails
         /\ HandOver(a, stored)
         /\ Proceed(hs, IF stored THEN queue \ {a} ELSE queue, closing)
    /\ UNCHANGED <<place, snapshot, window>>

\* Mutant: the exception of a send leaves the loop over the alerts.
SendLeavesLoop(a) ==
    /\ pc = "sending"
    /\ \E stored \in BOOLEAN :
         /\ stored \/ StoreFails
         /\ HandOver(a, stored)
         /\ Proceed(hs, IF stored THEN queue \ {a} ELSE {}, closing)
    /\ UNCHANGED <<place, snapshot, window>>

\* notifier.send returns, or raises and the exception is logged.
Send(a) ==
    /\ pc = "sending"
    /\ \E stored \in BOOLEAN : (stored \/ StoreFails) /\ HandOver(a, stored)
    /\ Proceed(hs, queue \ {a}, closing)
    /\ UNCHANGED <<place, snapshot, window>>

SendNext == \E a \in queue : Send(a)
-----------------------------------------------------------------------------
(* What happens at any await *)

\* A host that was stale is dropped only if this upsert does not name it.
Moved(h, targets) ==
    IF h \in targets THEN "monitored"
    ELSE IF place[h] \in {"monitored", "in_grace"} THEN "in_grace" ELSE "absent"

\* Mutant: a host that returns within the grace starts afresh.
ReloadAfresh(targets) ==
    /\ Host \ Removable \subseteq targets
    /\ place' = [h \in Host |-> Moved(h, targets)]
    /\ hs' = [h \in Host |-> IF place[h] # "monitored" \/ Moved(h, targets) = "absent"
                             THEN NewHost ELSE hs[h]]
    /\ UNCHANGED <<pc, snapshot, window, closing, queue, sent>>

\* SIGHUP: upsert_targets on the new list.
Reload(targets) ==
    /\ Host \ Removable \subseteq targets
    /\ place' = [h \in Host |-> Moved(h, targets)]
    /\ hs' = [h \in Host |-> IF Moved(h, targets) = "absent" THEN NewHost ELSE hs[h]]
    /\ UNCHANGED <<pc, snapshot, window, closing, queue, sent>>

\* remove_grace_seconds pass for a removed host. The time is the wall clock's,
\* which may jump, so this can happen at any await.
GraceEnds(h) ==
    /\ GraceExpires
    /\ place[h] = "in_grace"
    /\ place' = [place EXCEPT ![h] = "stale"]
    /\ UNCHANGED <<pc, hs, snapshot, window, closing, queue, sent>>

\* The process dies and bootstrap builds a new one: nothing here is persisted.
\* It may die inside notifier.send, with the alert stored or not.
Restart(targets) ==
    /\ Crashes
    /\ Host \ Removable \subseteq targets
    /\ pc' = "idle"
    /\ place' = [h \in Host |-> IF h \in targets THEN "monitored" ELSE "absent"]
    /\ hs' = [h \in Host |-> NewHost]
    /\ snapshot' = {} /\ queue' = {}
    /\ window' = FALSE /\ closing' = FALSE
    /\ UNCHANGED sent \/ \E a \in queue, stored \in BOOLEAN : HandOver(a, stored)
-----------------------------------------------------------------------------
\* What a process does that neither dies nor loses a host to the grace.
Service ==
    \/ StartRound \/ ProbeRaises \/ FinishProbing \/ SendNext
    \/ \E targets \in SUBSET Host : Reload(targets)

Next ==
    \/ Service
    \/ \E targets \in SUBSET Host : Restart(targets)
    \/ \E h \in Host : GraceEnds(h)

Spec == Init /\ [][Next]_vars

(***************************************************************************)
(* run_forever keeps starting rounds, a probing thread returns (fping runs *)
(* under a timeout) and an enqueue is a local write that returns.          *)
(***************************************************************************)
Fairness == WF_vars(StartRound) /\ WF_vars(FinishProbing) /\ WF_vars(SendNext)

ServiceSpec == Init /\ [][Service]_vars /\ Fairness
-----------------------------------------------------------------------------
(* Properties *)

Sent(h, type, incident) ==
    \E i \in 1..Len(sent[h]) : sent[h][i].type = type /\ sent[h][i].incident = incident

Queued(h, type, incident) == [host |-> h, type |-> type, incident |-> incident] \in queue

\* The type invariant, with where the round-local variables are in use.
TypeOK ==
    /\ pc \in {"idle", "probing", "sending"}
    /\ place \in [Host -> Place]
    /\ hs \in [Host -> HostStates]
    /\ snapshot \subseteq Host
    /\ window \in BOOLEAN /\ closing \in BOOLEAN
    /\ queue \subseteq Alert
    /\ sent \in [Host -> Seq([type: AlertTypes, incident: Nat, stored: BOOLEAN])]
    /\ (pc = "probing") <=> (snapshot # {})
    /\ (pc = "sending") <=> (queue # {})
    /\ closing => pc = "sending"
    /\ \A h \in Host : place[h] = "absent" => hs[h] = NewHost

(***************************************************************************)
(* An incident is announced at most once and closed at most once, whatever *)
(* reloads, failed enqueues, suppressed rounds, back-fills and restarts    *)
(* come between (arch.md 6.4: the same status is not notified again).      *)
(***************************************************************************)
UniqueAlerts ==
    \A h \in Host : \A i, j \in 1..Len(sent[h]) :
        sent[h][i].type = sent[h][j].type /\ sent[h][i].incident = sent[h][j].incident
            => i = j

(***************************************************************************)
(* A host_recovered is sent only after the host_down of its incident was   *)
(* (arch.md:242): a suppressed incident, or one of a process that died, is *)
(* never closed towards the receiver.                                      *)
(***************************************************************************)
RecoveredAfterDown ==
    \A h \in Host : \A j \in 1..Len(sent[h]) :
        sent[h][j].type = "host_recovered" =>
            \E i \in 1..j - 1 : /\ sent[h][i].type = "host_down"
                                /\ sent[h][i].incident = sent[h][j].incident

(***************************************************************************)
(* An incident a host holds was handed to the notifier, or is about to be  *)
(* (if alerts are sent at all), and has not been closed; only a DOWN host  *)
(* holds one.  Suppression takes the incident back, a reload carries it    *)
(* over, the back-fill sets it.                                            *)
(***************************************************************************)
OpenIncidentAnnounced ==
    \A h \in Host : hs[h].incident # None =>
        /\ hs[h].status = "down"
        /\ ~Sent(h, "host_recovered", hs[h].incident)
        /\ WebhookEnabled => \/ Sent(h, "host_down", hs[h].incident)
                             \/ Queued(h, "host_down", hs[h].incident)

(***************************************************************************)
(* Outside a mass failure no host stays DOWN in silence: between rounds a  *)
(* DOWN host that every configuration named has an incident, hence (by     *)
(* OpenIncidentAnnounced) its host_down was sent.                          *)
(***************************************************************************)
Owed(h) ==
    /\ pc = "idle" /\ ~window
    /\ place[h] = "monitored" /\ hs[h].status = "down" /\ hs[h].incident = None

NoSilentDown == \A h \in Host \ Removable : ~Owed(h)

\* The same promise for every host, as docs/usage.md:434-435 states it.
NoSilentDownEver == \A h \in Host : ~Owed(h)

(***************************************************************************)
(* A host_recovered that reached the outbox has its host_down there too,   *)
(* as the comment at state.py:227-228 promises the receiver.               *)
(***************************************************************************)
RecoveredHasStoredDown ==
    \A h \in Host : \A j \in 1..Len(sent[h]) :
        sent[h][j].type = "host_recovered" /\ sent[h][j].stored =>
            \E i \in 1..j - 1 : /\ sent[h][i].type = "host_down"
                                /\ sent[h][i].incident = sent[h][j].incident
                                /\ sent[h][i].stored

(***************************************************************************)
(* At the moment an alert is handed over its host has not changed sides:   *)
(* the awaits between the decision and the send let reloads in, which may  *)
(* forget the host's status ("unknown") but never contradict the alert;    *)
(* and during a mass failure no host_down leaves.                          *)
(***************************************************************************)
AlertMatchesStatus ==
    [][\A h \in Host : sent'[h] # sent[h] =>
         LET a == sent'[h][Len(sent'[h])]
         IN  hs'[h].status # IF a.type = "host_down" THEN "up" ELSE "down"]_vars

NoDownWhileMassFailure ==
    [][window => \A h \in Host : sent'[h] # sent[h] =>
         sent'[h][Len(sent'[h])].type = "host_recovered"]_vars

(***************************************************************************)
(* An incident the receiver was told of and not told the end of is not     *)
(* forgotten: its host still holds it, or its host_recovered is queued,    *)
(* through windows, removals and returns within the grace (state.py:97).   *)
(* A restart and an expired grace do forget it.                            *)
(***************************************************************************)
OpenIncidentKept ==
    \A h \in Host, i \in 1..MaxAlerts :
        Sent(h, "host_down", i) /\ ~Sent(h, "host_recovered", i) =>
            hs[h].incident = i \/ Queued(h, "host_recovered", i)

(***************************************************************************)
(* If mass failures keep clearing up between rounds, a host that is DOWN   *)
(* is announced in the end or comes UP: suppression only delays.           *)
(***************************************************************************)
AnnouncedOrUp(h) ==
    \/ hs[h].status # "down"
    \/ hs[h].incident # None /\ Sent(h, "host_down", hs[h].incident)

EventuallyAnnounced ==
    []<>(pc = "idle" /\ ~window) =>
        \A h \in Host \ Removable : (hs[h].status = "down") ~> AnnouncedOrUp(h)

(***************************************************************************)
(* Without crashes and lost grace, the alerts handed over for every host   *)
(* keep the ledger the receiver relies on, reloads included.               *)
(***************************************************************************)
PhaseOf(h, i) ==
    IF Sent(h, "host_recovered", i) THEN "closed"
    ELSE IF Sent(h, "host_down", i) THEN "open"
    ELSE "unused"

Ledger == INSTANCE IncidentLedger WITH
              Incident <- 1..MaxAlerts,
              phase <- [h \in Host |-> [i \in 1..MaxAlerts |-> PhaseOf(h, i)]]

KeepsLedger == Ledger!Spec
=============================================================================
