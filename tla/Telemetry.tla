------------------------------ MODULE Telemetry ------------------------------
(***************************************************************************)
(* What /metrics shows of the monitoring process: the gauges of            *)
(* MetricsStore (metrics.py) that the scheduler and the application keep.  *)
(* Each action is the action of Monitor with the metric updates the code   *)
(* makes on the way; a scrape may come between any two.                    *)
(*                                                                         *)
(* Rounds over an empty target list, which Monitor leaves out because they *)
(* only touch metrics, are here.  Counters that only grow, timestamps,     *)
(* latencies and the ready check over them are left out.                   *)
(***************************************************************************)
EXTENDS Monitor

CONSTANT NoSample    \* the gauge has no sample for this target yet

VARIABLES
    hostUp,      \* fping_monitor_host_up, by target
    inProgress,  \* fping_monitor_probe_round_in_progress
    loaded,      \* fping_monitor_targets
    massActive   \* fping_monitor_mass_failure_protection_active

gauges == <<hostUp, inProgress, loaded, massActive>>

TInit ==
    /\ Init
    /\ hostUp = [h \in Host |-> NoSample]
    /\ inProgress = FALSE
    /\ loaded = Cardinality(Monitored)
    /\ massActive = FALSE
-----------------------------------------------------------------------------
\* _record_round_complete, when the step ends the round.
RecordRound ==
    IF pc' = "idle"
    THEN /\ inProgress' = FALSE
         /\ loaded' = Cardinality(Monitored)
    ELSE UNCHANGED <<inProgress, loaded>>

\* mark_probe_round_start
TStartRound ==
    /\ StartRound
    /\ inProgress' = TRUE
    /\ UNCHANGED <<hostUp, loaded, massActive>>

\* A round over an empty list is recorded as one that completed.
EmptyRound ==
    /\ pc = "idle"
    /\ Monitored = {}
    /\ pc' = "idle"
    /\ RecordRound
    /\ UNCHANGED <<place, hs, snapshot, window, closing, queue, sent, hostUp, massActive>>

\* The exception passes _record_round_complete by.
TProbeRaises ==
    /\ ProbeRaises
    /\ UNCHANGED gauges

\* Mutant: the gauge is refreshed before the results are applied.
HostStateStale(results) ==
    [h \in Host |-> IF h \in Monitored THEN hs[h].status = "up" ELSE hostUp[h]]

\* update_host_state, between the results and the back-fill.
HostStateUpdated(results) ==
    [h \in Host |-> IF h \in Monitored THEN Applied(results)[h].status = "up"
                    ELSE hostUp[h]]

\* Mutant: the gauge is set by a mass failure and reset by a restart only.
MassActiveLatched(results) == massActive \/ MassFailure(results)

\* set_mass_failure, in every round that has results
MassActiveNow(results) == MassFailure(results)

\* set_mass_failure, update_host_state, and the end of the round if nothing is
\* to be sent.
TFinishProbing ==
    /\ \E results \in [snapshot -> BOOLEAN] :
         /\ ApplyResults(results)
         /\ massActive' = MassActiveNow(results)
         /\ hostUp' = HostStateUpdated(results)
    /\ RecordRound

TSendNext ==
    /\ SendNext
    /\ RecordRound
    /\ UNCHANGED <<hostUp, massActive>>

\* Mutant: the gauge counts the targets of the next round only.
LoadedNextRound(targets) == loaded

\* set_targets_loaded
LoadedNow(targets) == Cardinality(targets)

TReload ==
    /\ \E targets \in SUBSET Host : Reload(targets) /\ loaded' = LoadedNow(targets)
    /\ UNCHANGED <<hostUp, inProgress, massActive>>

TGraceEnds ==
    /\ \E h \in Host : GraceEnds(h)
    /\ UNCHANGED gauges

\* A new process has new metrics; bootstrap sets one of them.
TRestart ==
    /\ \E targets \in SUBSET Host : Restart(targets) /\ loaded' = LoadedNow(targets)
    /\ hostUp' = [h \in Host |-> NoSample]
    /\ inProgress' = FALSE /\ massActive' = FALSE

TNext ==
    \/ TStartRound \/ EmptyRound \/ TProbeRaises \/ TFinishProbing \/ TSendNext
    \/ TReload \/ TGraceEnds \/ TRestart

TSpec == TInit /\ [][TNext]_<<vars, gauges>>

-----------------------------------------------------------------------------
(* Properties *)

(***************************************************************************)
(* A confirmed status is on the gauge, also while the round still sends    *)
(* its alerts, after a reload, and for a host that is being removed or     *)
(* comes back (metrics.py:55: 1 for UP, 0 for DOWN or unknown).            *)
(***************************************************************************)
HostUpAgrees ==
    \A h \in Host : hs[h].status # "unknown" => hostUp[h] = (hs[h].status = "up")

(***************************************************************************)
(* Who receives an alert and looks at the metrics sees the same: the host  *)
(* of a host_down is shown down, that of a host_recovered up, and no       *)
(* host_down comes with the mass failure gauge at 1, though reloads and    *)
(* other sends come between the decision and the alert.                    *)
(***************************************************************************)
AlertsAgreeWithGauges ==
    \A a \in queue : /\ hostUp[a.host] = (a.type = "host_recovered")
                     /\ massActive => a.type = "host_recovered"

(***************************************************************************)
(* The gauge of a running round is 1 while a round runs, else 0, as its    *)
(* help text says (metrics.py:113).  Not so after a probe that raises.     *)
(***************************************************************************)
RoundIsShown == inProgress <=> pc # "idle"

(***************************************************************************)
(* The number of loaded targets is that of the hosts in the StateManager,  *)
(* whichever of bootstrap, a reload and a round set it last.               *)
(***************************************************************************)
LoadedIsMonitored == loaded = Cardinality(Monitored)
=============================================================================
