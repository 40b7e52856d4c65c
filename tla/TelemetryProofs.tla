--------------------------- MODULE TelemetryProofs ----------------------------
(***************************************************************************)
(* Proofs about Telemetry, for any hosts, thresholds and ratio and every   *)
(* fault on or off: the three invariants that tie the gauges to the state  *)
(* they show, and the one thing that can leave the gauge of a running      *)
(* round wrong.                                                            *)
(*                                                                         *)
(* Every action of Telemetry is one of Monitor, so the invariant of        *)
(* MonitorProofs holds here too.  Next to it stands what the gauges alone  *)
(* do not say: the mass failure gauge is the scheduler's window, and a     *)
(* round that owes a back-fill has closed that window.                     *)
(***************************************************************************)
EXTENDS Telemetry, MonitorProofs

tvars == <<vars, gauges>>

\* The gauge is the window, and no host_down is on its way while it is open.
WindowOK == massActive = window /\ QuietWindow

\* A queued alert and the gauge of its host agree.
ShownOK == \A a \in queue : hostUp[a.host] = (a.type = "host_recovered")

TInv ==
    /\ hostUp \in [Host -> BOOLEAN \cup {NoSample}]
    /\ HostUpAgrees
    /\ WindowOK
    /\ ShownOK
    /\ LoadedIsMonitored
-----------------------------------------------------------------------------
\* A process that starts shows what it monitors and nothing else.
LEMMA TInitInv == TInit => IInv /\ TInv
  <1> SUFFICES ASSUME TInit PROVE IInv /\ TInv
    OBVIOUS
  <1>1. IInv
    BY InitInv DEF TInit
  <1>2. \A h \in Host : hs[h].status = "unknown"
    BY DEF TInit, Init, NewHost
  <1> QED BY <1>1, <1>2 DEF TInit, Init, TInv, HostUpAgrees, WindowOK, QuietWindow, ShownOK,
                            LoadedIsMonitored

\* The results are applied and shown.
LEMMA FinishShown ==
    ASSUME IInv, TInv, TFinishProbing
    PROVE  TInv'
  <1>1. PICK results \in [snapshot -> BOOLEAN] :
          /\ ApplyResults(results)
          /\ massActive' = MassFailure(results)
          /\ hostUp' = HostStateUpdated(results)
    BY DEF TFinishProbing, MassActiveNow
  <1>2. TypeOK /\ RecordRound
    BY DEF IInv, TFinishProbing
  <1>3. pc = "probing" /\ window' = MassFailure(results) /\ place' = place
    BY <1>1 DEF ApplyResults
  <1>4. /\ \A h \in Host : hs'[h].status = Applied(results)[h].status
        /\ \A a \in queue' :
             /\ a.host \in Monitored /\ a.type \in AlertTypes
             /\ Applied(results)[a.host].status =
                  IF a.type = "host_down" THEN "down" ELSE "up"
        /\ MassFailure(results) =>
             ~closing' /\ \A a \in queue' : a.type = "host_recovered"
    BY <1>1, <1>2, ApplyResultsEffect
  <1>5. /\ hostUp' \in [Host -> BOOLEAN \cup {NoSample}]
        /\ \A h \in Monitored : hostUp'[h] = (Applied(results)[h].status = "up")
        /\ \A h \in Host \ Monitored : hostUp'[h] = hostUp[h]
    BY <1>1 DEF HostStateUpdated, TInv, Monitored
  <1>6. HostUpAgrees'
    <2> SUFFICES ASSUME NEW h \in Host, hs'[h].status # "unknown"
                 PROVE  hostUp'[h] = (hs'[h].status = "up")
      BY DEF HostUpAgrees
    <2>1. CASE h \in Monitored
      BY <1>4, <1>5, <2>1
    <2>2. CASE h \notin Monitored
      <3>1. Applied(results)[h] = hs[h]
        BY <1>2, <2>2, ResultsFacts
      <3> QED BY <1>4, <1>5, <2>2, <3>1 DEF TInv, HostUpAgrees
    <2> QED BY <2>1, <2>2
  <1>7. WindowOK'
    BY <1>1, <1>3, <1>4 DEF WindowOK, QuietWindow
  <1>8. ShownOK'
    BY <1>4, <1>5 DEF ShownOK, AlertTypes
  <1>9. Monitored' = Monitored
    BY <1>3 DEF Monitored
  <1>10. LoadedIsMonitored'
    BY <1>2, <1>3, <1>9 DEF RecordRound, TInv, LoadedIsMonitored
  <1> QED BY <1>5, <1>6, <1>7, <1>8, <1>10 DEF TInv

\* A send changes nothing that is shown, and the alerts of the back-fill are for
\* hosts shown down.
LEMMA SendShown ==
    ASSUME IInv, TInv, TSendNext
    PROVE  TInv'
  <1>1. PICK a \in queue : Send(a)
    BY DEF TSendNext, SendNext
  <1>2. TypeOK /\ RecordRound /\ UNCHANGED <<hostUp, massActive>> /\ pc = "sending"
    BY <1>1 DEF IInv, TSendNext, Send
  <1>3. /\ \A h \in Host : hs'[h].status = hs[h].status
        /\ \A b \in queue' :
             \/ b \in queue
             \/ /\ closing /\ b.type = "host_down"
                /\ b.host \in Host /\ hs[b.host].status = "down"
        /\ closing' => closing
        /\ UNCHANGED <<place, window>>
    BY <1>1, <1>2, SendEffect
  <1>4. HostUpAgrees' /\ WindowOK'
    BY <1>2, <1>3 DEF TInv, HostUpAgrees, WindowOK, QuietWindow
  <1>5. ShownOK'
    BY <1>2, <1>3 DEF TInv, ShownOK, HostUpAgrees
  <1>6. Monitored' = Monitored
    BY <1>3 DEF Monitored
  <1>7. LoadedIsMonitored'
    BY <1>2, <1>6 DEF RecordRound, TInv, LoadedIsMonitored
  <1> QED BY <1>2, <1>4, <1>5, <1>7 DEF TInv

\* A reload shows the number of its targets; what it forgets has no status to
\* show.
LEMMA ReloadShown ==
    ASSUME IInv, TInv, TReload
    PROVE  TInv'
  <1>1. PICK targets \in SUBSET Host : Reload(targets) /\ loaded' = LoadedNow(targets)
    BY DEF TReload
  <1>2. UNCHANGED <<hostUp, inProgress, massActive, pc, window, closing, queue>>
    BY <1>1 DEF TReload, Reload
  <1>3. \A h \in Host : hs'[h] = hs[h] \/ hs'[h].status = "unknown"
    BY <1>1 DEF Reload, NewHost
  <1>4. HostUpAgrees' /\ WindowOK' /\ ShownOK'
    BY <1>2, <1>3 DEF TInv, HostUpAgrees, WindowOK, QuietWindow, ShownOK
  <1>5. \A h \in Host : place'[h] = "monitored" <=> h \in targets
    BY <1>1 DEF Reload, Moved
  <1>6. Monitored' = targets
    BY <1>5 DEF Monitored
  <1> QED BY <1>1, <1>2, <1>4, <1>6 DEF TInv, LoadedIsMonitored, LoadedNow

\* A restart shows the number of its targets and that no round runs.
LEMMA RestartShown ==
    ASSUME IInv, TInv, TRestart
    PROVE  TInv'
  <1>1. PICK targets \in SUBSET Host : Restart(targets) /\ loaded' = LoadedNow(targets)
    BY DEF TRestart
  <1>2. \A h \in Host : hs'[h].status = "unknown"
    BY <1>1 DEF Restart, NewHost
  <1>3. \A h \in Host : place'[h] = "monitored" <=> h \in targets
    BY <1>1 DEF Restart
  <1>4. Monitored' = targets
    BY <1>3 DEF Monitored
  <1>5. LoadedIsMonitored'
    BY <1>1, <1>4 DEF LoadedIsMonitored, LoadedNow
  <1> QED BY <1>1, <1>2, <1>5 DEF TRestart, Restart, TInv, HostUpAgrees, WindowOK, QuietWindow,
                                  ShownOK

\* The remaining actions change no status and send no alert.
LEMMA QuietShown ==
    ASSUME IInv, TInv,
           TStartRound \/ EmptyRound \/ TProbeRaises \/ TGraceEnds \/ UNCHANGED tvars
    PROVE  TInv'
  <1>1. UNCHANGED <<hs, window, closing, queue, hostUp, massActive>>
    BY DEF TStartRound, StartRound, EmptyRound, TProbeRaises, ProbeRaises, TGraceEnds,
           GraceEnds, tvars, vars, gauges
  <1>2. HostUpAgrees' /\ WindowOK' /\ ShownOK'
    BY <1>1 DEF TInv, HostUpAgrees, WindowOK, QuietWindow, ShownOK
  <1>3. \A h \in Host : place'[h] = "monitored" <=> place[h] = "monitored"
    BY DEF TStartRound, StartRound, EmptyRound, TProbeRaises, ProbeRaises, TGraceEnds,
           GraceEnds, tvars, vars, IInv, TypeOK
  <1>4. Monitored' = Monitored
    BY <1>3 DEF Monitored
  <1>5. LoadedIsMonitored'
    BY <1>4 DEF TStartRound, StartRound, EmptyRound, TProbeRaises, ProbeRaises, TGraceEnds,
                GraceEnds, tvars, vars, gauges, RecordRound, TInv,
                LoadedIsMonitored
  <1> QED BY <1>1, <1>2, <1>5 DEF TInv

\* With its metrics left out, a step is one of Monitor.
LEMMA StepOfMonitor ==
    ASSUME [TNext]_tvars
    PROVE  [Next]_vars
  BY DEF TNext, TStartRound, EmptyRound, TProbeRaises, TFinishProbing, TSendNext, TReload,
         TGraceEnds, TRestart, Next, Service, FinishProbing, tvars, vars

\* The gauges and the monitor keep in step.
THEOREM TelemetryInductive == TSpec => [](IInv /\ TInv)
  <1>1. IInv /\ TInv /\ [TNext]_tvars => (IInv /\ TInv)'
    <2> SUFFICES ASSUME IInv, TInv, [TNext]_tvars
                 PROVE  IInv' /\ TInv'
      OBVIOUS
    <2>1. IInv'
      BY StepOfMonitor, StepInv
    <2>2. TInv'
      BY FinishShown, SendShown, ReloadShown, RestartShown, QuietShown DEF TNext
    <2> QED BY <2>1, <2>2
  <1> QED BY TInitInv, <1>1, PTL DEF TSpec, tvars

\* A confirmed status is what fping_monitor_host_up shows (metrics.py:55).
THEOREM StatusIsShown == TSpec => []HostUpAgrees
  <1>1. IInv /\ TInv => HostUpAgrees
    BY DEF TInv
  <1> QED BY <1>1, TelemetryInductive, PTL

\* Alerts and gauges say the same to who sees both.
THEOREM AlertsAreShown == TSpec => []AlertsAgreeWithGauges
  <1>1. IInv /\ TInv => AlertsAgreeWithGauges
    BY DEF TInv, ShownOK, WindowOK, QuietWindow, AlertsAgreeWithGauges
  <1> QED BY <1>1, TelemetryInductive, PTL

\* The gauge of a running round is 1 exactly while one runs, unless a probe
\* raises: the exception that run_forever catches is the only way past the end
\* of the round that resets it (scheduler.py:84-89).
THEOREM RoundsAreShown == TSpec /\ [][~TProbeRaises]_tvars => []RoundIsShown
  <1>1. TInit => RoundIsShown
    BY DEF TInit, Init, RoundIsShown
  <1>2. IInv /\ RoundIsShown /\ [TNext]_tvars /\ [~TProbeRaises]_tvars => RoundIsShown'
    <2> SUFFICES ASSUME IInv, RoundIsShown, [TNext]_tvars, [~TProbeRaises]_tvars
                 PROVE  RoundIsShown'
      OBVIOUS
    <2>1. TypeOK
      BY DEF IInv
    <2>2. CASE TStartRound \/ EmptyRound
      BY <2>2 DEF TStartRound, StartRound, EmptyRound, RecordRound, RoundIsShown
    <2>3. CASE TFinishProbing \/ TSendNext
      <3>1. pc # "idle" /\ RecordRound
        BY <2>3 DEF TFinishProbing, ApplyResults, TSendNext, SendNext, Send
      <3> QED BY <3>1 DEF RecordRound, RoundIsShown
    <2>4. CASE TReload \/ TGraceEnds \/ TRestart
      BY <2>4 DEF TReload, Reload, TGraceEnds, GraceEnds, gauges, TRestart, Restart,
                  RoundIsShown
    <2>5. CASE UNCHANGED tvars \/ TProbeRaises
      BY <2>5 DEF tvars, vars, gauges, RoundIsShown
    <2> QED BY <2>2, <2>3, <2>4, <2>5 DEF TNext
  <1> QED BY <1>1, <1>2, TelemetryInductive, PTL DEF TSpec, tvars

\* The number of loaded targets is the StateManager's (set_targets_loaded).
THEOREM TargetsAreCounted == TSpec => []LoadedIsMonitored
  <1>1. IInv /\ TInv => LoadedIsMonitored
    BY DEF TInv
  <1> QED BY <1>1, TelemetryInductive, PTL
=============================================================================
