---------------------------- MODULE PipelineProofs ----------------------------
(***************************************************************************)
(* Proofs about Pipeline, for any hosts, channels, thresholds, budgets and *)
(* bounds, any number of restarts and reconfigured channels: that it is a  *)
(* Monitor and an Outbox put together, and what it promises of an alert on *)
(* its way from the state machine to the table of deliveries.              *)
(*                                                                         *)
(* The invariants of the two parts are those of MonitorProofs and          *)
(* OutboxProofs, instantiated here as MP and OP.  An instance brings its   *)
(* own copy of every definition, so the first section shows that the copy  *)
(* Pipeline uses (M, O) and the copy the lemmas speak of are the same.     *)
(***************************************************************************)
EXTENDS Pipeline, FiniteSetTheorems, TLAPS

MP == INSTANCE MonitorProofs WITH
          WebhookEnabled <- TRUE, GraceExpires <- FALSE, StoreFails <- FALSE,
          Crashes <- TRUE

OP == INSTANCE OutboxProofs WITH
          Event <- 1..MaxEvents, NoEvent <- 0, StorageFails <- FALSE

\* The parts may assume what they do.
LEMMA MonitorAssumes == MP!ThresholdAssumption /\ MP!MonitorAssumption
  <1>1. {TRUE, FALSE, FALSE, TRUE} \subseteq BOOLEAN
    OBVIOUS
  <1>2. MP!MonitorAssumption
    BY <1>1, PipelineAssumption DEF MP!MonitorAssumption, MP!IsFiniteSet, IsFiniteSet
  <1> QED BY <1>2, PipelineAssumption DEF MP!ThresholdAssumption

\* The same of the outbox, whose events are numbers here.
LEMMA OutboxAssumes == OP!OutboxAssumption
  <1>1. IsFiniteSet(1..MaxEvents)
    BY PipelineAssumption, FS_Interval
  <1>2. 0 \notin 1..MaxEvents
    BY PipelineAssumption
  <1>3. {FALSE, Reconfigures} \subseteq BOOLEAN
    BY PipelineAssumption
  <1> QED BY <1>1, <1>2, <1>3, PipelineAssumption, Zenon
          DEF OP!OutboxAssumption, OP!IsFiniteSet, IsFiniteSet
-----------------------------------------------------------------------------
(* Pipeline's copy of Monitor is the one MonitorProofs is about *)

\* One result on one host.
LEMMA SameApplyOne ==
    ASSUME NEW s, NEW ok, NEW fresh
    PROVE  /\ M!ApplyOne(s, ok, fresh) = MP!ApplyOne(s, ok, fresh)
           /\ M!AlertOf(s, ok, fresh) = MP!AlertOf(s, ok, fresh)
  <1>1. \A n, cap : M!CountUp(n, cap) = MP!CountUp(n, cap)
    BY DEF M!CountUp, MP!CountUp
  <1>2. M!Counted(s, ok) = MP!Counted(s, ok)
    BY <1>1 DEF M!Counted, MP!Counted
  <1>3. \A t : M!NextStatus(t) = MP!NextStatus(t)
    BY DEF M!NextStatus, MP!NextStatus
  <1>4. \A x : M!IncidentOn(x, s, fresh) = MP!IncidentOn(x, s, fresh)
    BY DEF M!IncidentOn, MP!IncidentOn, M!None, MP!None
  <1>5. M!ApplyOne(s, ok, fresh) = MP!ApplyOne(s, ok, fresh)
    BY <1>2, <1>3, <1>4 DEF M!ApplyOne, MP!ApplyOne
  <1> QED BY <1>5 DEF M!AlertOf, MP!AlertOf, M!None, MP!None

\* What a round makes of its results.
LEMMA SameResults ==
    ASSUME NEW results
    PROVE  /\ M!MassFailure(results) = MP!MassFailure(results)
           /\ M!Applied(results) = MP!Applied(results)
           /\ M!Raised(results) = MP!Raised(results)
           /\ M!Suppressed(results) = MP!Suppressed(results)
           /\ M!Muted(results) = MP!Muted(results)
           /\ M!RoomFor(results) = MP!RoomFor(results)
  <1> USE DEF M!Observed, MP!Observed, M!Monitored, MP!Monitored, M!FreshIncident,
              MP!FreshIncident, M!None, MP!None
  <1>1. M!MassFailure(results) = MP!MassFailure(results)
    BY DEF M!MassFailure, MP!MassFailure, M!Failed, MP!Failed, M!Cardinality,
           MP!Cardinality
  <1>2. M!Applied(results) = MP!Applied(results)
    BY SameApplyOne DEF M!Applied, MP!Applied
  <1>3. M!Raised(results) = MP!Raised(results)
    BY SameApplyOne DEF M!Raised, MP!Raised
  <1>4. M!Suppressed(results) = MP!Suppressed(results)
    BY <1>1, <1>3 DEF M!Suppressed, MP!Suppressed
  <1>5. M!Muted(results) = MP!Muted(results)
    BY <1>2, <1>4 DEF M!Muted, MP!Muted
  <1>6. M!RoomFor(results) = MP!RoomFor(results)
    BY <1>2 DEF M!RoomFor, MP!RoomFor
  <1> QED BY <1>1, <1>2, <1>3, <1>4, <1>5, <1>6

\* The end of a segment, with the back-fill.
LEMMA SameProceed ==
    ASSUME NEW state, NEW alerts, NEW closes
    PROVE  M!Proceed(state, alerts, closes) <=> MP!Proceed(state, alerts, closes)
  BY DEF M!Proceed, MP!Proceed, M!BackFill, MP!BackFill, M!None, MP!None,
         M!FreshIncident, MP!FreshIncident, M!Monitored, MP!Monitored

\* The actions that use them.
LEMMA SameFinish == M!FinishProbing <=> MP!FinishProbing
  <1>1. \A results : M!ApplyResults(results) <=> MP!ApplyResults(results)
    BY SameResults, SameProceed DEF M!ApplyResults, MP!ApplyResults
  <1> QED BY <1>1 DEF M!FinishProbing, MP!FinishProbing

\* An alert handed over.
LEMMA SameSend == \A a : M!Send(a) <=> MP!Send(a)
  BY SameProceed DEF M!Send, MP!Send, M!HandOver, MP!HandOver

\* So the two copies start and step alike.
LEMMA SameMonitor ==
    /\ M!Init <=> MP!Init
    /\ [M!Next]_(M!vars) <=> [MP!Next]_(MP!vars)
  <1> USE DEF M!None, MP!None, M!NewHost, MP!NewHost, M!Monitored, MP!Monitored
  <1>1. M!Init <=> MP!Init
    BY DEF M!Init, MP!Init
  <1>2. /\ M!StartRound <=> MP!StartRound
        /\ M!ProbeRaises <=> MP!ProbeRaises
    BY DEF M!StartRound, MP!StartRound, M!ProbeRaises, MP!ProbeRaises
  <1>3. M!SendNext <=> MP!SendNext
    BY SameSend DEF M!SendNext, MP!SendNext
  <1>4. \A targets : /\ M!Reload(targets) <=> MP!Reload(targets)
                     /\ M!Restart(targets) <=> MP!Restart(targets)
    <2>1. \A targets : M!Reload(targets) <=> MP!Reload(targets)
      BY DEF M!Reload, MP!Reload, M!Moved, MP!Moved
    <2>2. \A targets : M!Restart(targets) <=> MP!Restart(targets)
      BY DEF M!Restart, MP!Restart, M!HandOver, MP!HandOver
    <2> QED BY <2>1, <2>2
  <1>5. \A h : M!GraceEnds(h) <=> MP!GraceEnds(h)
    BY DEF M!GraceEnds, MP!GraceEnds
  <1>6. M!Next <=> MP!Next
    BY <1>2, <1>3, <1>4, <1>5, SameFinish DEF M!Next, MP!Next, M!Service, MP!Service
  <1> QED BY <1>1, <1>6 DEF M!vars, MP!vars
-----------------------------------------------------------------------------
(* Pipeline's copy of Outbox is the one OutboxProofs is about *)

\* O!Enqueue and the like say the same as OP!Enqueue when they are expanded.
LEMMA SameWorker == O!Worker <=> OP!Worker
  <1> USE DEF O!tables, OP!tables, O!task, OP!task, O!history, OP!history,
              O!AbortTick, OP!AbortTick, O!InFlight, OP!InFlight, O!Delivery,
              OP!Delivery, O!Due, OP!Due, O!IsExhausted, OP!IsExhausted,
              O!Outcome, OP!Outcome, O!MarkDead, OP!MarkDead
  <1>1. /\ O!StartTick <=> OP!StartTick
        /\ O!EndTick <=> OP!EndTick
        /\ O!MarkFails <=> OP!MarkFails
    BY DEF O!StartTick, OP!StartTick, O!EndTick, OP!EndTick, O!MarkFails, OP!MarkFails
  <1>2. ASSUME NEW c
        PROVE  /\ O!Claim(c) <=> OP!Claim(c)
               /\ O!ClaimFails(c) <=> OP!ClaimFails(c)
    <2>1. \A S : O!LimitOf(S) = OP!LimitOf(S)
      BY DEF O!LimitOf, OP!LimitOf, O!Cardinality, OP!Cardinality
    <2>2. \A k, S : O!kSubset(k, S) = OP!kSubset(k, S)
      BY DEF O!kSubset, OP!kSubset, O!Cardinality, OP!Cardinality
    <2>3. O!Claim(c) <=> OP!Claim(c)
      BY <2>1, <2>2 DEF O!Claim, OP!Claim
    <2>4. O!ClaimFails(c) <=> OP!ClaimFails(c)
      BY DEF O!ClaimFails, OP!ClaimFails
    <2> QED BY <2>3, <2>4
  <1>3. ASSUME NEW d
        PROVE  /\ O!CallTransport(d) <=> OP!CallTransport(d)
               /\ O!GiveUp(d) <=> OP!GiveUp(d)
    BY DEF O!CallTransport, OP!CallTransport, O!GiveUp, OP!GiveUp
  <1>4. ASSUME NEW outcome
        PROVE  O!TransportAnswers(outcome) <=> OP!TransportAnswers(outcome)
    BY DEF O!TransportAnswers, OP!TransportAnswers
  <1>5. O!RecordOutcome <=> OP!RecordOutcome
    BY DEF O!RecordOutcome, OP!RecordOutcome, O!Mark, OP!Mark, O!MarkDelivered,
           OP!MarkDelivered, O!MarkRetry, OP!MarkRetry
  <1> QED BY <1>1, <1>2, <1>3, <1>4, <1>5 DEF O!Worker, OP!Worker

\* The tables as a restart finds them.
LEMMA SameRestart == O!Restart <=> OP!Restart
  BY DEF O!Restart, OP!Restart, O!Reclaimed, OP!Reclaimed, O!Delivery, OP!Delivery,
         O!ChannelsOf, OP!ChannelsOf, O!AbortTick, OP!AbortTick

\* And so the copies of the outbox start and step alike.
LEMMA SameOutbox ==
    /\ O!Init <=> OP!Init
    /\ [O!Next]_(O!vars) <=> [OP!Next]_(OP!vars)
    /\ O!InFlightIsHeld <=> OP!InFlightIsHeld
  <1> USE DEF O!tables, OP!tables, O!task, OP!task, O!history, OP!history,
              O!Delivery, OP!Delivery
  <1>1. O!Init <=> OP!Init
    BY DEF O!Init, OP!Init, O!ChannelsOf, OP!ChannelsOf
  <1>2. /\ \A e : O!Enqueue(e) <=> OP!Enqueue(e)
        /\ \A c : O!InsertDelivery(c) <=> OP!InsertDelivery(c)
        /\ O!EnqueueFails <=> OP!EnqueueFails
    BY DEF O!Enqueue, OP!Enqueue, O!InsertDelivery, OP!InsertDelivery,
           O!Missing, OP!Missing, O!EnqueueFails, OP!EnqueueFails
  <1>3. /\ \A d : O!BackoffEnds(d) <=> OP!BackoffEnds(d)
        /\ O!RequestStop <=> OP!RequestStop
        /\ O!WorkerStops <=> OP!WorkerStops
    BY DEF O!BackoffEnds, OP!BackoffEnds, O!RequestStop, OP!RequestStop,
           O!WorkerStops, OP!WorkerStops
  <1>4. O!Next <=> OP!Next
    BY <1>2, <1>3, SameWorker, SameRestart DEF O!Next, OP!Next
  <1>5. O!InFlightIsHeld <=> OP!InFlightIsHeld
    BY DEF O!InFlightIsHeld, OP!InFlightIsHeld, O!Held, OP!Held
  <1> QED BY <1>1, <1>4, <1>5 DEF O!vars, OP!vars
-----------------------------------------------------------------------------
(* The inductive invariant *)

\* The events in the table are the issued ones, and only they have rows.
EventsOK ==
    /\ issued \in Seq(MP!Alert) /\ Len(issued) <= MaxEvents
    /\ stored = 1..Len(issued)
    /\ \A e \in (1..MaxEvents) \ stored, c \in Channel : row[<<e, c>>] = "none"

\* The enqueue under way writes the last event, of an alert the round is
\* waiting to have sent, and a channel has no row of it yet.
EnqueueOK ==
    enqueuing # 0 =>
        /\ enqueuing = Len(issued) /\ pc = "sending"
        /\ issued[enqueuing] \in queue
        /\ \E c \in active : row[<<enqueuing, c>>] = "none"

\* Every other event is of an alert that the monitor counts as sent.
HandedOver(a) == MP!InLog(sent[a.host], a.type, a.incident)

SentOK == \A e \in 1..Len(issued) : e # enqueuing => HandedOver(issued[e])

\* Every configured channel has a row for the host_down of an incident a host
\* holds, unless that alert is still to be sent, and of one about to be closed.
Told(h, i) ==
    \E f \in 1..Len(issued) : /\ Announces(f, "host_down", h, i)
                              /\ \A c \in active : row[<<f, c>>] # "none"

ToldOK ==
    active # {} =>
        /\ \A h \in Host : hs[h].incident # 0 =>
             \/ Told(h, hs[h].incident)
             \/ M!Queued(h, "host_down", hs[h].incident)
        /\ \A a \in queue : a.type = "host_recovered" => Told(a.host, a.incident)

PartsOK == MP!IInv /\ OP!IInv /\ OP!InFlightIsHeld

WayOK == EventsOK /\ EnqueueOK /\ SentOK /\ ToldOK /\ RecoveryFollowsDown /\ OneEventPerAlert

PInv == PartsOK /\ WayOK
-----------------------------------------------------------------------------
(* The parts make their own steps *)

\* What the steps of the parts need to know of their types.
LEMMA PartTypes ==
    ASSUME PartsOK
    PROVE  /\ active \subseteq Channel
           /\ pc = "sending" <=> queue # {}
           /\ queue \subseteq MP!Alert
           /\ row \in [(1..MaxEvents) \X Channel -> {"none", "pending", "in_flight",
                                                    "delivered", "dead"}]
  <1>1. /\ active \subseteq Channel
        /\ row \in [(1..MaxEvents) \X Channel -> {"none", "pending", "in_flight"}
                                                   \cup {"delivered", "dead"}]
    BY DEF PartsOK, OP!IInv, OP!TypeOK, OP!Delivery, OP!Terminal
  <1>2. /\ pc = "sending" <=> queue # {}
        /\ queue \subseteq MP!Alert
    BY DEF PartsOK, MP!IInv, MP!TypeOK
  <1> QED BY <1>1, <1>2

\* A step of the pipeline is a step of the monitor or leaves it alone.
LEMMA MonitorStep ==
    ASSUME EnqueueOK, [Next]_vars
    PROVE  [M!Next]_(M!vars)
  <1>1. CASE Monitoring
    BY <1>1 DEF Monitoring, M!Next, M!Service
  <1>2. ASSUME NEW a \in queue, SendToNobody(a)
        PROVE  M!Next
    BY <1>2 DEF SendToNobody, M!Next, M!Service, M!SendNext
  <1>3. ASSUME NEW c \in Channel, InsertDelivery(c)
        PROVE  [M!Next]_(M!vars)
    <2>1. CASE M!Send(issued[enqueuing])
      <3>1. issued[enqueuing] \in queue
        BY <1>3 DEF InsertDelivery, O!InsertDelivery, EnqueueOK
      <3> QED BY <2>1, <3>1 DEF M!Next, M!Service, M!SendNext
    <2> QED BY <1>3, <2>1 DEF InsertDelivery, SendReturns, monitor, M!vars
  <1>4. CASE Restart
    BY <1>4 DEF Restart, M!Next
  <1>5. CASE UNCHANGED monitor
    BY <1>5 DEF monitor, M!vars
  <1> QED BY <1>1, <1>2, <1>3, <1>4, <1>5
          DEF Next, BeginSend, Delivering, RequestStop, vars

\* And it is a step of the outbox or leaves that alone.
LEMMA OutboxStep ==
    ASSUME EventsOK, [Next]_vars
    PROVE  [O!Next]_(O!vars)
  <1>1. ASSUME NEW a \in queue, BeginSend(a)
        PROVE  O!Next
    <2>1. Len(issued) + 1 \in 1..MaxEvents
      BY <1>1, PipelineAssumption DEF BeginSend, EventsOK
    <2> QED BY <1>1, <2>1 DEF BeginSend, O!Next
  <1>2. ASSUME NEW c \in Channel, InsertDelivery(c)
        PROVE  O!Next
    BY <1>2 DEF InsertDelivery, O!Next
  <1>3. CASE Delivering \/ RequestStop \/ Restart
    BY <1>3 DEF Delivering, RequestStop, Restart, O!Next
  <1>4. CASE UNCHANGED outbox
    BY <1>4 DEF outbox, O!vars, O!tables, O!task, O!history
  <1> QED BY <1>1, <1>2, <1>3, <1>4 DEF Next, Monitoring, SendToNobody, vars

\* So the parts keep their own invariants.
LEMMA PartsStep ==
    ASSUME PInv, [Next]_vars
    PROVE  PartsOK'
  <1>1. [MP!Next]_(MP!vars) /\ [OP!Next]_(OP!vars)
    BY MonitorStep, OutboxStep, SameMonitor, SameOutbox DEF PInv, WayOK
  <1>2. MP!IInv'
    BY <1>1, MonitorAssumes, MP!StepInv DEF PInv, PartsOK
  <1>3. OP!IInv'
    BY <1>1, OutboxAssumes, OP!StepInv DEF PInv, PartsOK
  <1>4. OP!InFlightIsHeld'
    BY <1>1, OutboxAssumes, OP!HeldStep DEF PInv, PartsOK
  <1> QED BY <1>2, <1>3, <1>4 DEF PartsOK
-----------------------------------------------------------------------------
(* The pipeline starts well *)

\* Nothing is issued, held or queued yet.
LEMMA StartsWell == Init => PInv
  <1> SUFFICES ASSUME Init PROVE PInv
    OBVIOUS
  <1>1. MP!IInv /\ OP!IInv
    BY SameMonitor, SameOutbox, MonitorAssumes, OutboxAssumes, MP!InitInv, OP!InitInv
        DEF Init
  <1>2. OP!InFlightIsHeld
    BY DEF Init, O!Init, O!Delivery, OP!InFlightIsHeld, OP!Delivery
  <1>3. issued = <<>> /\ stored = {} /\ enqueuing = 0 /\ queue = {}
    BY DEF Init, O!Init, M!Init
  <1>4. EventsOK
    BY <1>3, PipelineAssumption DEF Init, O!Init, O!Delivery, EventsOK
  <1>5. EnqueueOK /\ SentOK /\ RecoveryFollowsDown /\ OneEventPerAlert
    BY <1>3 DEF EnqueueOK, SentOK, RecoveryFollowsDown, OneEventPerAlert
  <1>6. ToldOK
    BY <1>3 DEF Init, M!Init, M!NewHost, M!None, ToldOK
  <1> QED BY <1>1, <1>2, <1>4, <1>5, <1>6 DEF PInv, PartsOK, WayOK
-----------------------------------------------------------------------------
(* Every step keeps an alert on its way *)

\* Rows are there, and not there, as before.
RowsStay ==
    \A e \in 1..MaxEvents, c \in Channel : row'[<<e, c>>] = "none" <=> row[<<e, c>>] = "none"

\* What was told stays told while the channels stay and rows are only added.
LEMMA ToldStays ==
    ASSUME NEW h, NEW i, Told(h, i), active' = active, active \subseteq Channel,
           EventsOK, issued' = issued,
           \A e \in 1..MaxEvents, c \in Channel :
             row[<<e, c>>] # "none" => row'[<<e, c>>] # "none"
    PROVE  Told(h, i)'
  <1>1. PICK f \in 1..Len(issued) : /\ Announces(f, "host_down", h, i)
                                    /\ \A c \in active : row[<<f, c>>] # "none"
    BY DEF Told
  <1>2. f \in 1..MaxEvents
    BY PipelineAssumption DEF EventsOK
  <1> QED BY <1>1, <1>2 DEF Told, Announces

\* A step that adds neither events nor rows keeps recoveries behind their
\* host_down.
LEMMA RecoveryStays ==
    ASSUME EventsOK, RecoveryFollowsDown, RowsStay, issued' = issued
    PROVE  RecoveryFollowsDown'
  <1>1. \A e \in 1..Len(issued) : e \in 1..MaxEvents /\ \A f \in 1..e - 1 : f \in 1..MaxEvents
    BY PipelineAssumption DEF EventsOK
  <1> QED BY <1>1 DEF RecoveryFollowsDown, RowsStay, Announces

\* The monitor's own steps.
LEMMA MonitoringWay ==
    ASSUME PInv, Monitoring
    PROVE  WayOK'
  <1>1. UNCHANGED <<stored, row, active, enqueuing, issued>>
    BY DEF Monitoring, outbox
  <1>2. sent' = sent
    BY DEF Monitoring, M!StartRound, M!ProbeRaises, M!FinishProbing, M!ApplyResults,
           M!Reload
  <1>3. EventsOK' /\ RecoveryFollowsDown' /\ OneEventPerAlert'
    BY <1>1 DEF PInv, WayOK, EventsOK, RecoveryFollowsDown, OneEventPerAlert, Announces
  <1>4. SentOK'
    BY <1>1, <1>2 DEF PInv, WayOK, SentOK, HandedOver, MP!InLog
  <1>5. EnqueueOK'
    <2>1. enqueuing # 0 => UNCHANGED <<pc, queue>>
      BY DEF PInv, WayOK, EnqueueOK, Monitoring, M!StartRound, M!ProbeRaises,
             M!FinishProbing, M!ApplyResults, M!Reload
    <2> QED BY <1>1, <2>1 DEF PInv, WayOK, EnqueueOK
  <1>6. ToldOK'
    <2> SUFFICES ASSUME active # {} PROVE
             /\ \A h \in Host : hs'[h].incident # 0 =>
                  \/ Told(h, hs'[h].incident)
                  \/ [host |-> h, type |-> "host_down", incident |-> hs'[h].incident]
                       \in queue'
             /\ \A a \in queue' : a.type = "host_recovered" => Told(a.host, a.incident)
      BY <1>1 DEF ToldOK, Told, Announces, M!Queued
    <2>1. /\ \A h \in Host : hs[h].incident # 0 =>
               \/ Told(h, hs[h].incident)
               \/ [host |-> h, type |-> "host_down", incident |-> hs[h].incident] \in queue
          /\ \A a \in queue : a.type = "host_recovered" => Told(a.host, a.incident)
      BY DEF PInv, WayOK, ToldOK, M!Queued
    <2>2. CASE UNCHANGED <<hs, queue>>
      BY <2>1, <2>2
    <2>3. ASSUME NEW targets \in SUBSET Host, M!Reload(targets)
          PROVE  queue' = queue /\ \A h \in Host : hs'[h].incident \in {0, hs[h].incident}
      BY <2>3 DEF M!Reload, M!NewHost, M!None
    <2>4. CASE M!FinishProbing
      <3>1. MP!FinishProbing /\ MP!IInv
        BY <2>4, SameFinish DEF PInv, PartsOK
      <3>2. /\ \A h \in Host :
                 \/ hs'[h].incident \in {0, hs[h].incident}
                 \/ [host |-> h, type |-> "host_down", incident |-> hs'[h].incident]
                      \in queue'
            /\ \A a \in queue' : a.type = "host_recovered" =>
                 /\ a.host \in Host /\ hs[a.host].incident # 0
                 /\ a.incident = hs[a.host].incident
        BY <3>1, MonitorAssumes, MP!FinishIncidents DEF MP!None
      <3>3. queue = {}
        BY <2>4, PartTypes DEF PInv, M!FinishProbing, M!ApplyResults
      <3> QED BY <2>1, <3>2, <3>3
    <2> QED BY <2>1, <2>2, <2>3, <2>4 DEF Monitoring, M!StartRound, M!ProbeRaises
  <1> QED BY <1>3, <1>4, <1>5, <1>6 DEF WayOK

\* The thread inserts an event.
LEMMA BeginSendWay ==
    ASSUME PInv, NEW a \in queue, BeginSend(a)
    PROVE  WayOK'
  <1> DEFINE n == Len(issued) + 1
  <1>1. /\ Len(issued) < MaxEvents /\ pc = "sending"
        /\ active # {} /\ enqueuing = 0
        /\ stored' = stored \cup {n} /\ enqueuing' = n
        /\ issued' = Append(issued, a)
        /\ UNCHANGED <<row, active, pc, hs, queue, sent>>
    BY DEF BeginSend, O!Enqueue, monitor
  <1>2. /\ issued \in Seq(MP!Alert) /\ a \in MP!Alert /\ active \subseteq Channel
        /\ Len(issued) \in Nat /\ Len(issued) <= MaxEvents
    BY PartTypes DEF PInv, WayOK, EventsOK
  <1>3. /\ issued' \in Seq(MP!Alert) /\ Len(issued') = n /\ issued'[n] = a
        /\ \A e \in 1..Len(issued) : issued'[e] = issued[e]
    BY <1>1, <1>2
  <1>4. n \in 1..MaxEvents /\ n \notin stored /\ 1..n = (1..Len(issued)) \cup {n}
    BY <1>1, <1>2, PipelineAssumption DEF PInv, WayOK, EventsOK
  <1>5. \A c \in Channel : row[<<n, c>>] = "none"
    BY <1>4 DEF PInv, WayOK, EventsOK
  <1>6. EventsOK'
    <2>1. \A e \in (1..MaxEvents) \ stored', c \in Channel : row'[<<e, c>>] = "none"
      BY <1>1 DEF PInv, WayOK, EventsOK
    <2>2. stored' = 1..Len(issued')
      BY <1>1, <1>3, <1>4 DEF PInv, WayOK, EventsOK
    <2>3. Len(issued') <= MaxEvents
      BY <1>3, <1>4
    <2> QED BY <1>3, <2>1, <2>2, <2>3 DEF EventsOK
  <1>7. EnqueueOK'
    BY <1>1, <1>2, <1>3, <1>5 DEF EnqueueOK
  <1>8. \A e \in 1..Len(issued) : HandedOver(issued[e])
    BY <1>1, <1>2 DEF PInv, WayOK, SentOK
  <1>9. SentOK'
    <2> SUFFICES ASSUME NEW e \in 1..n, e # n
                 PROVE  MP!InLog(sent[issued'[e].host], issued'[e].type, issued'[e].incident)
      BY <1>1, <1>3 DEF SentOK, HandedOver, MP!InLog
    <2>1. e \in 1..Len(issued)
      BY <1>4
    <2> QED BY <1>3, <1>8, <2>1 DEF HandedOver
  <1>10. ToldOK'
    <2>1. ASSUME NEW h, NEW i, Told(h, i)
          PROVE  Told(h, i)'
      BY <1>1, <1>3, <1>4, <2>1 DEF Told, Announces
    <2> QED BY <1>1, <2>1 DEF PInv, WayOK, ToldOK, M!Queued
  <1>11. RecoveryFollowsDown'
    <2> SUFFICES ASSUME NEW e \in 1..n, NEW c \in Channel,
                        issued'[e].type = "host_recovered", row[<<e, c>>] # "none"
                 PROVE  \E f \in 1..e - 1 :
                          /\ issued'[f] = [host |-> issued'[e].host, type |-> "host_down",
                                           incident |-> issued'[e].incident]
                          /\ row[<<f, c>>] # "none"
      BY <1>1, <1>3 DEF RecoveryFollowsDown, Announces
    <2>1. e \in 1..Len(issued)
      BY <1>4, <1>5
    <2>2. PICK f \in 1..e - 1 :
            /\ Announces(f, "host_down", issued[e].host, issued[e].incident)
            /\ row[<<f, c>>] # "none"
      BY <1>3, <2>1 DEF PInv, WayOK, RecoveryFollowsDown
    <2>3. f \in 1..Len(issued)
      BY <1>2, <2>1
    <2> QED BY <1>3, <2>1, <2>2, <2>3 DEF Announces
  <1>12. OneEventPerAlert'
    <2>1. ~HandedOver(a)
      BY MonitorAssumes, MP!QueuedIsUnsent DEF PInv, PartsOK, HandedOver
    <2>2. \A e \in 1..Len(issued) : issued'[e] # a
      BY <1>3, <1>8, <2>1
    <2> QED BY <1>3, <1>4, <2>2 DEF PInv, WayOK, OneEventPerAlert
  <1> QED BY <1>6, <1>7, <1>9, <1>10, <1>11, <1>12 DEF WayOK

\* An alert leaves the queue: it is in the history, the hosts hold what they held
\* and new incidents are queued.
LEMMA SendKeeps ==
    ASSUME PartsOK, NEW a \in queue, M!Send(a)
    PROVE  /\ \A b : b.host \in Host /\ (HandedOver(b) \/ b = a) => HandedOver(b)'
           /\ queue \ {a} \subseteq queue'
           /\ \A b \in queue' : b \in queue \ {a} \/ b.type = "host_down"
           /\ \A h \in Host :
                \/ hs'[h].incident = hs[h].incident
                \/ [host |-> h, type |-> "host_down", incident |-> hs'[h].incident]
                     \in queue'
  <1>1. MP!Send(a) /\ MP!IInv
    BY SameSend DEF PartsOK
  <1>2. PICK answer \in BOOLEAN : MP!HandOver(a, answer)
    BY <1>1 DEF MP!Send
  <1>3. ASSUME NEW b, b.host \in Host, HandedOver(b) \/ b = a
        PROVE  HandedOver(b)'
    <2>1. \A type, i : MP!InLog(sent'[b.host], type, i) <=>
            \/ MP!InLog(sent[b.host], type, i)
            \/ b.host = a.host /\ type = a.type /\ i = a.incident
      BY <1>1, <1>2, <1>3, MonitorAssumes, MP!HandOverLogs
    <2>2. MP!InLog(sent'[b.host], b.type, b.incident)
      BY <1>3, <2>1 DEF HandedOver
    <2> QED BY <2>2 DEF HandedOver, MP!InLog
  <1>4. MP!Proceed(hs, queue \ {a}, closing) /\ hs \in [Host -> MP!HostStates]
    BY <1>1 DEF MP!Send, MP!IInv, MP!TypeOK
  <1> QED BY <1>3, <1>4, MonitorAssumes, MP!ProceedIncidents

\* The thread inserts a row; with the last one the round goes on.
LEMMA InsertDeliveryWay ==
    ASSUME PInv, NEW c \in Channel, InsertDelivery(c)
    PROVE  WayOK'
  <1> DEFINE n == enqueuing
             a == issued[n]
  <1>1. /\ n # 0 /\ c \in active /\ row[<<n, c>>] = "none"
        /\ row' = [row EXCEPT ![<<n, c>>] = "pending"]
        /\ enqueuing' = IF O!Missing(n) = {c} THEN 0 ELSE n
        /\ UNCHANGED <<stored, active, issued>>
    BY DEF InsertDelivery, O!InsertDelivery, O!Missing
  <1>2. /\ n = Len(issued) /\ pc = "sending" /\ a \in queue
        /\ active \subseteq Channel
        /\ row \in [(1..MaxEvents) \X Channel -> {"none", "pending", "in_flight",
                                                 "delivered", "dead"}]
    BY <1>1, PartTypes DEF PInv, WayOK, EnqueueOK
  <1>3. /\ issued \in Seq(MP!Alert) /\ Len(issued) \in Nat /\ Len(issued) <= MaxEvents
        /\ n \in 1..MaxEvents /\ n \in 1..Len(issued)
    <2>1. issued \in Seq(MP!Alert) /\ Len(issued) <= MaxEvents
      BY DEF PInv, WayOK, EventsOK
    <2> QED BY <1>1, <1>2, <2>1, PipelineAssumption
  <1>4. \A e \in 1..MaxEvents, k \in Channel :
          /\ row'[<<e, k>>] = IF e = n /\ k = c THEN "pending" ELSE row[<<e, k>>]
          /\ row[<<e, k>>] # "none" => row'[<<e, k>>] # "none"
    BY <1>1, <1>2
  <1>5. EventsOK'
    <2>1. n \in stored
      BY <1>2, <1>3 DEF PInv, WayOK, EventsOK
    <2>2. \A e \in (1..MaxEvents) \ stored, k \in Channel : row'[<<e, k>>] = "none"
      BY <1>4, <2>1 DEF PInv, WayOK, EventsOK
    <2> QED BY <1>1, <2>2 DEF PInv, WayOK, EventsOK
  <1>6. \A h, i : Told(h, i) => Told(h, i)'
    BY <1>1, <1>2, <1>4, ToldStays DEF PInv, WayOK
  <1>7. RecoveryFollowsDown'
    <2> SUFFICES ASSUME NEW e \in 1..Len(issued), NEW k \in Channel,
                        issued[e].type = "host_recovered", row'[<<e, k>>] # "none"
                 PROVE  \E f \in 1..e - 1 :
                          /\ Announces(f, "host_down", issued[e].host, issued[e].incident)
                          /\ row'[<<f, k>>] # "none"
      BY <1>1 DEF RecoveryFollowsDown, Announces
    <2>1. CASE e = n /\ k = c
      <3>1. Told(a.host, a.incident)
        BY <1>1, <1>2, <2>1 DEF PInv, WayOK, ToldOK
      <3>2. PICK f \in 1..Len(issued) :
              /\ Announces(f, "host_down", a.host, a.incident)
              /\ \A j \in active : row[<<f, j>>] # "none"
        BY <3>1 DEF Told
      <3>3. f # e /\ f \in 1..e - 1 /\ f \in 1..MaxEvents
        BY <1>2, <1>3, <2>1, <3>2, PipelineAssumption DEF Announces
      <3> QED BY <1>1, <1>4, <2>1, <3>2, <3>3
    <2>2. CASE ~(e = n /\ k = c)
      <3>1. row[<<e, k>>] # "none"
        BY <1>3, <1>4, <2>2, PipelineAssumption
      <3>2. PICK f \in 1..e - 1 :
              /\ Announces(f, "host_down", issued[e].host, issued[e].incident)
              /\ row[<<f, k>>] # "none"
        BY <3>1 DEF PInv, WayOK, RecoveryFollowsDown
      <3>3. f \in 1..MaxEvents
        BY <1>3, PipelineAssumption
      <3> QED BY <1>4, <3>2, <3>3
    <2> QED BY <2>1, <2>2
  <1>8. OneEventPerAlert'
    BY <1>1 DEF PInv, WayOK, OneEventPerAlert
  <1>9. CASE O!Missing(n) # {c}
    <2>1. UNCHANGED monitor /\ enqueuing' = n
      BY <1>1, <1>9 DEF InsertDelivery, SendReturns
    <2>2. PICK k \in active : k # c /\ row[<<n, k>>] = "none"
      BY <1>1, <1>9 DEF O!Missing
    <2>3. row'[<<n, k>>] = "none"
      BY <1>2, <1>3, <1>4, <2>2
    <2>4. EnqueueOK'
      BY <1>1, <1>2, <2>1, <2>2, <2>3 DEF EnqueueOK, monitor
    <2>5. SentOK'
      BY <1>1, <2>1 DEF PInv, WayOK, SentOK, HandedOver, MP!InLog, monitor
    <2>6. ToldOK'
      BY <1>1, <1>6, <2>1 DEF PInv, WayOK, ToldOK, M!Queued, monitor
    <2> QED BY <1>5, <1>7, <1>8, <2>4, <2>5, <2>6 DEF WayOK
  <1>10. CASE O!Missing(n) = {c}
    <2>1. M!Send(a) /\ enqueuing' = 0
      BY <1>1, <1>10 DEF InsertDelivery, SendReturns
    <2>2. /\ \A b : b.host \in Host /\ (HandedOver(b) \/ b = a) => HandedOver(b)'
          /\ queue \ {a} \subseteq queue'
          /\ \A b \in queue' : b \in queue \ {a} \/ b.type = "host_down"
          /\ \A h \in Host :
               \/ hs'[h].incident = hs[h].incident
               \/ [host |-> h, type |-> "host_down", incident |-> hs'[h].incident]
                    \in queue'
      BY <1>2, <2>1, SendKeeps DEF PInv
    <2>3. EnqueueOK'
      BY <2>1 DEF EnqueueOK
    <2>4. SentOK'
      <3> SUFFICES ASSUME NEW e \in 1..Len(issued)
                   PROVE  HandedOver(issued[e])'
        BY <1>1 DEF SentOK, HandedOver, MP!InLog
      <3>1. issued[e].host \in Host
        <4>1. issued[e] \in MP!Alert
          BY <1>3
        <4> QED BY <4>1 DEF MP!Alert
      <3>2. HandedOver(issued[e]) \/ issued[e] = a
        BY DEF PInv, WayOK, SentOK
      <3>3. \A b : b = issued[e] => HandedOver(b)'
        BY <2>2, <3>1, <3>2
      <3> QED BY <1>1, <3>3 DEF HandedOver, MP!InLog
    <2>5. ASSUME NEW h, NEW i, a = [host |-> h, type |-> "host_down", incident |-> i]
          PROVE  Told(h, i)'
      <3>1. \A k \in active : row'[<<n, k>>] # "none"
        BY <1>2, <1>3, <1>4, <1>10 DEF O!Missing
      <3> HIDE DEF n
      <3> QED BY <1>1, <1>3, <2>5, <3>1 DEF Told, Announces
    <2>6. ToldOK'
      <3> SUFFICES ASSUME active # {}
                   PROVE  /\ \A h \in Host : \A i : hs'[h].incident = i /\ i # 0 =>
                               \/ Told(h, i)'
                               \/ [host |-> h, type |-> "host_down", incident |-> i] \in queue'
                          /\ \A b \in queue' : b.type = "host_recovered" =>
                               Told(b.host, b.incident)'
        BY <1>1 DEF ToldOK, Told, Announces, M!Queued
      <3>1. ASSUME NEW h \in Host, NEW i, hs'[h].incident = i, i # 0,
                   [host |-> h, type |-> "host_down", incident |-> i] \notin queue'
            PROVE  Told(h, i)'
        <4>1. hs[h].incident = i
          BY <2>2, <3>1
        <4>2. \/ Told(h, i)
              \/ [host |-> h, type |-> "host_down", incident |-> i] \in queue
          BY <3>1, <4>1 DEF PInv, WayOK, ToldOK, M!Queued
        <4>3. CASE [host |-> h, type |-> "host_down", incident |-> i] \in queue
          BY <2>2, <2>5, <3>1, <4>3
        <4> QED BY <1>6, <4>2, <4>3
      <3>2. ASSUME NEW b \in queue', b.type = "host_recovered"
            PROVE  Told(b.host, b.incident)'
        <4>1. b \in queue
          BY <2>2, <3>2
        <4> QED BY <1>6, <3>2, <4>1 DEF PInv, WayOK, ToldOK
      <3> QED BY <3>1, <3>2
    <2> QED BY <1>5, <1>7, <1>8, <2>3, <2>4, <2>6 DEF WayOK
  <1> QED BY <1>9, <1>10

\* Without a channel an alert is gone the moment it is sent.
LEMMA SendToNobodyWay ==
    ASSUME PInv, NEW a \in queue, SendToNobody(a)
    PROVE  WayOK'
  <1>1. /\ active = {} /\ M!Send(a)
        /\ UNCHANGED <<stored, row, active, enqueuing, issued>>
    BY DEF SendToNobody, outbox
  <1>2. EventsOK' /\ RecoveryFollowsDown' /\ OneEventPerAlert'
    BY <1>1 DEF PInv, WayOK, EventsOK, RecoveryFollowsDown, OneEventPerAlert, Announces
  <1>3. EnqueueOK' /\ ToldOK'
    BY <1>1 DEF PInv, WayOK, EnqueueOK, ToldOK
  <1>4. SentOK'
    <2> SUFFICES ASSUME NEW e \in 1..Len(issued), e # enqueuing
                 PROVE  HandedOver(issued[e])'
      BY <1>1 DEF SentOK, HandedOver, MP!InLog
    <2>1. issued[e].host \in Host
      <3>1. issued[e] \in MP!Alert
        BY DEF PInv, WayOK, EventsOK
      <3> QED BY <3>1 DEF MP!Alert
    <2>2. \A b : b = issued[e] => HandedOver(b)'
      BY <1>1, <2>1, SendKeeps DEF PInv, WayOK, SentOK
    <2> QED BY <1>1, <2>2 DEF HandedOver, MP!InLog
  <1> QED BY <1>2, <1>3, <1>4 DEF WayOK

\* The worker's steps, the stop and the stuttering leave rows, events, rounds and
\* channels as they are.
LEMMA OutboxWay ==
    ASSUME PInv, Delivering \/ RequestStop \/ UNCHANGED vars
    PROVE  WayOK'
  <1>1. UNCHANGED <<monitor, stored, active, enqueuing, issued>> /\ RowsStay
    <2>0. /\ row \in [(1..MaxEvents) \X Channel -> {"none", "pending", "in_flight",
                                                   "delivered", "dead"}]
      BY PartTypes DEF PInv
    <2>1. CASE O!Worker /\ UNCHANGED <<monitor, issued>>
      <3>1. OP!SameRows /\ UNCHANGED <<stored, active, enqueuing>>
        BY <2>1, SameWorker, OutboxAssumes, OP!WorkerKeepsRows DEF PInv, PartsOK
      <3> QED BY <2>1, <3>1 DEF OP!SameRows, OP!Delivery, RowsStay
    <2>2. CASE (\E d \in O!Delivery : O!BackoffEnds(d)) /\ UNCHANGED <<monitor, issued>>
      BY <2>2 DEF O!BackoffEnds, RowsStay
    <2>3. CASE O!WorkerStops /\ UNCHANGED <<monitor, issued>>
      BY <2>3 DEF O!WorkerStops, O!tables, RowsStay
    <2>4. CASE RequestStop
      BY <2>4 DEF RequestStop, O!RequestStop, O!tables, RowsStay
    <2>5. CASE UNCHANGED vars
      BY <2>5 DEF vars, outbox, RowsStay
    <2> QED BY <2>1, <2>2, <2>3, <2>4, <2>5 DEF Delivering
  <1>2. UNCHANGED <<pc, hs, queue, sent>> /\ EventsOK /\ active \subseteq Channel
    BY <1>1, PartTypes DEF monitor, PInv, WayOK
  <1>3. EventsOK' /\ RecoveryFollowsDown' /\ OneEventPerAlert'
    <2>1. EventsOK'
      BY <1>1, <1>2 DEF EventsOK, RowsStay
    <2>2. RecoveryFollowsDown' /\ OneEventPerAlert'
      BY <1>1, <1>2, RecoveryStays DEF PInv, WayOK, OneEventPerAlert
    <2> QED BY <2>1, <2>2
  <1>4. EnqueueOK'
    <2>1. enqueuing # 0 => enqueuing \in 1..MaxEvents
      <3>1. enqueuing # 0 => /\ enqueuing = Len(issued) /\ issued \in Seq(MP!Alert)
                             /\ Len(issued) <= MaxEvents
        BY DEF PInv, WayOK, EnqueueOK, EventsOK
      <3>2. enqueuing # 0 => Len(issued) \in Nat
        BY <3>1
      <3> QED BY <3>1, <3>2, PipelineAssumption
    <2> QED BY <1>1, <1>2, <2>1 DEF PInv, WayOK, EnqueueOK, RowsStay
  <1>5. SentOK'
    BY <1>1, <1>2 DEF PInv, WayOK, SentOK, HandedOver, MP!InLog
  <1>6. ToldOK'
    <2>1. \A h, i : Told(h, i) => Told(h, i)'
      BY <1>1, <1>2, ToldStays DEF RowsStay
    <2> QED BY <1>1, <1>2, <2>1 DEF PInv, WayOK, ToldOK, M!Queued
  <1> QED BY <1>3, <1>4, <1>5, <1>6 DEF WayOK

\* A new process holds no incident and has nothing queued; the alert that was
\* being handed over when the old one died counts as handed over.
LEMMA RestartWay ==
    ASSUME PInv, Restart
    PROVE  WayOK'
  <1>1. /\ UNCHANGED <<stored, issued>> /\ RowsStay /\ enqueuing' = 0
        /\ queue' = {} /\ \A h \in Host : hs'[h].incident = 0
    <2>1. OP!SameRows /\ stored' = stored /\ enqueuing' = 0
      BY SameRestart, OutboxAssumes, OP!RestartKeepsRows DEF Restart
    <2>2. queue' = {} /\ issued' = issued /\ \A h \in Host : hs'[h].incident = 0
      BY DEF Restart, M!Restart, M!NewHost, M!None
    <2> QED BY <2>1, <2>2 DEF OP!SameRows, OP!Delivery, RowsStay
  <1>2. EventsOK' /\ RecoveryFollowsDown' /\ OneEventPerAlert'
    <2>1. EventsOK'
      BY <1>1 DEF PInv, WayOK, EventsOK, RowsStay
    <2>2. RecoveryFollowsDown' /\ OneEventPerAlert'
      BY <1>1, RecoveryStays DEF PInv, WayOK, OneEventPerAlert
    <2> QED BY <2>1, <2>2
  <1>3. EnqueueOK' /\ ToldOK'
    BY <1>1 DEF EnqueueOK, ToldOK
  <1>4. SentOK'
    <2> SUFFICES ASSUME NEW e \in 1..Len(issued)
                 PROVE  MP!InLog(sent'[issued[e].host], issued[e].type, issued[e].incident)
      BY <1>1 DEF SentOK, HandedOver, MP!InLog
    <2>1. CASE enqueuing = 0
      BY <2>1 DEF PInv, WayOK, SentOK, HandedOver, Restart
    <2>2. CASE enqueuing # 0
      <3>1. issued[enqueuing] \in queue /\ M!HandOver(issued[enqueuing], FALSE)
        BY <2>2 DEF PInv, WayOK, EnqueueOK, Restart
      <3>2. MP!HandOver(issued[enqueuing], FALSE)
        BY <3>1 DEF M!HandOver, MP!HandOver
      <3>3. issued[e].host \in Host
        <4>1. issued[e] \in MP!Alert
          BY DEF PInv, WayOK, EventsOK
        <4> QED BY <4>1 DEF MP!Alert
      <3>4. e # enqueuing => MP!InLog(sent[issued[e].host], issued[e].type, issued[e].incident)
        BY DEF PInv, WayOK, SentOK, HandedOver
      <3>5. \A a \in queue : MP!HandOver(a, FALSE) =>
              \A type, i : MP!InLog(sent'[issued[e].host], type, i) <=>
                 \/ MP!InLog(sent[issued[e].host], type, i)
                 \/ issued[e].host = a.host /\ type = a.type /\ i = a.incident
        BY <3>3, MonitorAssumes, MP!HandOverLogs DEF PInv, PartsOK
      <3> QED BY <3>1, <3>2, <3>4, <3>5
    <2> QED BY <2>1, <2>2
  <1> QED BY <1>2, <1>3, <1>4 DEF WayOK

\* The invariant survives every step.
LEMMA StepKeeps == PInv /\ [Next]_vars => PInv'
  <1> SUFFICES ASSUME PInv, [Next]_vars PROVE PInv'
    OBVIOUS
  <1>1. WayOK'
    BY MonitoringWay, BeginSendWay, SendToNobodyWay, InsertDeliveryWay, OutboxWay,
       RestartWay DEF Next
  <1> QED BY <1>1, PartsStep DEF PInv

\* Monitor, outbox and the way between them are in order in every reachable state.
THEOREM Inductive == Spec => []PInv
  <1> QED BY StartsWell, StepKeeps, PTL DEF Spec
-----------------------------------------------------------------------------
(* The properties *)

\* The monitoring process in the pipeline is a Monitor: waiting for the outbox's
\* thread only restricts what it may do, so all that is proved of Monitor holds.
THEOREM ContainsMonitor == Spec => M!Spec
  <1>1. Init => M!Init
    BY DEF Init
  <1>2. PInv /\ [Next]_vars => [M!Next]_(M!vars)
    BY MonitorStep DEF PInv, WayOK
  <1> QED BY <1>1, <1>2, Inductive, PTL DEF Spec, M!Spec

\* And its outbox is an Outbox, whose database calls do not raise.
THEOREM ContainsOutbox == Spec => O!Spec
  <1>1. Init => O!Init
    BY DEF Init
  <1>2. PInv /\ [Next]_vars => [O!Next]_(O!vars)
    BY OutboxStep DEF PInv, WayOK
  <1> QED BY <1>1, <1>2, Inductive, PTL DEF Spec, O!Spec

\* On every channel a host_recovered has its host_down queued before it.
THEOREM RecoveriesAreAnswers == Spec => []RecoveryFollowsDown
  <1>1. PInv => RecoveryFollowsDown
    BY DEF PInv, WayOK
  <1> QED BY <1>1, Inductive, PTL

\* An incident a host holds between rounds is queued on every channel.
THEOREM HeldIncidentsAreQueued == Spec => []HeldIncidentIsQueued
  <1>1. PInv => HeldIncidentIsQueued
    <2> SUFFICES ASSUME PInv, pc = "idle", active # {}, NEW h \in Host, hs[h].incident # 0
                 PROVE  Told(h, hs[h].incident)
      BY DEF HeldIncidentIsQueued, Told
    <2>1. queue = {}
      BY PartTypes DEF PInv
    <2> QED BY <2>1 DEF PInv, WayOK, ToldOK, M!Queued
  <1> QED BY <1>1, Inductive, PTL

\* No alert has two events.
THEOREM AlertsHaveOneEvent == Spec => []OneEventPerAlert
  <1>1. PInv => OneEventPerAlert
    BY DEF PInv, WayOK
  <1> QED BY <1>1, Inductive, PTL

\* A row is in_flight only while the worker is on it.
THEOREM InFlightHeld == Spec => []InFlightIsHeld
  <1>1. PInv => InFlightIsHeld
    BY SameOutbox DEF PInv, PartsOK, InFlightIsHeld
  <1> QED BY <1>1, Inductive, PTL
=============================================================================
