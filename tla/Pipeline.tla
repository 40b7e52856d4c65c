------------------------------- MODULE Pipeline -------------------------------
(***************************************************************************)
(* The whole way of an alert: the monitoring process (Monitor) hands it to *)
(* notifier.send, whose thread writes an event and its delivery rows       *)
(* (Outbox) while the round waits, and the worker delivers them.  Both     *)
(* live in one process: a crash takes both, and the outbox's tables alone  *)
(* survive.  Database calls do not raise here (OutboxFaults and            *)
(* MonitorFaults let them).                                                *)
(*                                                                         *)
(* Events are numbered in the order they are issued (uuid4 in the code),   *)
(* and issued is the table outbox's content: the alert of each event.      *)
(***************************************************************************)
EXTENDS Integers, Sequences, FiniteSets

CONSTANTS
    Host, Removable, MassMin, RatioNum, RatioDen, DownAfter, UpAfter,
    MaxAlerts,                                        \* see Monitor
    Channel, NoDelivery, MaxEventAttempts, BatchSize, Reconfigures,
    MaxRestarts,                                      \* see Outbox
    MaxEvents                                         \* bound: events issued

\* What Monitor and Outbox assume of them, and the bound.
ASSUME PipelineAssumption ==
    /\ DownAfter \in Nat \ {0} /\ UpAfter \in Nat \ {0}
    /\ IsFiniteSet(Host) /\ Removable \subseteq Host
    /\ MassMin \in Nat /\ RatioNum \in Nat /\ RatioDen \in Nat /\ MaxAlerts \in Nat
    /\ IsFiniteSet(Channel) /\ MaxEvents \in Nat
    /\ NoDelivery \notin (1..MaxEvents) \X Channel
    /\ MaxEventAttempts \in Nat \ {0} /\ BatchSize \in Nat \ {0}
    /\ Reconfigures \in BOOLEAN /\ MaxRestarts \in Nat

VARIABLES
    pc, place, hs, snapshot, window, closing, queue, sent,
    stored, row, attempts, due, active, enqueuing, worker, stopping, scan, batch,
    current, call, sends, received, refused, restarts,
    issued      \* the alert of every event, in the order they were issued

monitor == <<pc, place, hs, snapshot, window, closing, queue, sent>>
outbox  == <<stored, row, attempts, due, active, enqueuing, worker, stopping, scan,
             batch, current, call, sends, received, refused, restarts>>
vars    == <<monitor, outbox, issued>>

M == INSTANCE Monitor WITH
         WebhookEnabled <- TRUE, GraceExpires <- FALSE, StoreFails <- FALSE,
         Crashes <- TRUE

O == INSTANCE Outbox WITH
         Event <- 1..MaxEvents, NoEvent <- 0, StorageFails <- FALSE

Init == M!Init /\ O!Init /\ issued = <<>>
-----------------------------------------------------------------------------
\* Shutdown waits for the round under way before it stops the worker, so once
\* it stops nothing begins.
Monitoring ==
    /\ \/ M!StartRound /\ ~stopping
       \/ M!ProbeRaises
       \/ M!FinishProbing
       \/ \E targets \in SUBSET Host : M!Reload(targets)
    /\ UNCHANGED <<outbox, issued>>

\* Mutant: the round does not wait for the thread.
BeginSendAndGo(a) ==
    /\ pc = "sending" /\ a \in queue
    /\ Len(issued) < MaxEvents
    /\ O!Enqueue(Len(issued) + 1)
    /\ issued' = Append(issued, a)
    /\ M!Send(a)

\* The thread of notifier.send inserts the event,
BeginSend(a) ==
    /\ pc = "sending" /\ a \in queue
    /\ Len(issued) < MaxEvents
    /\ O!Enqueue(Len(issued) + 1)
    /\ issued' = Append(issued, a)
    /\ UNCHANGED monitor

\* Mutant: a send that took too long is tried again.
SendReturnsLate(c) == M!Send(issued[enqueuing]) \/ UNCHANGED monitor

\* the round goes on when the last row is in.
SendReturns(c) ==
    IF O!Missing(enqueuing) = {c} THEN M!Send(issued[enqueuing]) ELSE UNCHANGED monitor

\* then a delivery row for each channel;
InsertDelivery(c) ==
    /\ O!InsertDelivery(c)
    /\ SendReturns(c)
    /\ UNCHANGED issued

\* Without a channel send does nothing and returns.
SendToNobody(a) ==
    /\ active = {}
    /\ M!Send(a)
    /\ UNCHANGED <<outbox, issued>>

Delivering ==
    /\ \/ O!Worker
       \/ \E d \in O!Delivery : O!BackoffEnds(d)
       \/ O!WorkerStops
    /\ UNCHANGED <<monitor, issued>>

RequestStop ==
    /\ pc = "idle"
    /\ O!RequestStop
    /\ UNCHANGED <<monitor, issued>>

Restart ==
    /\ O!Restart
    /\ \E targets \in SUBSET Host : M!Restart(targets)
    /\ IF enqueuing = 0 THEN sent' = sent ELSE M!HandOver(issued[enqueuing], FALSE)
    /\ UNCHANGED issued

Next ==
    \/ Monitoring
    \/ \E a \in queue : BeginSend(a) \/ SendToNobody(a)
    \/ \E c \in Channel : InsertDelivery(c)
    \/ Delivering
    \/ RequestStop \/ Restart

Spec == Init /\ [][Next]_vars

\* The threads of the outbox run, and its worker ticks.
Fairness ==
    /\ WF_vars(\E a \in queue : BeginSend(a) \/ SendToNobody(a))
    /\ WF_vars(\E c \in Channel : InsertDelivery(c))
    /\ WF_vars(O!Worker /\ UNCHANGED <<monitor, issued>>)
    /\ WF_vars(O!WorkerStops /\ UNCHANGED <<monitor, issued>>)
    /\ \A d \in O!Delivery : WF_vars(O!BackoffEnds(d) /\ UNCHANGED <<monitor, issued>>)

FairSpec == Spec /\ Fairness
-----------------------------------------------------------------------------
(* Properties *)

Announces(e, type, h, i) == issued[e] = [host |-> h, type |-> type, incident |-> i]

(***************************************************************************)
(* What a channel has queued of an incident makes sense by itself: a       *)
(* host_recovered has the host_down it answers queued before it, on the    *)
(* same channel, through crashes in the middle of an enqueue and           *)
(* restarts.                                                               *)
(***************************************************************************)
RecoveryFollowsDown ==
    \A e \in 1..Len(issued), c \in Channel :
        issued[e].type = "host_recovered" /\ row[<<e, c>>] # "none" =>
            \E f \in 1..e - 1 :
                /\ Announces(f, "host_down", issued[e].host, issued[e].incident)
                /\ row[<<f, c>>] # "none"

(***************************************************************************)
(* An incident a host holds between rounds is in the outbox, in full: what *)
(* the process remembers it announced, every channel will be told.         *)
(***************************************************************************)
HeldIncidentIsQueued ==
    pc = "idle" /\ active # {} => \A h \in Host : hs[h].incident # 0 =>
        \E e \in 1..Len(issued) :
            /\ Announces(e, "host_down", h, hs[h].incident)
            /\ \A c \in active : row[<<e, c>>] # "none"

(***************************************************************************)
(* An event and an alert the monitor counts as sent are the same thing: no *)
(* alert has two events, which its receiver would take for two.            *)
(***************************************************************************)
OneEventPerAlert ==
    \A e, f \in 1..Len(issued) : issued[e] = issued[f] => e = f

(***************************************************************************)
(* A host that stays DOWN is heard of: what was announced of its incident  *)
(* ends, delivered or dead, on every channel that stays configured, as     *)
(* long as the process is not stopped for good.                            *)
(***************************************************************************)
Heard(h) ==
    \E e \in 1..Len(issued) :
        /\ Announces(e, "host_down", h, hs[h].incident)
        /\ \A c \in active : row[<<e, c>>] \in O!Terminal

IncidentIsHeard ==
    []<>(worker # "stopped") =>
        \A h \in Host : (hs[h].incident # 0 /\ active # {})
                          ~> (hs[h].incident = 0 \/ Heard(h))

InFlightIsHeld == O!InFlightIsHeld

EveryDeliveryEnds == O!EveryDeliveryEnds
=============================================================================
