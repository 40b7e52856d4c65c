---------------------------- MODULE MonitorProofs -----------------------------
(***************************************************************************)
(* Proofs about Monitor, for any set of hosts, thresholds, ratio and bound *)
(* and with every fault switched on or off.                                *)
(*                                                                         *)
(* The first part is about one host at a time: Good relates its HostState, *)
(* the history of its alerts and the alerts queued for it.  Hosts interact *)
(* only through the mass failure test, which Good does not depend on.      *)
(* From it follow the type invariant, that alerts are unique, that         *)
(* recoveries follow their host_down, that the incidents hosts hold are    *)
(* announced, and that an alert agrees with its host.                      *)
(*                                                                         *)
(* The second part is about the mass failure window: what is silent in it  *)
(* and who is owed an alert after it.  The third shows that the Monitor    *)
(* implements IncidentLedger while no process dies and no grace expires.   *)
(***************************************************************************)
EXTENDS Monitor, HostStateProofs, TLAPS

Entry == [type: AlertTypes, incident: Nat, stored: BOOLEAN]

InLog(log, type, i) == \E k \in 1..Len(log) : log[k].type = type /\ log[k].incident = i

\* Incidents are numbered by positions of the history, alerts are unique, and
\* a recovery comes after its host_down.
LogOK(log) ==
    /\ \A k \in 1..Len(log) : log[k].incident \in 1..Len(log)
    /\ \A i, j \in 1..Len(log) :
         log[i].type = log[j].type /\ log[i].incident = log[j].incident => i = j
    /\ \A j \in 1..Len(log) : log[j].type = "host_recovered" =>
         \E i \in 1..j - 1 : log[i].type = "host_down" /\ log[i].incident = log[j].incident

\* What a host holds is announced and not closed.
HeldOK(h, s, log, q) ==
    s.incident # None =>
        /\ s.status = "down"
        /\ ~InLog(log, "host_recovered", s.incident)
        /\ WebhookEnabled => \/ InLog(log, "host_down", s.incident)
                             \/ [host |-> h, type |-> "host_down",
                                 incident |-> s.incident] \in q

\* A queued alert matches its host, unless the host was dropped since, and the
\* history has room for it.
DownOK(s, log, a) ==
    /\ a.type = "host_down"
    /\ \/ s.status = "down" /\ s.incident = a.incident
       \/ s = NewHost
    /\ a.incident = Len(log) + 1

RecoveredOK(s, log, a) ==
    /\ a.type = "host_recovered"
    /\ \/ s.status = "up" /\ s.incident = None
       \/ s = NewHost
    /\ InLog(log, "host_down", a.incident)
    /\ ~InLog(log, "host_recovered", a.incident)

QueueOK(h, s, log, q) ==
    /\ \A a \in q : a.host = h => DownOK(s, log, a) \/ RecoveredOK(s, log, a)
    /\ \A a, b \in q : a.host = h /\ b.host = h => a = b

Good(h, s, log, q) == LogOK(log) /\ HeldOK(h, s, log, q) /\ QueueOK(h, s, log, q)

IInv == TypeOK /\ \A h \in Host : Good(h, hs[h], sent[h], queue)
-----------------------------------------------------------------------------
(* What a step does to Good, host by host *)

\* No alert of the history has a number that is not a position of it.
LEMMA FreshIsUnused ==
    ASSUME NEW log \in Seq(Entry), LogOK(log), NEW type
    PROVE  ~InLog(log, type, Len(log) + 1)
  <1> SUFFICES ASSUME NEW k \in 1..Len(log), log[k].incident = Len(log) + 1
               PROVE  FALSE
    BY DEF InLog
  <1>1. log[k].incident \in 1..Len(log) /\ Len(log) \in Nat
    BY DEF LogOK
  <1> QED BY <1>1

\* A host without queued alerts does not care about the queue.
LEMMA OtherQueue ==
    ASSUME NEW h, NEW s, NEW log, NEW q, NEW r, Good(h, s, log, q),
           \A a \in q : a.host # h, \A a \in r : a.host # h
    PROVE  Good(h, s, log, r)
  <1>1. [host |-> h, type |-> "host_down", incident |-> s.incident] \notin q
    OBVIOUS
  <1>2. HeldOK(h, s, log, r)
    BY <1>1 DEF Good, HeldOK
  <1> QED BY <1>2 DEF Good, QueueOK

\* A result and the alert it raises, when the alert is queued.
LEMMA ObserveGood ==
    ASSUME NEW h, NEW s \in HostStates, NEW log \in Seq(Entry), NEW ok \in BOOLEAN,
           NEW q, Good(h, s, log, {}), WebhookEnabled,
           \A a \in q : a.host = h =>
             \E b \in AlertOf(s, ok, Len(log) + 1) :
                a = [host |-> h, type |-> b.type, incident |-> b.incident],
           \A b \in AlertOf(s, ok, Len(log) + 1) :
             [host |-> h, type |-> b.type, incident |-> b.incident] \in q
    PROVE  Good(h, ApplyOne(s, ok, Len(log) + 1), log, q)
  <1> DEFINE fresh == Len(log) + 1
             t == ApplyOne(s, ok, fresh)
  <1>1. fresh \in Nat /\ fresh # None
    BY DEF None
  <1>2. s.incident # None => /\ s.status = "down"
                             /\ ~InLog(log, "host_recovered", s.incident)
                             /\ InLog(log, "host_down", s.incident)
    BY DEF Good, HeldOK
  <1>3. LogOK(log) /\ \A type : ~InLog(log, type, fresh)
    BY FreshIsUnused DEF Good
  <1>4. CASE t.status = s.status
    <2>1. t.incident = s.incident /\ AlertOf(s, ok, fresh) = {}
      BY <1>1, <1>4, ApplyOneFacts, AlertOfFacts
    <2>2. \A a \in q : a.host # h
      BY <2>1
    <2> HIDE DEF t, fresh
    <2>3. HeldOK(h, t, log, q)
      BY <1>2, <1>4, <2>1 DEF HeldOK
    <2>4. Good(h, t, log, q)
      BY <1>3, <2>2, <2>3 DEF Good, QueueOK
    <2> QED BY <2>4 DEF t, fresh
  <1>5. CASE t.status # s.status /\ t.status = "down"
    <2>1. s.incident = None
      BY <1>2, <1>5
    <2>2. t.incident = fresh
      BY <1>1, <1>5, <2>1, ApplyOneFacts
    <2>3. AlertOf(s, ok, fresh) = {[type |-> "host_down", incident |-> fresh]}
      BY <1>1, <1>5, <2>2, AlertOfFacts
    <2> DEFINE alert == [host |-> h, type |-> "host_down", incident |-> fresh]
    <2>4. alert \in q /\ \A a \in q : a.host = h => a = alert
      <3> DEFINE b == [type |-> "host_down", incident |-> fresh]
      <3>1. b \in AlertOf(s, ok, fresh) /\ b.type = "host_down" /\ b.incident = fresh
        BY <2>3
      <3>2. alert \in q
        BY <3>1
      <3>3. ASSUME NEW a \in q, a.host = h
            PROVE  a = alert
        BY <2>3, <3>3
      <3> QED BY <3>2, <3>3
    <2> HIDE DEF t
    <2>5. HeldOK(h, t, log, q)
      BY <1>3, <1>5, <2>2, <2>4 DEF HeldOK
    <2>6. DownOK(t, log, alert)
      BY <1>5, <2>2 DEF DownOK
    <2>7. QueueOK(h, t, log, q)
      BY <2>4, <2>6 DEF QueueOK
    <2>8. Good(h, t, log, q)
      BY <1>3, <2>5, <2>7 DEF Good
    <2> QED BY <2>8 DEF t
  <1>6. CASE t.status # s.status /\ t.status = "up"
    <2>1. t.incident = None
      BY <1>1, <1>6, ApplyOneFacts
    <2>2. CASE s.incident = None
      <3>1. AlertOf(s, ok, fresh) = {}
        BY <1>1, <1>6, <2>2, AlertOfFacts
      <3>2. \A a \in q : a.host # h
        BY <3>1
      <3> HIDE DEF t
      <3>3. Good(h, t, log, q)
        BY <1>3, <2>1, <3>2 DEF Good, HeldOK, QueueOK
      <3> QED BY <3>3 DEF t
    <2>3. CASE s.incident # None
      <3>1. AlertOf(s, ok, fresh) =
              {[type |-> "host_recovered", incident |-> s.incident]}
        BY <1>1, <1>2, <1>6, <2>3, AlertOfFacts
      <3> DEFINE alert == [host |-> h, type |-> "host_recovered",
                           incident |-> s.incident]
      <3>2. \A a \in q : a.host = h => a = alert
        BY <3>1
      <3> HIDE DEF t
      <3>3. RecoveredOK(t, log, alert)
        BY <1>2, <1>6, <2>1, <2>3 DEF RecoveredOK
      <3>4. QueueOK(h, t, log, q)
        BY <3>2, <3>3 DEF QueueOK
      <3>5. Good(h, t, log, q)
        BY <1>3, <2>1, <3>4 DEF Good, HeldOK
      <3> QED BY <3>5 DEF t
    <2> QED BY <2>2, <2>3
  <1>7. t.status # s.status => t.status \in {"down", "up"}
    BY <1>1, ApplyOneFacts
  <1> QED BY <1>4, <1>5, <1>6, <1>7

\* A result whose host_down is suppressed: the host goes DOWN with no incident.
LEMMA SuppressGood ==
    ASSUME NEW h, NEW s, NEW t \in HostStates, NEW log, NEW q,
           Good(h, s, log, {}), \A a \in q : a.host # h
    PROVE  Good(h, [t EXCEPT !.incident = None], log, q)
  <1>1. [t EXCEPT !.incident = None].incident = None
    BY DEF HostStates
  <1> QED BY <1>1 DEF Good, HeldOK, QueueOK

\* A result while no alert is ever sent.
LEMMA SilentGood ==
    ASSUME NEW h, NEW s \in HostStates, NEW log \in Seq(Entry), NEW ok \in BOOLEAN,
           Good(h, s, log, {}), ~WebhookEnabled
    PROVE  Good(h, ApplyOne(s, ok, Len(log) + 1), log, {})
  <1> DEFINE fresh == Len(log) + 1
             t == ApplyOne(s, ok, fresh)
  <1>1. fresh \in Nat
    OBVIOUS
  <1>2. s.incident # None => s.status = "down" /\ ~InLog(log, "host_recovered", s.incident)
    BY DEF Good, HeldOK
  <1>3. LogOK(log) /\ ~InLog(log, "host_recovered", fresh)
    BY FreshIsUnused DEF Good
  <1>4. \/ t.status = s.status /\ t.incident = s.incident
        \/ t.status = "down" /\ t.incident = IF s.incident # None THEN s.incident ELSE fresh
        \/ t.status = "up" /\ t.incident = None
    BY <1>1, ApplyOneFacts
  <1> HIDE DEF t, fresh
  <1>5. HeldOK(h, t, log, {})
    BY <1>2, <1>3, <1>4, ~WebhookEnabled DEF HeldOK
  <1>6. Good(h, t, log, {})
    BY <1>3, <1>5 DEF Good, QueueOK
  <1> QED BY <1>6 DEF t, fresh

\* The back-fill of a host that is DOWN without an incident.
LEMMA BackFillGood ==
    ASSUME NEW h, NEW s \in HostStates, NEW log \in Seq(Entry), NEW q,
           Good(h, s, log, {}), s.status = "down",
           [host |-> h, type |-> "host_down", incident |-> Len(log) + 1] \in q,
           \A a \in q : a.host = h =>
             a = [host |-> h, type |-> "host_down", incident |-> Len(log) + 1]
    PROVE  Good(h, [s EXCEPT !.incident = Len(log) + 1], log, q)
  <1> DEFINE fresh == Len(log) + 1
             t == [s EXCEPT !.incident = fresh]
             alert == [host |-> h, type |-> "host_down", incident |-> fresh]
  <1>1. t.status = "down" /\ t.incident = fresh
    BY DEF HostStates
  <1>2. LogOK(log) /\ ~InLog(log, "host_recovered", fresh)
    BY FreshIsUnused DEF Good
  <1>3. alert \in q /\ \A a \in q : a.host = h => a = alert
    OBVIOUS
  <1>4. DownOK(t, log, alert)
    BY <1>1 DEF DownOK
  <1> HIDE DEF t
  <1>5. HeldOK(h, t, log, q)
    BY <1>1, <1>2, <1>3 DEF HeldOK
  <1>6. QueueOK(h, t, log, q)
    BY <1>3, <1>4 DEF QueueOK
  <1>7. Good(h, t, log, q)
    BY <1>2, <1>5, <1>6 DEF Good
  <1> QED BY <1>7 DEF t

\* An alert leaves the queue and enters the history.
LEMMA SendGood ==
    ASSUME NEW h, NEW s \in HostStates, NEW log \in Seq(Entry), NEW q \in SUBSET Alert,
           Good(h, s, log, q), NEW a \in q, a.host = h, NEW stored \in BOOLEAN
    PROVE  LET entry == [type |-> a.type, incident |-> a.incident, stored |-> stored]
           IN  Good(h, s, Append(log, entry), q \ {a})
  <1> DEFINE entry == [type |-> a.type, incident |-> a.incident, stored |-> stored]
             new == Append(log, entry)
  <1>1. entry \in Entry
    BY DEF Alert, Entry
  <1>2. /\ Len(log) \in Nat /\ Len(new) = Len(log) + 1
        /\ new[Len(log) + 1] = entry
        /\ \A k \in 1..Len(log) : new[k] = log[k]
    BY <1>1
  <1>3. entry.type = a.type /\ entry.incident = a.incident
    OBVIOUS
  <1>4. DownOK(s, log, a) \/ RecoveredOK(s, log, a)
    BY DEF Good, QueueOK
  <1>5. LogOK(log)
    BY DEF Good
  <1> HIDE DEF new, entry
  <1>6. \A type, i : InLog(new, type, i) <=>
          InLog(log, type, i) \/ (type = a.type /\ i = a.incident)
    BY <1>2, <1>3 DEF InLog
  <1>7. a.incident \in 1..Len(log) + 1 /\ ~InLog(log, a.type, a.incident)
    <2>1. CASE DownOK(s, log, a)
      <3>1. a.type = "host_down" /\ a.incident = Len(log) + 1
        BY <2>1 DEF DownOK
      <3>2. ~InLog(log, a.type, Len(log) + 1)
        BY <1>5, FreshIsUnused
      <3> QED BY <1>2, <3>1, <3>2
    <2>2. CASE RecoveredOK(s, log, a)
      BY <1>2, <1>5, <2>2 DEF RecoveredOK, InLog, LogOK
    <2> QED BY <1>4, <2>1, <2>2
  <1>8. LogOK(new)
    <2>1. \A k \in 1..Len(new) : new[k].incident \in 1..Len(new)
      BY <1>2, <1>3, <1>5, <1>7 DEF LogOK
    <2>2. ASSUME NEW i \in 1..Len(new), NEW j \in 1..Len(new),
                 new[i].type = new[j].type, new[i].incident = new[j].incident
          PROVE  i = j
      <3>1. CASE i \in 1..Len(log) /\ j \in 1..Len(log)
        BY <1>2, <1>5, <2>2, <3>1 DEF LogOK
      <3>2. CASE i \in 1..Len(log) /\ j = Len(log) + 1
        BY <1>2, <1>3, <1>7, <2>2, <3>2 DEF InLog
      <3>3. CASE i = Len(log) + 1 /\ j \in 1..Len(log)
        BY <1>2, <1>3, <1>7, <2>2, <3>3 DEF InLog
      <3>4. CASE i = Len(log) + 1 /\ j = Len(log) + 1
        BY <3>4
      <3> QED BY <1>2, <3>1, <3>2, <3>3, <3>4
    <2>3. ASSUME NEW j \in 1..Len(new), new[j].type = "host_recovered"
          PROVE  \E i \in 1..j - 1 : /\ new[i].type = "host_down"
                                     /\ new[i].incident = new[j].incident
      <3>1. CASE j \in 1..Len(log)
        <4>1. PICK i \in 1..j - 1 : /\ log[i].type = "host_down"
                                    /\ log[i].incident = log[j].incident
          BY <1>2, <1>5, <2>3, <3>1 DEF LogOK
        <4> QED BY <1>2, <3>1, <4>1
      <3>2. CASE j = Len(log) + 1
        <4>1. InLog(log, "host_down", a.incident)
          BY <1>2, <1>3, <1>4, <2>3, <3>2 DEF DownOK, RecoveredOK
        <4> QED BY <1>2, <1>3, <3>2, <4>1 DEF InLog
      <3> QED BY <1>2, <3>1, <3>2
    <2> QED BY <2>1, <2>2, <2>3 DEF LogOK
  <1>9. HeldOK(h, s, new, q \ {a})
    <2> SUFFICES ASSUME s.incident # None
                 PROVE  /\ s.status = "down"
                        /\ ~InLog(new, "host_recovered", s.incident)
                        /\ WebhookEnabled => \/ InLog(new, "host_down", s.incident)
                                             \/ [host |-> h, type |-> "host_down",
                                                 incident |-> s.incident] \in q \ {a}
      BY DEF HeldOK
    <2>1. DownOK(s, log, a) /\ s.incident = a.incident
      BY <1>4 DEF DownOK, RecoveredOK, NewHost
    <2>2. s.status = "down" /\ ~InLog(log, "host_recovered", s.incident)
      BY DEF Good, HeldOK
    <2> QED BY <1>6, <2>1, <2>2 DEF DownOK
  <1>10. QueueOK(h, s, new, q \ {a})
    BY DEF Good, QueueOK
  <1>11. Good(h, s, new, q \ {a})
    BY <1>8, <1>9, <1>10 DEF Good
  <1> QED BY <1>11 DEF new, entry
-----------------------------------------------------------------------------
(* The end of a segment *)

FreshAlert(h) == [host |-> h, type |-> "host_down", incident |-> FreshIncident(h)]

OwedIn(state) == {h \in Monitored : state[h].status = "down" /\ state[h].incident = None}

\* BackFill and Proceed, with the hosts they owe an alert under a name.
LEMMA ProceedCases ==
    ASSUME NEW state, NEW alerts, NEW closes, Proceed(state, alerts, closes)
    PROVE  \/ /\ alerts = {} /\ closes
              /\ hs' = [h \in Host |-> IF h \in OwedIn(state)
                                       THEN [state[h] EXCEPT !.incident = FreshIncident(h)]
                                       ELSE state[h]]
              /\ queue' = {FreshAlert(h) : h \in OwedIn(state)}
              /\ closing' = FALSE
              /\ pc' = IF OwedIn(state) = {} THEN "idle" ELSE "sending"
           \/ /\ alerts # {} \/ ~closes
              /\ hs' = state /\ queue' = alerts /\ closing' = closes
              /\ pc' = IF alerts = {} THEN "idle" ELSE "sending"
  BY DEF Proceed, BackFill, OwedIn, FreshAlert

\* What the type invariant says of the variables a segment ends by setting.
SegmentOK ==
    /\ pc \in {"idle", "sending"}
    /\ hs \in [Host -> HostStates]
    /\ queue \subseteq Alert
    /\ closing \in BOOLEAN
    /\ (pc = "sending") <=> (queue # {})
    /\ closing => pc = "sending"

\* However a segment ends, its variables keep their types, and only monitored
\* hosts are touched.
LEMMA ProceedType ==
    ASSUME TypeOK, NEW state \in [Host -> HostStates], NEW alerts \in SUBSET Alert,
           NEW closes \in BOOLEAN, Proceed(state, alerts, closes)
    PROVE  SegmentOK' /\ \A h \in Host \ Monitored : hs'[h] = state[h]
  <1>1. \A h \in Host : FreshIncident(h) \in Nat
    BY DEF TypeOK, FreshIncident
  <1>2. CASE /\ hs' = [h \in Host |-> IF h \in OwedIn(state)
                                      THEN [state[h] EXCEPT !.incident = FreshIncident(h)]
                                      ELSE state[h]]
             /\ queue' = {FreshAlert(h) : h \in OwedIn(state)}
             /\ closing' = FALSE
             /\ pc' = IF OwedIn(state) = {} THEN "idle" ELSE "sending"
    <2>1. OwedIn(state) \subseteq Host
      BY DEF OwedIn, Monitored
    <2>2. queue' \subseteq Alert
      BY <1>1, <1>2, <2>1 DEF FreshAlert, Alert, AlertTypes
    <2>3. ASSUME NEW h \in Host
          PROVE  [state[h] EXCEPT !.incident = FreshIncident(h)] \in HostStates
      BY <1>1 DEF HostStates
    <2>4. hs' \in [Host -> HostStates]
      BY <1>2, <2>3
    <2>5. \A h \in Host \ Monitored : hs'[h] = state[h]
      BY <1>2 DEF OwedIn
    <2>6. (pc' = "sending") <=> (queue' # {})
      BY <1>2
    <2> QED BY <1>2, <2>2, <2>4, <2>5, <2>6 DEF SegmentOK
  <1>3. CASE /\ alerts # {} \/ ~closes
             /\ hs' = state /\ queue' = alerts /\ closing' = closes
             /\ pc' = IF alerts = {} THEN "idle" ELSE "sending"
    BY <1>3 DEF SegmentOK
  <1> QED BY <1>2, <1>3, ProceedCases

\* If every host is Good with what it has still to send, it is so after the
\* segment; log is the history the segment leaves.
LEMMA ProceedGood ==
    ASSUME TypeOK, NEW state \in [Host -> HostStates], NEW alerts, NEW closes,
           NEW log \in [Host -> Seq(Entry)], Proceed(state, alerts, closes),
           \A h \in Host : Good(h, state[h], log[h], alerts),
           \A h \in Host : state[h].status = "down" /\ state[h].incident = None =>
             Len(log[h]) = Len(sent[h])
    PROVE  \A h \in Host : Good(h, hs'[h], log[h], queue')
  <1>1. CASE /\ alerts = {} /\ closes
             /\ hs' = [h \in Host |-> IF h \in OwedIn(state)
                                      THEN [state[h] EXCEPT !.incident = FreshIncident(h)]
                                      ELSE state[h]]
             /\ queue' = {FreshAlert(h) : h \in OwedIn(state)}
    <2> SUFFICES ASSUME NEW h \in Host PROVE Good(h, hs'[h], log[h], queue')
      OBVIOUS
    <2>1. \A a \in queue' : a.host = h => h \in OwedIn(state) /\ a = FreshAlert(h)
      BY <1>1 DEF FreshAlert
    <2>2. Good(h, state[h], log[h], {})
      BY <1>1
    <2>3. CASE h \in OwedIn(state)
      <3>1. state[h].status = "down" /\ FreshIncident(h) = Len(log[h]) + 1
        BY <2>3 DEF OwedIn, FreshIncident
      <3>2. FreshAlert(h) \in queue'
        BY <1>1, <2>3
      <3>3. hs'[h] = [state[h] EXCEPT !.incident = Len(log[h]) + 1]
        BY <1>1, <2>3, <3>1
      <3>4. state[h] \in HostStates /\ log[h] \in Seq(Entry)
        OBVIOUS
      <3>5. FreshAlert(h) = [host |-> h, type |-> "host_down", incident |-> Len(log[h]) + 1]
        BY <3>1 DEF FreshAlert
      <3> QED BY <2>1, <2>2, <3>1, <3>2, <3>3, <3>4, <3>5, BackFillGood
    <2>4. CASE h \notin OwedIn(state)
      <3>1. hs'[h] = state[h] /\ \A a \in queue' : a.host # h
        BY <1>1, <2>1, <2>4
      <3> QED BY <2>2, <3>1, OtherQueue
    <2> QED BY <2>3, <2>4
  <1>2. CASE hs' = state /\ queue' = alerts
    BY <1>2
  <1> QED BY <1>1, <1>2, ProceedCases
\* The end of a segment leaves every status alone; an alert it adds is a
\* host_down of the back-fill, for a monitored host that is DOWN.
LEMMA ProceedEffect ==
    ASSUME NEW state \in [Host -> HostStates], NEW alerts, NEW closes,
           Proceed(state, alerts, closes)
    PROVE  /\ \A h \in Host : hs'[h].status = state[h].status
           /\ \A a \in queue' :
                \/ a \in alerts
                \/ /\ closes /\ a.type = "host_down"
                   /\ a.host \in Monitored /\ state[a.host].status = "down"
           /\ closing' => closes
  <1>1. CASE /\ alerts = {} /\ closes
             /\ hs' = [h \in Host |-> IF h \in OwedIn(state)
                                      THEN [state[h] EXCEPT !.incident = FreshIncident(h)]
                                      ELSE state[h]]
             /\ queue' = {FreshAlert(h) : h \in OwedIn(state)}
             /\ closing' = FALSE
    <2>1. ASSUME NEW h \in Host
          PROVE  hs'[h].status = state[h].status
      <3>1. \/ hs'[h] = state[h]
            \/ hs'[h] = [state[h] EXCEPT !.incident = FreshIncident(h)]
        BY <1>1
      <3> QED BY <3>1 DEF HostStates
    <2>2. ASSUME NEW a \in queue'
          PROVE  /\ a.type = "host_down" /\ a.host \in Monitored
                 /\ state[a.host].status = "down"
      BY <1>1 DEF FreshAlert, OwedIn
    <2> QED BY <1>1, <2>1, <2>2
  <1>2. CASE hs' = state /\ queue' = alerts /\ closing' = closes
    BY <1>2
  <1> QED BY <1>1, <1>2, ProceedCases
-----------------------------------------------------------------------------
(* A round's results *)

\* What the applied results are made of.
LEMMA ResultsFacts ==
    ASSUME TypeOK, NEW results \in [snapshot -> BOOLEAN]
    PROVE  /\ Applied(results) \in [Host -> HostStates]
           /\ Muted(results) \in [Host -> HostStates]
           /\ Raised(results) \subseteq Alert
           /\ Observed(results) = snapshot \cap Monitored
           /\ \A h \in Host : FreshIncident(h) = Len(sent[h]) + 1 /\ FreshIncident(h) \in Nat
           /\ \A h \in Host \ Observed(results) :
                Applied(results)[h] = hs[h] /\ Muted(results)[h] = hs[h]
  <1>1. Observed(results) = snapshot \cap Monitored /\ Observed(results) \subseteq Host
    BY DEF Observed, Monitored
  <1>2. \A h \in Host : FreshIncident(h) = Len(sent[h]) + 1 /\ FreshIncident(h) \in Nat
    BY DEF TypeOK, FreshIncident
  <1>3. ASSUME NEW h \in Observed(results)
        PROVE  ApplyOne(hs[h], results[h], FreshIncident(h)) \in HostStates
    <2>1. hs[h] \in HostStates /\ results[h] \in BOOLEAN /\ FreshIncident(h) \in Nat
      BY <1>1, <1>2 DEF TypeOK
    <2> QED BY <2>1, ApplyOneFacts
  <1>4. Applied(results) \in [Host -> HostStates]
    BY <1>1, <1>3 DEF Applied, TypeOK
  <1>5. ASSUME NEW s \in HostStates
        PROVE  [s EXCEPT !.incident = None] \in HostStates
    BY DEF HostStates, None
  <1>6. Muted(results) \in [Host -> HostStates]
    BY <1>4, <1>5 DEF Muted
  <1>7. ASSUME NEW h \in Observed(results),
               NEW b \in AlertOf(hs[h], results[h], FreshIncident(h))
        PROVE  [host |-> h, type |-> b.type, incident |-> b.incident] \in Alert
    <2>1. h \in Host /\ hs[h] \in HostStates /\ results[h] \in BOOLEAN
      BY <1>1 DEF TypeOK
    <2>2. b.type \in AlertTypes /\ b.incident \in Nat
      BY <1>2, <1>7, <2>1, AlertOfType
    <2> QED BY <2>1, <2>2 DEF Alert
  <1>8. Raised(results) \subseteq Alert
    BY <1>7 DEF Raised
  <1>9. ASSUME NEW h \in Host \ Observed(results)
        PROVE  Applied(results)[h] = hs[h] /\ Muted(results)[h] = hs[h]
    <2>1. Applied(results)[h] = hs[h]
      BY DEF Applied
    <2>2. \A a \in Raised(results) : a.host \in Observed(results)
      BY DEF Raised
    <2>3. ~\E a \in Suppressed(results) : a.host = h
      BY <2>2 DEF Suppressed
    <2> QED BY <2>1, <2>3 DEF Muted
  <1> QED BY <1>1, <1>2, <1>4, <1>6, <1>8, <1>9

\* After the results are applied every host is Good with its share of the
\* alerts that are to be forwarded.
LEMMA ForwardGood ==
    ASSUME TypeOK, NEW results \in [snapshot -> BOOLEAN], WebhookEnabled,
           NEW h \in Host, Good(h, hs[h], sent[h], {})
    PROVE  Good(h, Muted(results)[h], sent[h], Raised(results) \ Suppressed(results))
  <1> DEFINE q == Raised(results) \ Suppressed(results)
             fresh == Len(sent[h]) + 1
             A == AlertOf(hs[h], results[h], fresh)
             Mine(b) == [host |-> h, type |-> b.type, incident |-> b.incident]
  <1>1. hs[h] \in HostStates /\ sent[h] \in Seq(Entry) /\ FreshIncident(h) = fresh
    BY ResultsFacts DEF TypeOK, Entry
  <1>2. CASE h \notin Observed(results)
    <2>1. \A a \in q : a.host # h
      BY <1>2 DEF Raised
    <2>2. Muted(results)[h] = hs[h]
      BY <1>2, ResultsFacts
    <2> QED BY <2>1, <2>2, OtherQueue
  <1>3. CASE h \in Observed(results)
    <2>1. results[h] \in BOOLEAN
      BY <1>3, ResultsFacts
    <2>2. Applied(results)[h] = ApplyOne(hs[h], results[h], fresh)
      BY <1>1, <1>3 DEF Applied
    <2>3. \A a \in Raised(results) : a.host = h => \E b \in A : a = Mine(b)
      BY <1>1, <1>3 DEF Raised
    <2>4. \A b \in A : Mine(b) \in Raised(results)
      BY <1>1, <1>3 DEF Raised
    <2>5. CASE \E a \in Suppressed(results) : a.host = h
      <3>1. PICK a \in Raised(results) : /\ a.host = h /\ a.type = "host_down"
                                         /\ MassFailure(results)
        BY <2>5 DEF Suppressed
      <3>2. PICK b \in A : a = Mine(b)
        BY <2>3, <3>1
      <3>3. A = {b} /\ b.type = "host_down"
        <4>1. b.type = "host_down"
          BY <3>1, <3>2
        <4> QED BY <1>1, <2>1, <4>1, AlertOfType
      <3>4. \A c \in Raised(results) : c.host = h => c \in Suppressed(results)
        BY <2>3, <3>1, <3>3 DEF Suppressed
      <3>5. \A c \in q : c.host # h
        BY <3>4
      <3>6. Muted(results)[h] = [Applied(results)[h] EXCEPT !.incident = None]
        BY <2>5 DEF Muted
      <3>7. Applied(results)[h] \in HostStates
        BY ResultsFacts
      <3> QED BY <3>5, <3>6, <3>7, SuppressGood
    <2>6. CASE ~\E a \in Suppressed(results) : a.host = h
      <3>1. Muted(results)[h] = ApplyOne(hs[h], results[h], fresh)
        BY <2>2, <2>6 DEF Muted
      <3>2. \A b \in A : Mine(b) \in q
        <4> SUFFICES ASSUME NEW b \in A PROVE Mine(b) \notin Suppressed(results)
          BY <2>4
        <4>1. Mine(b).host = h
          OBVIOUS
        <4> QED BY <2>6, <4>1
      <3>3. \A a \in q : a.host = h => \E b \in A : a = Mine(b)
        BY <2>3
      <3> QED BY <1>1, <2>1, <3>1, <3>2, <3>3, ObserveGood
    <2> QED BY <2>5, <2>6
  <1> QED BY <1>2, <1>3
\* An alert that a round raises says the new status of a host it observed.
LEMMA RaisedFacts ==
    ASSUME TypeOK, NEW results \in [snapshot -> BOOLEAN], NEW a \in Raised(results)
    PROVE  /\ a.host \in Host /\ a.host \in Monitored /\ a.type \in AlertTypes
           /\ Applied(results)[a.host].status =
                IF a.type = "host_down" THEN "down" ELSE "up"
  <1>1. PICK h \in Observed(results) :
          \E b \in AlertOf(hs[h], results[h], FreshIncident(h)) :
             a = [host |-> h, type |-> b.type, incident |-> b.incident]
    BY DEF Raised
  <1>2. PICK b \in AlertOf(hs[h], results[h], FreshIncident(h)) :
          a = [host |-> h, type |-> b.type, incident |-> b.incident]
    BY <1>1
  <1>3. h \in Host /\ h \in Monitored /\ results[h] \in BOOLEAN
    BY <1>1, ResultsFacts DEF Monitored
  <1>4. hs[h] \in HostStates /\ FreshIncident(h) \in Nat
    BY <1>3, ResultsFacts DEF TypeOK
  <1> DEFINE t == ApplyOne(hs[h], results[h], FreshIncident(h))
             A == AlertOf(hs[h], results[h], FreshIncident(h))
  <1>5. Applied(results)[h] = t
    BY <1>1, <1>3 DEF Applied
  <1>6. /\ t.status # hs[h].status => t.status \in {"down", "up"}
        /\ t.status = hs[h].status => A = {}
        /\ t.status # hs[h].status /\ t.status = "down" =>
             A = {[type |-> "host_down", incident |-> t.incident]}
        /\ t.status = "up" =>
             A = {} \/ A = {[type |-> "host_recovered", incident |-> hs[h].incident]}
    BY <1>3, <1>4, ApplyOneFacts, AlertOfFacts
  <1>7. b \in A
    BY <1>2
  <1> HIDE DEF t, A
  <1>8. b.type \in AlertTypes /\ t.status = IF b.type = "host_down" THEN "down" ELSE "up"
    BY <1>6, <1>7 DEF AlertTypes
  <1> QED BY <1>2, <1>3, <1>5, <1>8

\* Taking back an incident leaves the status alone.
LEMMA MutedStatus ==
    ASSUME TypeOK, NEW results \in [snapshot -> BOOLEAN], NEW h \in Host
    PROVE  Muted(results)[h].status = Applied(results)[h].status
  <1>1. Applied(results)[h] \in HostStates
    BY ResultsFacts
  <1>2. \/ Muted(results)[h] = Applied(results)[h]
        \/ Muted(results)[h] = [Applied(results)[h] EXCEPT !.incident = None]
    BY DEF Muted
  <1> QED BY <1>1, <1>2 DEF HostStates

\* What a round leaves behind when its results are applied: the new statuses,
\* alerts that say them, and no host_down, nor a back-fill, in a mass failure.
LEMMA ApplyResultsEffect ==
    ASSUME TypeOK, NEW results \in [snapshot -> BOOLEAN], ApplyResults(results)
    PROVE  /\ \A h \in Host : hs'[h].status = Applied(results)[h].status
           /\ \A a \in queue' :
                /\ a.host \in Monitored /\ a.type \in AlertTypes
                /\ Applied(results)[a.host].status =
                     IF a.type = "host_down" THEN "down" ELSE "up"
           /\ MassFailure(results) =>
                ~closing' /\ \A a \in queue' : a.type = "host_recovered"
  <1>1. /\ Applied(results) \in [Host -> HostStates]
        /\ Muted(results) \in [Host -> HostStates]
    BY ResultsFacts
  <1>2. CASE WebhookEnabled
    <2>1. Proceed(Muted(results), Raised(results) \ Suppressed(results),
                  window /\ ~MassFailure(results))
      BY <1>2 DEF ApplyResults
    <2>2. /\ \A h \in Host : hs'[h].status = Muted(results)[h].status
          /\ \A a \in queue' :
               \/ a \in Raised(results) \ Suppressed(results)
               \/ /\ window /\ ~MassFailure(results) /\ a.type = "host_down"
                  /\ a.host \in Monitored /\ Muted(results)[a.host].status = "down"
          /\ closing' => window /\ ~MassFailure(results)
      BY <1>1, <2>1, ProceedEffect
    <2>3. ASSUME NEW a \in queue'
          PROVE  /\ a.host \in Monitored /\ a.type \in AlertTypes
                 /\ Applied(results)[a.host].status =
                      IF a.type = "host_down" THEN "down" ELSE "up"
      <3>1. CASE a \in Raised(results)
        BY <3>1, RaisedFacts
      <3>2. CASE /\ a.type = "host_down" /\ a.host \in Monitored
                 /\ Muted(results)[a.host].status = "down"
        BY <3>2, MutedStatus DEF Monitored, AlertTypes
      <3> QED BY <2>2, <3>1, <3>2
    <2>4. ASSUME MassFailure(results), NEW a \in queue'
          PROVE  a.type = "host_recovered"
      <3>1. a \in Raised(results) \ Suppressed(results)
        BY <2>2, <2>4
      <3>2. a.type # "host_down" /\ a.type \in AlertTypes
        BY <2>4, <3>1, RaisedFacts DEF Suppressed
      <3> QED BY <3>2 DEF AlertTypes
    <2> QED BY <2>2, <2>3, <2>4, MutedStatus
  <1>3. CASE ~WebhookEnabled
    <2>1. Proceed(Applied(results), {}, FALSE)
      BY <1>3 DEF ApplyResults
    <2>2. hs' = Applied(results) /\ queue' = {} /\ closing' = FALSE
      BY <2>1 DEF Proceed
    <2> QED BY <2>2
  <1> QED BY <1>2, <1>3

\* The same for a send, which adds the back-fill at most.
LEMMA SendEffect ==
    ASSUME TypeOK, NEW a \in queue, Send(a)
    PROVE  /\ \A h \in Host : hs'[h].status = hs[h].status
           /\ \A b \in queue' :
                \/ b \in queue
                \/ /\ closing /\ b.type = "host_down"
                   /\ b.host \in Host /\ hs[b.host].status = "down"
           /\ closing' => closing
           /\ UNCHANGED <<place, snapshot, window>>
  <1>1. Proceed(hs, queue \ {a}, closing) /\ UNCHANGED <<place, snapshot, window>>
    BY DEF Send
  <1>2. hs \in [Host -> HostStates]
    BY DEF TypeOK
  <1> QED BY <1>1, <1>2, ProceedEffect DEF Monitored
-----------------------------------------------------------------------------
(* The inductive invariant *)

\* Sending an alert of another host leaves a host Good.
LEMMA OthersSend ==
    ASSUME NEW h, NEW s, NEW log, NEW q, NEW a, a.host # h, Good(h, s, log, q)
    PROVE  Good(h, s, log, q \ {a})
  <1>1. HeldOK(h, s, log, q \ {a})
    <2>1. [host |-> h, type |-> "host_down", incident |-> s.incident] # a
      OBVIOUS
    <2> QED BY <2>1 DEF Good, HeldOK
  <1> QED BY <1>1 DEF Good, QueueOK

\* A host that has not been probed yet holds nothing.
LEMMA NewHostGood ==
    ASSUME NEW h, NEW log, LogOK(log)
    PROVE  Good(h, NewHost, log, {})
  BY DEF Good, HeldOK, QueueOK, NewHost

\* The invariant holds when the process starts.
LEMMA InitInv == Init => IInv
  <1> SUFFICES ASSUME Init PROVE IInv
    OBVIOUS
  <1>1. TypeOK
    <2>1. sent \in [Host -> Seq([type: AlertTypes, incident: Nat, stored: BOOLEAN])]
      BY DEF Init
    <2>2. hs \in [Host -> HostStates] /\ place \in [Host -> Place]
      BY NewHostType DEF Init, Place
    <2> QED BY <2>1, <2>2 DEF Init, TypeOK
  <1>2. ASSUME NEW h \in Host
        PROVE  Good(h, hs[h], sent[h], queue)
    <2>1. LogOK(<<>>)
      BY DEF LogOK
    <2> QED BY <2>1, NewHostGood DEF Init
  <1> QED BY <1>1, <1>2 DEF IInv

\* The round's results are applied and forwarded.
LEMMA FinishProbingInv ==
    ASSUME IInv, FinishProbing
    PROVE  IInv'
  <1>1. PICK results \in [snapshot -> BOOLEAN] : ApplyResults(results)
    BY DEF FinishProbing
  <1>2. TypeOK /\ queue = {} /\ pc = "probing"
    BY <1>1 DEF IInv, TypeOK, ApplyResults
  <1>3. \A h \in Host : Good(h, hs[h], sent[h], {})
    BY <1>2 DEF IInv
  <1>4. /\ snapshot' = {} /\ place' = place /\ sent' = sent
        /\ window' = MassFailure(results)
    BY <1>1 DEF ApplyResults
  <1>5. sent \in [Host -> Seq(Entry)]
    BY <1>2 DEF TypeOK, Entry
  <1>6. \E state \in [Host -> HostStates], alerts \in SUBSET Alert, closes \in BOOLEAN :
          /\ Proceed(state, alerts, closes)
          /\ \A h \in Host : Good(h, state[h], sent[h], alerts)
          /\ \A h \in Host \ Monitored : state[h] = hs[h]
    <2>1. CASE WebhookEnabled
      <3> DEFINE state == Muted(results)
                 alerts == Raised(results) \ Suppressed(results)
                 closes == window /\ ~MassFailure(results)
      <3>1. Proceed(state, alerts, closes)
        BY <1>1, <2>1 DEF ApplyResults
      <3>2. \A h \in Host : Good(h, state[h], sent[h], alerts)
        BY <1>2, <1>3, <2>1, ForwardGood
      <3>3. \A h \in Host \ Monitored : state[h] = hs[h]
        BY <1>2, ResultsFacts
      <3>4. state \in [Host -> HostStates] /\ alerts \in SUBSET Alert
        BY <1>2, ResultsFacts
      <3>5. closes \in BOOLEAN
        OBVIOUS
      <3> HIDE DEF state, alerts, closes
      <3> QED BY <3>1, <3>2, <3>3, <3>4, <3>5
    <2>2. CASE ~WebhookEnabled
      <3>1. Proceed(Applied(results), {}, FALSE)
        BY <1>1, <2>2 DEF ApplyResults
      <3>2. ASSUME NEW h \in Host
            PROVE  Good(h, Applied(results)[h], sent[h], {})
        <4>1. CASE h \notin Observed(results)
          BY <1>2, <1>3, <4>1, ResultsFacts
        <4>2. CASE h \in Observed(results)
          <5>1. results[h] \in BOOLEAN /\ FreshIncident(h) = Len(sent[h]) + 1
            BY <1>2, <4>2, ResultsFacts
          <5>2. Applied(results)[h] = ApplyOne(hs[h], results[h], Len(sent[h]) + 1)
            BY <4>2, <5>1 DEF Applied
          <5>3. hs[h] \in HostStates /\ sent[h] \in Seq(Entry)
            BY <1>2, <1>5 DEF TypeOK
          <5> QED BY <1>3, <2>2, <5>1, <5>2, <5>3, SilentGood
        <4> QED BY <4>1, <4>2
      <3>3. /\ Applied(results) \in [Host -> HostStates]
            /\ \A h \in Host \ Monitored : Applied(results)[h] = hs[h]
        BY <1>2, ResultsFacts
      <3> QED BY <3>1, <3>2, <3>3
    <2> QED BY <2>1, <2>2
  <1>7. PICK state \in [Host -> HostStates], alerts \in SUBSET Alert, closes \in BOOLEAN :
          /\ Proceed(state, alerts, closes)
          /\ \A h \in Host : Good(h, state[h], sent[h], alerts)
          /\ \A h \in Host \ Monitored : state[h] = hs[h]
    BY <1>6
  <1>8. SegmentOK' /\ \A h \in Host \ Monitored : hs'[h] = hs[h]
    BY <1>2, <1>7, ProceedType
  <1>9. MassFailure(results) \in BOOLEAN
    BY DEF MassFailure
  <1>10. TypeOK'
    <2>1. \A h \in Host : place'[h] = "absent" => hs'[h] = NewHost
      BY <1>2, <1>4, <1>8 DEF TypeOK, Monitored
    <2> QED BY <1>2, <1>4, <1>8, <1>9, <2>1 DEF TypeOK, SegmentOK
  <1>11. \A h \in Host : Good(h, hs'[h], sent[h], queue')
    BY <1>2, <1>5, <1>7, ProceedGood
  <1> QED BY <1>4, <1>10, <1>11 DEF IInv

\* Handing over a queued alert appends it to the history of its host and
\* leaves every host Good.
LEMMA HandOverGood ==
    ASSUME IInv, NEW a \in queue, NEW stored \in BOOLEAN, HandOver(a, stored)
    PROVE  LET entry == [type |-> a.type, incident |-> a.incident, stored |-> stored]
           IN  /\ entry \in Entry
               /\ a.host \in Host
               /\ sent' \in [Host -> Seq(Entry)]
               /\ sent'[a.host] = Append(sent[a.host], entry)
               /\ \A h \in Host \ {a.host} : sent'[h] = sent[h]
               /\ \A h \in Host : Good(h, hs[h], sent'[h], queue \ {a})
  <1> DEFINE entry == [type |-> a.type, incident |-> a.incident, stored |-> stored]
  <1>1. TypeOK /\ a \in Alert /\ a.host \in Host
    BY DEF IInv, TypeOK, Alert
  <1>2. entry \in Entry /\ sent \in [Host -> Seq(Entry)]
    BY <1>1 DEF TypeOK, Entry, Alert
  <1>3. sent' = [sent EXCEPT ![a.host] = Append(@, entry)]
    BY DEF HandOver
  <1>4. /\ sent' \in [Host -> Seq(Entry)]
        /\ sent'[a.host] = Append(sent[a.host], entry)
        /\ \A h \in Host \ {a.host} : sent'[h] = sent[h]
    <2> HIDE DEF entry
    <2>1. Append(sent[a.host], entry) \in Seq(Entry)
      BY <1>1, <1>2
    <2> QED BY <1>1, <1>2, <1>3, <2>1
  <1>5. ASSUME NEW h \in Host
        PROVE  Good(h, hs[h], sent'[h], queue \ {a})
    <2>1. Good(h, hs[h], sent[h], queue)
      BY DEF IInv
    <2>2. CASE h = a.host
      <3>1. hs[h] \in HostStates /\ sent[h] \in Seq(Entry) /\ queue \in SUBSET Alert
        BY <1>1, <1>2 DEF TypeOK
      <3>2. Good(h, hs[h], Append(sent[h], entry), queue \ {a})
        BY <2>1, <2>2, <3>1, SendGood
      <3> QED BY <1>4, <2>2, <3>2
    <2>3. CASE h # a.host
      BY <1>4, <2>1, <2>3, OthersSend
    <2> QED BY <2>2, <2>3
  <1> QED BY <1>1, <1>2, <1>4, <1>5

\* The histories hold what they held, and the alert that was handed over.
LEMMA HandOverLogs ==
    ASSUME IInv, NEW a \in queue, NEW stored \in BOOLEAN, HandOver(a, stored),
           NEW h \in Host
    PROVE  \A type, i : InLog(sent'[h], type, i) <=>
             \/ InLog(sent[h], type, i)
             \/ h = a.host /\ type = a.type /\ i = a.incident
  <1> DEFINE entry == [type |-> a.type, incident |-> a.incident, stored |-> stored]
             new == Append(sent[h], entry)
  <1>1. /\ entry \in Entry
        /\ sent'[a.host] = Append(sent[a.host], entry)
        /\ \A k \in Host \ {a.host} : sent'[k] = sent[k]
    BY HandOverGood
  <1>2. entry.type = a.type /\ entry.incident = a.incident /\ sent[h] \in Seq(Entry)
    BY DEF IInv, TypeOK, Entry
  <1> HIDE DEF entry
  <1>3. /\ Len(sent[h]) \in Nat /\ Len(new) = Len(sent[h]) + 1
        /\ new[Len(sent[h]) + 1] = entry
        /\ \A k \in 1..Len(sent[h]) : new[k] = sent[h][k]
    BY <1>1, <1>2
  <1> HIDE DEF new
  <1>4. \A type, i : InLog(new, type, i) <=>
          InLog(sent[h], type, i) \/ (type = a.type /\ i = a.incident)
    BY <1>2, <1>3 DEF InLog
  <1>5. CASE h = a.host
    <2>1. sent'[h] = new
      BY <1>1, <1>5 DEF new
    <2> QED BY <1>4, <1>5, <2>1
  <1>6. CASE h # a.host
    BY <1>1, <1>6
  <1> QED BY <1>5, <1>6

\* What is queued has not been handed over.
LEMMA QueuedIsUnsent ==
    ASSUME IInv, NEW a \in queue
    PROVE  a.host \in Host /\ ~InLog(sent[a.host], a.type, a.incident)
  <1>1. /\ a.host \in Host /\ sent[a.host] \in Seq(Entry)
        /\ Good(a.host, hs[a.host], sent[a.host], queue)
    BY DEF IInv, TypeOK, Alert, Entry
  <1>2. CASE DownOK(hs[a.host], sent[a.host], a)
    BY <1>1, <1>2, FreshIsUnused DEF DownOK, Good
  <1>3. CASE RecoveredOK(hs[a.host], sent[a.host], a)
    BY <1>1, <1>3 DEF RecoveredOK
  <1> QED BY <1>1, <1>2, <1>3 DEF Good, QueueOK

\* An alert is handed over, and the round goes on.
LEMMA SendInv ==
    ASSUME IInv, NEW a \in queue, Send(a)
    PROVE  IInv'
  <1>1. TypeOK /\ pc = "sending" /\ snapshot = {} /\ a \in Alert /\ a.host \in Host
    BY DEF IInv, TypeOK, Send, Alert
  <1>2. PICK stored \in BOOLEAN : HandOver(a, stored)
    BY DEF Send
  <1>3. /\ Proceed(hs, queue \ {a}, closing)
        /\ UNCHANGED <<place, snapshot, window>>
    BY DEF Send
  <1> DEFINE entry == [type |-> a.type, incident |-> a.incident, stored |-> stored]
  <1>4. sent \in [Host -> Seq(Entry)]
    BY <1>1 DEF TypeOK, Entry
  <1>5. /\ sent' \in [Host -> Seq(Entry)]
        /\ sent'[a.host] = Append(sent[a.host], entry)
        /\ \A h \in Host \ {a.host} : sent'[h] = sent[h]
        /\ \A h \in Host : Good(h, hs[h], sent'[h], queue \ {a})
    BY <1>2, HandOverGood
  <1>6. hs \in [Host -> HostStates] /\ queue \in SUBSET Alert /\ closing \in BOOLEAN
    BY <1>1 DEF TypeOK
  <1>8. ASSUME NEW h \in Host, hs[h].status = "down", hs[h].incident = None
        PROVE  Len(sent'[h]) = Len(sent[h])
    <2>1. h # a.host
      <3> SUFFICES ASSUME h = a.host PROVE FALSE
        OBVIOUS
      <3>1. DownOK(hs[h], sent[h], a)
        BY <1>8 DEF IInv, Good, QueueOK, RecoveredOK, NewHost
      <3>2. Len(sent[h]) \in Nat
        BY <1>4
      <3>3. hs[h] # NewHost
        BY <1>8 DEF NewHost
      <3> QED BY <1>8, <3>1, <3>2, <3>3 DEF DownOK, None
    <2> QED BY <1>5, <2>1
  <1>9. SegmentOK' /\ \A h \in Host \ Monitored : hs'[h] = hs[h]
    BY <1>1, <1>3, <1>6, ProceedType
  <1>10. TypeOK'
    <2>1. \A h \in Host : place'[h] = "absent" => hs'[h] = NewHost
      BY <1>1, <1>3, <1>9 DEF TypeOK, Monitored
    <2> QED BY <1>1, <1>3, <1>5, <1>9, <2>1 DEF TypeOK, SegmentOK, Entry
  <1>11. \A h \in Host : Good(h, hs'[h], sent'[h], queue')
    BY <1>1, <1>3, <1>5, <1>6, <1>8, ProceedGood
  <1> QED BY <1>10, <1>11 DEF IInv

\* A host that is forgotten keeps its history and its queued alerts.
LEMMA ForgetGood ==
    ASSUME NEW h, NEW s, NEW log, NEW q, Good(h, s, log, q)
    PROVE  Good(h, NewHost, log, q)
  <1>1. NewHost.incident = None
    BY DEF NewHost
  <1>2. \A a \in q : a.host = h => DownOK(NewHost, log, a) \/ RecoveredOK(NewHost, log, a)
    BY DEF Good, QueueOK, DownOK, RecoveredOK
  <1> QED BY <1>1, <1>2 DEF Good, HeldOK, QueueOK

\* A reload moves hosts between the tables and forgets the ones it drops.
LEMMA ReloadInv ==
    ASSUME IInv, NEW targets \in SUBSET Host, Reload(targets)
    PROVE  IInv'
  <1>1. /\ UNCHANGED <<pc, snapshot, window, closing, queue, sent>>
        /\ place' = [h \in Host |-> Moved(h, targets)]
        /\ hs' = [h \in Host |-> IF Moved(h, targets) = "absent" THEN NewHost ELSE hs[h]]
    BY DEF Reload
  <1>2. TypeOK /\ \A h \in Host : Good(h, hs[h], sent[h], queue)
    BY DEF IInv
  <1>3. \A h \in Host : Moved(h, targets) \in Place
    BY DEF Moved, Place
  <1>4. place' \in [Host -> Place] /\ hs' \in [Host -> HostStates]
    BY <1>1, <1>2, <1>3, NewHostType DEF TypeOK
  <1>5. \A h \in Host : place'[h] = "absent" => hs'[h] = NewHost
    BY <1>1
  <1>6. TypeOK'
    BY <1>1, <1>2, <1>4, <1>5 DEF TypeOK
  <1>7. \A h \in Host : Good(h, hs'[h], sent[h], queue)
    BY <1>1, <1>2, ForgetGood
  <1> QED BY <1>1, <1>6, <1>7 DEF IInv

\* The new process of a restart knows no incident; the history stays, but for
\* the alert that was being handed over.
LEMMA RestartInv ==
    ASSUME IInv, NEW targets \in SUBSET Host, Restart(targets)
    PROVE  IInv'
  <1>1. /\ sent' \in [Host -> Seq(Entry)]
        /\ \A h \in Host : LogOK(sent'[h])
    <2>1. CASE UNCHANGED sent
      BY <2>1 DEF IInv, Good, TypeOK, Entry
    <2>2. CASE \E a \in queue, stored \in BOOLEAN : HandOver(a, stored)
      BY <2>2, HandOverGood DEF Good
    <2> QED BY <2>1, <2>2 DEF Restart
  <1>2. TypeOK'
    <2>1. hs' \in [Host -> HostStates] /\ place' \in [Host -> Place]
      BY NewHostType DEF Restart, Place
    <2>2. /\ pc' = "idle" /\ snapshot' = {} /\ queue' = {}
          /\ window' = FALSE /\ closing' = FALSE
          /\ \A h \in Host : hs'[h] = NewHost
      BY DEF Restart
    <2> QED BY <1>1, <2>1, <2>2 DEF TypeOK, Entry
  <1>3. ASSUME NEW h \in Host
        PROVE  Good(h, hs'[h], sent'[h], queue')
    BY <1>1, NewHostGood DEF Restart
  <1> QED BY <1>2, <1>3 DEF IInv

\* The remaining actions change neither a host's state, history nor alerts.
LEMMA QuietInv ==
    ASSUME IInv,
           \/ StartRound \/ ProbeRaises \/ (\E h \in Host : GraceEnds(h))
           \/ UNCHANGED vars
    PROVE  IInv'
  <1>1. hs' = hs /\ sent' = sent /\ queue' = queue
    BY DEF StartRound, ProbeRaises, GraceEnds, vars
  <1>2. TypeOK'
    <2>0. TypeOK
      BY DEF IInv
    <2>1. CASE StartRound
      BY <2>0, <2>1 DEF TypeOK, StartRound, Monitored
    <2>2. CASE ProbeRaises
      BY <2>0, <2>2 DEF TypeOK, ProbeRaises
    <2>3. ASSUME NEW h \in Host, GraceEnds(h)
          PROVE  TypeOK'
      <3>1. /\ place' \in [Host -> Place]
            /\ \A k \in Host : place'[k] = "absent" => place[k] = "absent"
        BY <2>0, <2>3 DEF TypeOK, GraceEnds, Place
      <3> QED BY <2>0, <2>3, <3>1 DEF TypeOK, GraceEnds
    <2>4. CASE UNCHANGED vars
      BY <2>0, <2>4 DEF TypeOK, vars
    <2> QED BY <2>1, <2>2, <2>3, <2>4
  <1> QED BY <1>1, <1>2 DEF IInv

\* The invariant survives every step.
LEMMA StepInv == IInv /\ [Next]_vars => IInv'
  <1> SUFFICES ASSUME IInv, [Next]_vars PROVE IInv'
    OBVIOUS
  <1>1. CASE StartRound \/ ProbeRaises \/ (\E h \in Host : GraceEnds(h)) \/ UNCHANGED vars
    BY <1>1, QuietInv
  <1>2. CASE FinishProbing
    BY <1>2, FinishProbingInv
  <1>3. CASE SendNext
    BY <1>3, SendInv DEF SendNext
  <1>4. ASSUME NEW targets \in SUBSET Host, Reload(targets) \/ Restart(targets)
        PROVE  IInv'
    BY <1>4, ReloadInv, RestartInv
  <1> QED BY <1>1, <1>2, <1>3, <1>4 DEF Next, Service

\* In every reachable state of the monitor each host is Good.
THEOREM Inductive == Spec => []IInv
  <1> QED BY InitInv, StepInv, PTL DEF Spec
-----------------------------------------------------------------------------
(* The properties *)

\* The monitor's variables keep their types, and a round's own variables are in
\* use exactly while it probes or sends (scheduler.py, probe_once).
THEOREM TypeCorrect == Spec => []TypeOK
  <1>1. IInv => TypeOK
    BY DEF IInv
  <1> QED BY <1>1, Inductive, PTL

\* No incident is announced twice or closed twice, for any number of hosts and
\* through reloads, suppressed rounds, failed enqueues and restarts.
THEOREM AlertsAreUnique == Spec => []UniqueAlerts
  <1>1. IInv => UniqueAlerts
    BY DEF IInv, Good, LogOK, UniqueAlerts
  <1> QED BY <1>1, Inductive, PTL

\* A host_recovered is handed over only after the host_down of its incident.
THEOREM RecoveriesFollow == Spec => []RecoveredAfterDown
  <1>1. IInv => RecoveredAfterDown
    BY DEF IInv, Good, LogOK, RecoveredAfterDown
  <1> QED BY <1>1, Inductive, PTL

\* The incident a host holds was announced or is about to be, and is open.
THEOREM OpenIncidentsAnnounced == Spec => []OpenIncidentAnnounced
  <1>1. IInv => OpenIncidentAnnounced
    <2> SUFFICES ASSUME IInv, NEW h \in Host, hs[h].incident # None
                 PROVE  /\ hs[h].status = "down"
                        /\ ~Sent(h, "host_recovered", hs[h].incident)
                        /\ WebhookEnabled => \/ Sent(h, "host_down", hs[h].incident)
                                             \/ Queued(h, "host_down", hs[h].incident)
      BY DEF OpenIncidentAnnounced
    <2>1. HeldOK(h, hs[h], sent[h], queue)
      BY DEF IInv, Good
    <2> QED BY <2>1 DEF HeldOK, InLog, Sent, Queued
  <1> QED BY <1>1, Inductive, PTL

\* When an alert is handed over, its host has not changed sides.
THEOREM AlertsMatch == Spec => AlertMatchesStatus
  <1> DEFINE Match == \A h \in Host : sent'[h] # sent[h] =>
               LET a == sent'[h][Len(sent'[h])]
               IN  hs'[h].status # IF a.type = "host_down" THEN "up" ELSE "down"
  <1>1. IInv /\ [Next]_vars => [Match]_vars
    <2> SUFFICES ASSUME IInv, [Next]_vars, NEW h \in Host, sent'[h] # sent[h]
                 PROVE  LET a == sent'[h][Len(sent'[h])]
                        IN  hs'[h].status # IF a.type = "host_down" THEN "up" ELSE "down"
      OBVIOUS
    <2>1. CASE \E targets \in SUBSET Host : Restart(targets)
      BY <2>1 DEF Restart, NewHost
    <2>2. CASE ~\E targets \in SUBSET Host : Restart(targets)
      <3>1. PICK a \in queue : Send(a)
        <4>1. ~UNCHANGED sent
          OBVIOUS
        <4>2. CASE SendNext
          BY <4>2 DEF SendNext
        <4> QED BY <2>2, <4>1, <4>2 DEF Next, Service, vars, StartRound, ProbeRaises,
                                       FinishProbing, ApplyResults, Reload, GraceEnds
      <3>2. PICK stored \in BOOLEAN : HandOver(a, stored)
        BY <3>1 DEF Send
      <3> DEFINE entry == [type |-> a.type, incident |-> a.incident, stored |-> stored]
      <3>3. TypeOK /\ a \in Alert /\ sent \in [Host -> Seq(Entry)]
        BY DEF IInv, TypeOK, Entry
      <3>4. /\ entry \in Entry /\ entry.type = a.type /\ a.type \in AlertTypes
            /\ sent'[a.host] = Append(sent[a.host], entry)
            /\ \A k \in Host \ {a.host} : sent'[k] = sent[k]
        BY <3>2, <3>3, HandOverGood DEF Alert
      <3>5. h = a.host
        BY <3>4
      <3>6. sent'[h][Len(sent'[h])] = entry
        <4> HIDE DEF entry
        <4> QED BY <3>3, <3>4, <3>5
      <3>7. DownOK(hs[h], sent[h], a) \/ RecoveredOK(hs[h], sent[h], a)
        BY <3>5 DEF IInv, Good, QueueOK
      <3>8. hs[h].status # IF a.type = "host_down" THEN "up" ELSE "down"
        BY <3>7 DEF DownOK, RecoveredOK, NewHost
      <3>9. hs'[h].status = hs[h].status
        <4>1. Proceed(hs, queue \ {a}, closing) /\ hs \in [Host -> HostStates]
          BY <3>1, <3>3 DEF Send, TypeOK
        <4>2. CASE hs' = hs
          BY <4>2
        <4>3. CASE hs' = [k \in Host |-> IF k \in OwedIn(hs)
                                        THEN [hs[k] EXCEPT !.incident = FreshIncident(k)]
                                        ELSE hs[k]]
          <5>1. \/ hs'[h] = hs[h]
                \/ hs'[h] = [hs[h] EXCEPT !.incident = FreshIncident(h)]
            BY <4>1, <4>3
          <5> QED BY <4>1, <5>1 DEF HostStates
        <4> QED BY <4>1, <4>2, <4>3, ProceedCases
      <3> QED BY <3>4, <3>6, <3>8, <3>9
    <2> QED BY <2>1, <2>2
  <1>2. AlertMatchesStatus <=> [][Match]_vars
    BY DEF AlertMatchesStatus
  <1> QED BY <1>1, <1>2, Inductive, PTL DEF Spec
-----------------------------------------------------------------------------
(* What a segment does to the incidents hosts hold *)

\* The end of a segment gives incidents, each with its host_down queued, and
\* queues nothing else.
LEMMA ProceedIncidents ==
    ASSUME NEW state \in [Host -> HostStates], NEW alerts, NEW closes,
           Proceed(state, alerts, closes)
    PROVE  /\ \A h \in Host :
                \/ hs'[h].incident = state[h].incident
                \/ /\ hs'[h].incident = FreshIncident(h)
                   /\ [host |-> h, type |-> "host_down",
                       incident |-> hs'[h].incident] \in queue'
           /\ alerts \subseteq queue'
           /\ \A a \in queue' : a \in alerts \/ a.type = "host_down"
  <1>1. CASE /\ alerts = {}
             /\ hs' = [h \in Host |-> IF h \in OwedIn(state)
                                      THEN [state[h] EXCEPT !.incident = FreshIncident(h)]
                                      ELSE state[h]]
             /\ queue' = {FreshAlert(h) : h \in OwedIn(state)}
    <2>1. ASSUME NEW h \in Host
          PROVE  \/ hs'[h].incident = state[h].incident
                 \/ /\ hs'[h].incident = FreshIncident(h)
                    /\ [host |-> h, type |-> "host_down",
                        incident |-> hs'[h].incident] \in queue'
      <3>1. CASE h \in OwedIn(state)
        <4>1. hs'[h].incident = FreshIncident(h)
          BY <1>1, <3>1 DEF HostStates
        <4>2. FreshAlert(h) \in queue'
          BY <1>1, <3>1
        <4> QED BY <4>1, <4>2 DEF FreshAlert
      <3>2. CASE h \notin OwedIn(state)
        BY <1>1, <3>2
      <3> QED BY <3>1, <3>2
    <2>2. \A a \in queue' : a.type = "host_down"
      BY <1>1 DEF FreshAlert
    <2> QED BY <1>1, <2>1, <2>2
  <1>2. CASE hs' = state /\ queue' = alerts
    BY <1>2
  <1> QED BY <1>1, <1>2, ProceedCases

\* A round gives an incident only with its host_down queued, and a host_recovered
\* it queues ends the incident its host held.
LEMMA FinishIncidents ==
    ASSUME IInv, WebhookEnabled, FinishProbing
    PROVE  /\ \A h \in Host :
                \/ hs'[h].incident \in {None, hs[h].incident}
                \/ [host |-> h, type |-> "host_down",
                    incident |-> hs'[h].incident] \in queue'
           /\ \A a \in queue' : a.type = "host_recovered" =>
                /\ a.host \in Host /\ hs[a.host].incident # None
                /\ a.incident = hs[a.host].incident
  <1>1. PICK results \in [snapshot -> BOOLEAN] : ApplyResults(results)
    BY DEF FinishProbing
  <1> DEFINE alerts == Raised(results) \ Suppressed(results)
  <1>2. PICK closes : Proceed(Muted(results), alerts, closes)
    BY <1>1 DEF ApplyResults
  <1>3. TypeOK /\ IInv' /\ sent' = sent
    BY <1>1, FinishProbingInv DEF IInv, ApplyResults
  <1>4. /\ Muted(results) \in [Host -> HostStates]
        /\ Applied(results) \in [Host -> HostStates]
    BY <1>3, ResultsFacts
  <1>5. ASSUME NEW h \in Host
        PROVE  hs'[h].incident \in {None, hs[h].incident, FreshIncident(h)}
    <2>1. Muted(results)[h].incident \in {None, Applied(results)[h].incident}
      <3>1. \/ Muted(results)[h] = Applied(results)[h]
            \/ Muted(results)[h] = [Applied(results)[h] EXCEPT !.incident = None]
        BY DEF Muted
      <3> QED BY <1>4, <3>1 DEF HostStates
    <2>2. Applied(results)[h].incident \in {None, hs[h].incident, FreshIncident(h)}
      <3>1. CASE h \in Observed(results)
        <4>1. hs[h] \in HostStates /\ results[h] \in BOOLEAN /\ FreshIncident(h) \in Nat
          BY <1>3, <3>1, ResultsFacts DEF TypeOK
        <4>2. Applied(results)[h] = ApplyOne(hs[h], results[h], FreshIncident(h))
          BY <3>1 DEF Applied
        <4> QED BY <4>1, <4>2, ApplyOneFacts
      <3>2. CASE h \notin Observed(results)
        BY <1>3, <3>2, ResultsFacts
      <3> QED BY <3>1, <3>2
    <2>3. hs'[h].incident \in {Muted(results)[h].incident, FreshIncident(h)}
      BY <1>2, <1>4, ProceedIncidents
    <2> QED BY <2>1, <2>2, <2>3
  <1>6. ASSUME NEW h \in Host, hs'[h].incident \notin {None, hs[h].incident}
        PROVE  [host |-> h, type |-> "host_down", incident |-> hs'[h].incident] \in queue'
    <2>1. hs'[h].incident = Len(sent[h]) + 1
      BY <1>5, <1>6 DEF FreshIncident
    <2>2. Good(h, hs[h], sent[h], queue) /\ sent[h] \in Seq(Entry)
      BY <1>3 DEF IInv, TypeOK, Entry
    <2>3. ~InLog(sent[h], "host_down", hs'[h].incident)
      BY <2>1, <2>2, FreshIsUnused DEF Good
    <2>4. HeldOK(h, hs'[h], sent[h], queue')
      BY <1>3 DEF IInv, Good
    <2> QED BY <1>6, <2>3, <2>4 DEF HeldOK
  <1>7. ASSUME NEW a \in queue', a.type = "host_recovered"
        PROVE  /\ a.host \in Host /\ hs[a.host].incident # None
               /\ a.incident = hs[a.host].incident
    <2>1. a \in Raised(results)
      BY <1>2, <1>4, <1>7, ProceedIncidents
    <2>2. PICK h \in Observed(results) :
            \E b \in AlertOf(hs[h], results[h], FreshIncident(h)) :
               a = [host |-> h, type |-> b.type, incident |-> b.incident]
      BY <2>1 DEF Raised
    <2>3. PICK b \in AlertOf(hs[h], results[h], FreshIncident(h)) :
            a = [host |-> h, type |-> b.type, incident |-> b.incident]
      BY <2>2
    <2>4. h \in Host
      BY <1>3, ResultsFacts DEF Monitored
    <2>5. b.type = "host_recovered" /\ a.host = h /\ a.incident = b.incident
      BY <1>7, <2>3
    <2>6. b.incident = hs[h].incident /\ hs[h].incident # None
      <3>1. \/ AlertOf(hs[h], results[h], FreshIncident(h)) = {}
            \/ \E i : AlertOf(hs[h], results[h], FreshIncident(h)) =
                      {[type |-> "host_down", incident |-> i]}
            \/ /\ hs[h].incident # None
               /\ AlertOf(hs[h], results[h], FreshIncident(h)) =
                    {[type |-> "host_recovered", incident |-> hs[h].incident]}
        BY DEF AlertOf
      <3> QED BY <2>3, <2>5, <3>1
    <2> QED BY <2>4, <2>5, <2>6
  <1> QED BY <1>6, <1>7
-----------------------------------------------------------------------------
(* The mass failure window *)

\* No host_down is on its way while the window is open, and the round that owes
\* a back-fill has closed the window.
QuietWindow == window => ~closing /\ \A a \in queue : a.type = "host_recovered"

\* A host that every configuration names is DOWN without an incident only
\* during a window, or while the round that closed it still owes its back-fill.
SilentOK ==
    \A h \in Host \ Removable :
        /\ place[h] = "monitored"
        /\ hs[h].status = "down" /\ hs[h].incident = None =>
             WebhookEnabled /\ (window \/ closing)

WindowInv == QuietWindow /\ SilentOK

\* A step keeps the window quiet: a round in a mass failure queues no host_down.
LEMMA QuietWindowStep ==
    ASSUME IInv, QuietWindow, [Next]_vars
    PROVE  QuietWindow'
  <1>0. TypeOK
    BY DEF IInv
  <1>1. CASE FinishProbing
    <2>1. PICK results \in [snapshot -> BOOLEAN] : ApplyResults(results)
      BY <1>1 DEF FinishProbing
    <2>2. window' = MassFailure(results)
      BY <2>1 DEF ApplyResults
    <2> QED BY <1>0, <2>1, <2>2, ApplyResultsEffect DEF QuietWindow
  <1>2. CASE SendNext
    <2>1. PICK a \in queue : Send(a)
      BY <1>2 DEF SendNext
    <2> QED BY <1>0, <2>1, SendEffect DEF QuietWindow
  <1>3. ASSUME NEW targets \in SUBSET Host, Restart(targets)
        PROVE  QuietWindow'
    BY <1>3 DEF Restart, QuietWindow
  <1>4. ASSUME UNCHANGED <<window, closing, queue>>
        PROVE  QuietWindow'
    BY <1>4 DEF QuietWindow
  <1> QED BY <1>1, <1>2, <1>3, <1>4 DEF Next, Service, StartRound, ProbeRaises, Reload,
                                       GraceEnds, vars

\* A host has its incident, or one is owed, after the results are applied.
LEMMA FinishSilent ==
    ASSUME IInv, SilentOK, FinishProbing
    PROVE  SilentOK'
  <1>1. PICK results \in [snapshot -> BOOLEAN] : ApplyResults(results)
    BY DEF FinishProbing
  <1>2. TypeOK /\ pc = "probing" /\ ~closing
    BY <1>1 DEF IInv, TypeOK, ApplyResults
  <1>3. place' = place /\ window' = MassFailure(results) /\ MassFailure(results) \in BOOLEAN
    BY <1>1 DEF ApplyResults, MassFailure
  <1> SUFFICES ASSUME NEW h \in Host \ Removable,
                      hs'[h].status = "down", hs'[h].incident = None
               PROVE  WebhookEnabled /\ (window \/ closing)'
    BY <1>3 DEF SilentOK
  <1>4. h \in Monitored
    BY DEF SilentOK, Monitored
  <1>5. /\ Applied(results) \in [Host -> HostStates]
        /\ FreshIncident(h) \in Nat /\ FreshIncident(h) # None
    <2>1. FreshIncident(h) \in Nat /\ FreshIncident(h) # None
      BY <1>2 DEF TypeOK, FreshIncident, None
    <2> QED BY <1>2, <2>1, ResultsFacts
  <1>6. ASSUME Applied(results)[h].status = "down", Applied(results)[h].incident = None
        PROVE  WebhookEnabled /\ window
    <2>1. CASE h \notin Observed(results)
      BY <1>2, <1>6, <2>1, ResultsFacts DEF SilentOK
    <2>2. CASE h \in Observed(results)
      <3>1. results[h] \in BOOLEAN /\ hs[h] \in HostStates
        BY <1>2, <2>2, ResultsFacts DEF TypeOK
      <3>2. Applied(results)[h] = ApplyOne(hs[h], results[h], FreshIncident(h))
        BY <2>2 DEF Applied
      <3>3. hs[h].status = "down" /\ hs[h].incident = None
        BY <1>5, <1>6, <3>1, <3>2, ApplyOneFacts
      <3> QED BY <1>2, <3>3 DEF SilentOK
    <2> QED BY <2>1, <2>2
  <1>7. CASE WebhookEnabled /\ ~MassFailure(results)
    <2>1. Muted(results) = Applied(results)
      <3>1. Suppressed(results) = {}
        BY <1>7 DEF Suppressed
      <3> QED BY <1>5, <3>1 DEF Muted
    <2>2. PICK alerts : Proceed(Applied(results), alerts, window)
      <3>1. (window /\ ~MassFailure(results)) = window
        BY <1>2, <1>7 DEF TypeOK
      <3> QED BY <1>1, <1>7, <2>1, <3>1 DEF ApplyResults
    <2>3. CASE hs' = [k \in Host |-> IF k \in OwedIn(Applied(results))
                                     THEN [Applied(results)[k] EXCEPT
                                             !.incident = FreshIncident(k)]
                                     ELSE Applied(results)[k]]
      <3>1. h \notin OwedIn(Applied(results))
        BY <1>5, <2>3 DEF HostStates
      <3> QED BY <1>4, <2>3, <3>1 DEF OwedIn
    <2>4. CASE hs' = Applied(results) /\ closing' = window
      BY <1>6, <1>7, <2>4
    <2> QED BY <2>2, <2>3, <2>4, ProceedCases
  <1>8. CASE ~WebhookEnabled
    <2>1. hs' = Applied(results)
      BY <1>1, <1>8 DEF ApplyResults, Proceed
    <2> QED BY <1>6, <1>8, <2>1
  <1> QED BY <1>3, <1>7, <1>8, MonitorAssumption

\* A step leaves no such host DOWN in silence.
LEMMA SilentStep ==
    ASSUME IInv, SilentOK, [Next]_vars
    PROVE  SilentOK'
  <1>0. TypeOK
    BY DEF IInv
  <1>1. CASE FinishProbing
    BY <1>1, FinishSilent
  <1>2. ASSUME NEW a \in queue, Send(a)
        PROVE  SilentOK'
    <2>1. Proceed(hs, queue \ {a}, closing) /\ UNCHANGED <<place, window>>
      BY <1>2 DEF Send
    <2> SUFFICES ASSUME NEW h \in Host \ Removable,
                        hs'[h].status = "down", hs'[h].incident = None
                 PROVE  WebhookEnabled /\ (window \/ closing)'
      BY <2>1 DEF SilentOK
    <2>2. CASE hs' = [k \in Host |-> IF k \in OwedIn(hs)
                                     THEN [hs[k] EXCEPT !.incident = FreshIncident(k)]
                                     ELSE hs[k]]
      <3>1. hs[h] \in HostStates /\ FreshIncident(h) # None
        BY <1>0 DEF TypeOK, FreshIncident, None
      <3>2. h \notin OwedIn(hs)
        BY <2>2, <3>1 DEF HostStates
      <3> QED BY <2>2, <3>2 DEF OwedIn, SilentOK, Monitored
    <2>3. CASE hs' = hs /\ closing' = closing
      BY <2>1, <2>3 DEF SilentOK
    <2> QED BY <2>1, <2>2, <2>3, ProceedCases
  <1>3. ASSUME NEW targets \in SUBSET Host, Restart(targets)
        PROVE  SilentOK'
    BY <1>3 DEF Restart, SilentOK, NewHost
  <1>4. ASSUME NEW targets \in SUBSET Host, Reload(targets)
        PROVE  SilentOK'
    BY <1>4 DEF Reload, Moved, SilentOK
  <1>5. ASSUME NEW h \in Host, GraceEnds(h)
        PROVE  SilentOK'
    BY <1>0, <1>5 DEF GraceEnds, SilentOK, TypeOK
  <1>6. CASE StartRound \/ ProbeRaises \/ UNCHANGED vars
    BY <1>6 DEF StartRound, ProbeRaises, vars, SilentOK
  <1> QED BY <1>1, <1>2, <1>3, <1>4, <1>5, <1>6 DEF Next, Service, SendNext

\* Window, back-fill and incidents agree in every reachable state.
THEOREM WindowInductive == Spec => []WindowInv
  <1>1. Init => WindowInv
    BY DEF Init, WindowInv, QuietWindow, SilentOK, NewHost
  <1>2. IInv /\ WindowInv /\ [Next]_vars => WindowInv'
    BY QuietWindowStep, SilentStep DEF WindowInv
  <1> QED BY <1>1, <1>2, Inductive, PTL DEF Spec

\* Between rounds, outside a mass failure, a host that every configuration names
\* is not DOWN without an incident, with every fault switched on.
THEOREM NoneIsSilent == Spec => []NoSilentDown
  <1>1. IInv /\ WindowInv => NoSilentDown
    BY DEF IInv, TypeOK, WindowInv, SilentOK, NoSilentDown, Owed
  <1> QED BY <1>1, Inductive, WindowInductive, PTL

\* During a mass failure no host_down is handed over.
THEOREM WindowsAreQuiet == Spec => NoDownWhileMassFailure
  <1> DEFINE Quiet == window => \A h \in Host : sent'[h] # sent[h] =>
                        sent'[h][Len(sent'[h])].type = "host_recovered"
  <1>1. IInv /\ WindowInv /\ [Next]_vars => [Quiet]_vars
    <2> SUFFICES ASSUME IInv, WindowInv, [Next]_vars, window,
                        NEW h \in Host, sent'[h] # sent[h]
                 PROVE  sent'[h][Len(sent'[h])].type = "host_recovered"
      OBVIOUS
    <2>1. PICK a \in queue, stored \in BOOLEAN : HandOver(a, stored)
      BY DEF Next, Service, vars, StartRound, ProbeRaises, FinishProbing, ApplyResults,
             SendNext, Send, Reload, GraceEnds, Restart
    <2> DEFINE entry == [type |-> a.type, incident |-> a.incident, stored |-> stored]
    <2>2. /\ entry \in Entry /\ entry.type = a.type
          /\ sent'[a.host] = Append(sent[a.host], entry)
          /\ \A k \in Host \ {a.host} : sent'[k] = sent[k]
      BY <2>1, HandOverGood
    <2>3. h = a.host /\ sent[h] \in Seq(Entry)
      BY <2>2 DEF IInv, TypeOK, Entry
    <2>4. sent'[h][Len(sent'[h])] = entry
      <3> HIDE DEF entry
      <3> QED BY <2>2, <2>3
    <2> QED BY <2>2, <2>4 DEF WindowInv, QuietWindow
  <1>2. NoDownWhileMassFailure <=> [][Quiet]_vars
    BY DEF NoDownWhileMassFailure
  <1> QED BY <1>1, <1>2, Inductive, WindowInductive, PTL DEF Spec
-----------------------------------------------------------------------------
(* The ledger of incidents, kept while the process neither dies nor loses a *)
(* host to the grace                                                        *)

OpenIn(log, i) == InLog(log, "host_down", i) /\ ~InLog(log, "host_recovered", i)

\* An open incident is held or is about to be closed, and the incident of a
\* host_down under way is held.
KeptOK(h, s, log, q) ==
    /\ \A i : OpenIn(log, i) =>
         \/ s.incident = i
         \/ [host |-> h, type |-> "host_recovered", incident |-> i] \in q
    /\ \A a \in q : a.host = h /\ a.type = "host_down" =>
         s.status = "down" /\ s.incident = a.incident

\* The history has room for every alert that is still to come of an incident.
RoomOK(h, s, log, q) ==
    /\ Len(log) <= MaxAlerts
    /\ s.status = "down" /\ s.incident = None => Len(log) + 2 <= MaxAlerts
    /\ s.incident # None => Len(log) + 1 <= MaxAlerts
    /\ \A a \in q : a.host = h =>
         Len(log) + (IF a.type = "host_down" THEN 2 ELSE 1) <= MaxAlerts

Serving(h, s, log, q) == KeptOK(h, s, log, q) /\ RoomOK(h, s, log, q)

SInv ==
    /\ \A h \in Host : place[h] # "stale" /\ Serving(h, hs[h], sent[h], queue)
    /\ ~WebhookEnabled => queue = {} /\ \A h \in Host : sent[h] = <<>>

\* One result, its alert queued: what it ends or begins has room.
LEMMA ObserveServing ==
    ASSUME NEW h, NEW s \in HostStates, NEW log \in Seq(Entry), NEW ok \in BOOLEAN,
           NEW q, Good(h, s, log, {}), Serving(h, s, log, {}),
           s.status # "down" /\ ApplyOne(s, ok, Len(log) + 1).status = "down" =>
             Len(log) + 2 <= MaxAlerts,
           \A a \in q : a.host = h =>
             \E b \in AlertOf(s, ok, Len(log) + 1) :
                a = [host |-> h, type |-> b.type, incident |-> b.incident],
           \A b \in AlertOf(s, ok, Len(log) + 1) :
             [host |-> h, type |-> b.type, incident |-> b.incident] \in q
    PROVE  Serving(h, ApplyOne(s, ok, Len(log) + 1), log, q)
  <1> DEFINE fresh == Len(log) + 1
             t == ApplyOne(s, ok, fresh)
  <1>1. fresh \in Nat /\ fresh # None /\ Len(log) \in Nat
    BY DEF None
  <1>2. s.incident # None => s.status = "down"
    BY DEF Good, HeldOK
  <1>3. \A i : OpenIn(log, i) => s.incident = i
    BY DEF Serving, KeptOK
  <1>4. CASE t.status = s.status
    <2>1. t.incident = s.incident /\ AlertOf(s, ok, fresh) = {}
      BY <1>1, <1>4, ApplyOneFacts, AlertOfFacts
    <2>2. \A a \in q : a.host # h
      BY <2>1
    <2> HIDE DEF t, fresh
    <2>3. Serving(h, t, log, q)
      BY <1>3, <1>4, <2>1, <2>2 DEF Serving, KeptOK, RoomOK
    <2> QED BY <2>3 DEF t, fresh
  <1>5. CASE t.status # s.status /\ t.status = "down"
    <2>1. s.incident = None /\ Len(log) + 2 <= MaxAlerts
      BY <1>2, <1>5
    <2>2. t.incident = fresh
      BY <1>1, <1>5, <2>1, ApplyOneFacts
    <2>3. AlertOf(s, ok, fresh) = {[type |-> "host_down", incident |-> fresh]}
      BY <1>1, <1>5, <2>2, AlertOfFacts
    <2>4. \A a \in q : a.host = h => a.type = "host_down" /\ a.incident = fresh
      BY <2>3
    <2>5. \A i : ~OpenIn(log, i)
      <3>1. ~OpenIn(log, None)
        BY <1>1 DEF Good, LogOK, OpenIn, InLog, None
      <3> QED BY <1>3, <2>1, <3>1
    <2> HIDE DEF t, fresh
    <2>6. KeptOK(h, t, log, q)
      BY <1>5, <2>2, <2>4, <2>5 DEF KeptOK
    <2>7. RoomOK(h, t, log, q)
      BY <1>1, <2>1, <2>2, <2>4, MonitorAssumption DEF RoomOK
    <2> QED BY <2>6, <2>7 DEF Serving, t, fresh
  <1>6. CASE t.status # s.status /\ t.status = "up"
    <2>1. t.incident = None
      BY <1>1, <1>6, ApplyOneFacts
    <2>2. CASE s.incident = None
      <3>1. AlertOf(s, ok, fresh) = {}
        BY <1>1, <1>6, <2>2, AlertOfFacts
      <3>2. \A a \in q : a.host # h
        BY <3>1
      <3> HIDE DEF t, fresh
      <3>3. Serving(h, t, log, q)
        BY <1>3, <1>6, <2>1, <2>2, <3>2 DEF Serving, KeptOK, RoomOK
      <3> QED BY <3>3 DEF t, fresh
    <2>3. CASE s.incident # None
      <3>1. AlertOf(s, ok, fresh) =
              {[type |-> "host_recovered", incident |-> s.incident]}
        BY <1>1, <1>2, <1>6, <2>3, AlertOfFacts
      <3>2. /\ \A a \in q : a.host = h => a.type = "host_recovered"
            /\ [host |-> h, type |-> "host_recovered", incident |-> s.incident] \in q
        <4> DEFINE b == [type |-> "host_recovered", incident |-> s.incident]
        <4>1. /\ b \in AlertOf(s, ok, fresh)
              /\ b.type = "host_recovered" /\ b.incident = s.incident
          BY <3>1
        <4>2. [host |-> h, type |-> "host_recovered", incident |-> s.incident] \in q
          BY <4>1
        <4>3. \A a \in q : a.host = h => a.type = "host_recovered"
          BY <3>1
        <4> QED BY <4>2, <4>3
      <3> HIDE DEF t, fresh
      <3>3. Len(log) + 1 <= MaxAlerts
        BY <2>3 DEF Serving, RoomOK
      <3>4. KeptOK(h, t, log, q)
        BY <1>3, <3>2 DEF KeptOK
      <3>5. RoomOK(h, t, log, q)
        BY <1>1, <1>6, <2>1, <3>2, <3>3, MonitorAssumption DEF RoomOK
      <3> QED BY <3>4, <3>5 DEF Serving, t, fresh
    <2> QED BY <2>2, <2>3
  <1>7. t.status # s.status => t.status \in {"down", "up"}
    BY <1>1, ApplyOneFacts
  <1> QED BY <1>4, <1>5, <1>6, <1>7

\* A result that puts the host DOWN, its alert suppressed.
LEMMA SuppressServing ==
    ASSUME NEW h, NEW s \in HostStates, NEW log \in Seq(Entry), NEW t \in HostStates,
           NEW q, Good(h, s, log, {}), Serving(h, s, log, {}),
           s.incident = None, t.status = "down", Len(log) + 2 <= MaxAlerts,
           \A a \in q : a.host # h
    PROVE  Serving(h, [t EXCEPT !.incident = None], log, q)
  <1>1. [t EXCEPT !.incident = None].incident = None
    BY DEF HostStates
  <1>2. \A i : OpenIn(log, i) => i = None
    BY DEF Serving, KeptOK
  <1>3. Len(log) <= MaxAlerts
    BY DEF Serving, RoomOK
  <1> QED BY <1>1, <1>2, <1>3 DEF Serving, KeptOK, RoomOK

\* The back-fill of a host that is DOWN without an incident.
LEMMA BackFillServing ==
    ASSUME NEW h, NEW s \in HostStates, NEW log \in Seq(Entry), NEW q,
           Good(h, s, log, {}), Serving(h, s, log, {}),
           s.status = "down", s.incident = None,
           \A a \in q : a.host = h =>
             a = [host |-> h, type |-> "host_down", incident |-> Len(log) + 1]
    PROVE  Serving(h, [s EXCEPT !.incident = Len(log) + 1], log, q)
  <1> DEFINE t == [s EXCEPT !.incident = Len(log) + 1]
  <1>1. t.status = "down" /\ t.incident = Len(log) + 1
    BY DEF HostStates
  <1>2. Len(log) + 2 <= MaxAlerts /\ Len(log) \in Nat
    BY DEF Serving, RoomOK
  <1>3. \A i : ~OpenIn(log, i)
    <2>1. \A i : OpenIn(log, i) => i = None
      BY DEF Serving, KeptOK
    <2>2. ~OpenIn(log, None)
      BY <1>2 DEF Good, LogOK, OpenIn, InLog, None
    <2> QED BY <2>1, <2>2
  <1>4. \A a \in q : a.host = h => a.type = "host_down" /\ a.incident = Len(log) + 1
    OBVIOUS
  <1> HIDE DEF t
  <1>5. KeptOK(h, t, log, q)
    BY <1>1, <1>3, <1>4 DEF KeptOK
  <1>6. RoomOK(h, t, log, q)
    BY <1>1, <1>2, <1>4, MonitorAssumption DEF RoomOK, None
  <1> QED BY <1>5, <1>6 DEF Serving, t

\* An alert enters the history of its host.
LEMMA SendServing ==
    ASSUME NEW h, NEW s \in HostStates, NEW log \in Seq(Entry), NEW q \in SUBSET Alert,
           Good(h, s, log, q), Serving(h, s, log, q), NEW a \in q, a.host = h,
           NEW entry \in Entry, entry.type = a.type, entry.incident = a.incident
    PROVE  Serving(h, s, Append(log, entry), q \ {a})
  <1> DEFINE new == Append(log, entry)
  <1>1. /\ Len(log) \in Nat /\ Len(new) = Len(log) + 1
        /\ new[Len(log) + 1] = entry
        /\ \A k \in 1..Len(log) : new[k] = log[k]
    OBVIOUS
  <1>2. DownOK(s, log, a) \/ RecoveredOK(s, log, a)
    BY DEF Good, QueueOK
  <1>3. \A b \in q \ {a} : b.host # h
    BY DEF Good, QueueOK
  <1> HIDE DEF new
  <1>4. \A type, i : InLog(new, type, i) <=>
          InLog(log, type, i) \/ (type = a.type /\ i = a.incident)
    BY <1>1 DEF InLog
  <1>5. CASE a.type = "host_down"
    <2>1. /\ s.status = "down" /\ s.incident = a.incident
          /\ Len(log) + 2 <= MaxAlerts
      BY <1>5 DEF Serving, KeptOK, RoomOK
    <2>2. s.incident # None
      BY <1>1, <1>2, <1>5, <2>1 DEF DownOK, RecoveredOK, None
    <2>3. \A i : OpenIn(log, i) => i = s.incident
      <3> SUFFICES ASSUME NEW i, OpenIn(log, i), s.incident # i PROVE FALSE
        OBVIOUS
      <3>1. [host |-> h, type |-> "host_recovered", incident |-> i] \in q
        BY DEF Serving, KeptOK
      <3> QED BY <1>3, <1>5, <3>1
    <2>4. KeptOK(h, s, new, q \ {a})
      BY <1>3, <1>4, <2>1, <2>3 DEF KeptOK, OpenIn
    <2>5. RoomOK(h, s, new, q \ {a})
      BY <1>1, <1>3, <2>1, <2>2, MonitorAssumption DEF RoomOK
    <2> QED BY <2>4, <2>5 DEF Serving, new
  <1>6. CASE a.type = "host_recovered"
    <2>1. s.incident = None /\ s.status # "down" /\ Len(log) + 1 <= MaxAlerts
      BY <1>2, <1>6 DEF DownOK, RecoveredOK, NewHost, Serving, RoomOK
    <2>2. \A i : OpenIn(log, i) => i = a.incident
      <3> SUFFICES ASSUME NEW i, OpenIn(log, i), i # a.incident PROVE FALSE
        OBVIOUS
      <3>1. i # None
        BY <1>1 DEF Good, LogOK, OpenIn, InLog, None
      <3>2. [host |-> h, type |-> "host_recovered", incident |-> i] \in q
        BY <2>1, <3>1 DEF Serving, KeptOK
      <3> QED BY <1>3, <3>2
    <2>3. KeptOK(h, s, new, q \ {a})
      BY <1>3, <1>4, <1>6, <2>2 DEF KeptOK, OpenIn
    <2>4. RoomOK(h, s, new, q \ {a})
      BY <1>1, <1>3, <2>1, MonitorAssumption DEF RoomOK
    <2> QED BY <2>3, <2>4 DEF Serving, new
  <1> QED BY <1>2, <1>5, <1>6 DEF DownOK, RecoveredOK

\* A host without queued alerts does not care about the queue, nor about the
\* alerts of others.
LEMMA OtherServing ==
    ASSUME NEW h, NEW s, NEW log, NEW q, NEW r, Serving(h, s, log, q),
           \A a \in q : a.host # h, \A a \in r : a.host # h
    PROVE  Serving(h, s, log, r)
  <1>1. \A i : [host |-> h, type |-> "host_recovered", incident |-> i] \notin q
    OBVIOUS
  <1> QED BY <1>1 DEF Serving, KeptOK, RoomOK

\* An alert of another host leaves the queue.
LEMMA OthersServe ==
    ASSUME NEW h, NEW s, NEW log, NEW q, NEW a, a.host # h, Serving(h, s, log, q)
    PROVE  Serving(h, s, log, q \ {a})
  <1>1. \A i : [host |-> h, type |-> "host_recovered", incident |-> i] # a
    OBVIOUS
  <1> QED BY <1>1 DEF Serving, KeptOK, RoomOK

\* A result while no alert is ever sent.
LEMMA SilentServing ==
    ASSUME NEW h, NEW s \in HostStates, NEW ok \in BOOLEAN,
           Good(h, s, <<>>, {}), Serving(h, s, <<>>, {}),
           s.status # "down" /\ ApplyOne(s, ok, 1).status = "down" => 2 <= MaxAlerts
    PROVE  Serving(h, ApplyOne(s, ok, 1), <<>>, {})
  <1> DEFINE t == ApplyOne(s, ok, 1)
  <1>1. s.incident # None => s.status = "down"
    BY DEF Good, HeldOK
  <1>2. \/ t.status = s.status /\ t.incident = s.incident
        \/ /\ t.status # s.status /\ t.status = "down"
           /\ t.incident = IF s.incident # None THEN s.incident ELSE 1
        \/ t.status = "up" /\ t.incident = None
    BY ApplyOneFacts
  <1>3. /\ 0 <= MaxAlerts
        /\ s.status = "down" /\ s.incident = None => 2 <= MaxAlerts
        /\ s.incident # None => 1 <= MaxAlerts
    BY DEF Serving, RoomOK
  <1>4. s.status # "down" /\ t.status = "down" => 2 <= MaxAlerts
    OBVIOUS
  <1> HIDE DEF t
  <1>5. RoomOK(h, t, <<>>, {})
    BY <1>1, <1>2, <1>3, <1>4, MonitorAssumption DEF RoomOK
  <1>6. KeptOK(h, t, <<>>, {})
    BY DEF KeptOK, OpenIn, InLog
  <1> QED BY <1>5, <1>6 DEF Serving, t

\* The end of a segment, the back-fill included.
LEMMA ProceedServing ==
    ASSUME TypeOK, NEW state \in [Host -> HostStates], NEW alerts, NEW closes,
           NEW log \in [Host -> Seq(Entry)], Proceed(state, alerts, closes),
           \A h \in Host : Good(h, state[h], log[h], alerts)
                             /\ Serving(h, state[h], log[h], alerts),
           \A h \in Host : state[h].status = "down" /\ state[h].incident = None =>
             Len(log[h]) = Len(sent[h])
    PROVE  \A h \in Host : Serving(h, hs'[h], log[h], queue')
  <1>1. CASE /\ alerts = {} /\ closes
             /\ hs' = [h \in Host |-> IF h \in OwedIn(state)
                                      THEN [state[h] EXCEPT !.incident = FreshIncident(h)]
                                      ELSE state[h]]
             /\ queue' = {FreshAlert(h) : h \in OwedIn(state)}
    <2> SUFFICES ASSUME NEW h \in Host PROVE Serving(h, hs'[h], log[h], queue')
      OBVIOUS
    <2>1. \A a \in queue' : a.host = h => h \in OwedIn(state) /\ a = FreshAlert(h)
      BY <1>1 DEF FreshAlert
    <2>2. Good(h, state[h], log[h], {}) /\ Serving(h, state[h], log[h], {})
      BY <1>1
    <2>3. CASE h \in OwedIn(state)
      <3>1. /\ state[h].status = "down" /\ state[h].incident = None
            /\ FreshIncident(h) = Len(log[h]) + 1
        BY <2>3 DEF OwedIn, FreshIncident
      <3>2. hs'[h] = [state[h] EXCEPT !.incident = Len(log[h]) + 1]
        BY <1>1, <2>3, <3>1
      <3>3. state[h] \in HostStates /\ log[h] \in Seq(Entry)
        OBVIOUS
      <3>4. FreshAlert(h) = [host |-> h, type |-> "host_down", incident |-> Len(log[h]) + 1]
        BY <3>1 DEF FreshAlert
      <3> QED BY <2>1, <2>2, <3>1, <3>2, <3>3, <3>4, BackFillServing
    <2>4. CASE h \notin OwedIn(state)
      <3>1. hs'[h] = state[h] /\ \A a \in queue' : a.host # h
        BY <1>1, <2>1, <2>4
      <3> QED BY <2>2, <3>1, OtherServing
    <2> QED BY <2>3, <2>4
  <1>2. CASE hs' = state /\ queue' = alerts
    BY <1>2
  <1> QED BY <1>1, <1>2, ProceedCases

\* What a round forwards serves every host.
LEMMA ForwardServing ==
    ASSUME TypeOK, NEW results \in [snapshot -> BOOLEAN], RoomFor(results),
           NEW h \in Host, Good(h, hs[h], sent[h], {}), Serving(h, hs[h], sent[h], {})
    PROVE  Serving(h, Muted(results)[h], sent[h], Raised(results) \ Suppressed(results))
  <1> DEFINE q == Raised(results) \ Suppressed(results)
             fresh == Len(sent[h]) + 1
             t == ApplyOne(hs[h], results[h], fresh)
             A == AlertOf(hs[h], results[h], fresh)
             Mine(b) == [host |-> h, type |-> b.type, incident |-> b.incident]
  <1>1. /\ hs[h] \in HostStates /\ sent[h] \in Seq(Entry) /\ fresh \in Nat
        /\ FreshIncident(h) = fresh
    BY ResultsFacts DEF TypeOK, Entry
  <1>2. CASE h \notin Observed(results)
    <2>1. (\A a \in q : a.host # h) /\ Muted(results)[h] = hs[h]
      BY <1>2, ResultsFacts DEF Raised
    <2> QED BY <2>1, OtherServing
  <1>3. CASE h \in Observed(results)
    <2>1. results[h] \in BOOLEAN
      BY <1>3, ResultsFacts
    <2>2. Applied(results)[h] = t /\ t \in HostStates
      BY <1>1, <1>3, <2>1, ApplyOneFacts DEF Applied
    <2>3. /\ \A a \in Raised(results) : a.host = h => \E b \in A : a = Mine(b)
          /\ \A b \in A : Mine(b) \in Raised(results)
      BY <1>1, <1>3 DEF Raised
    <2>4. hs[h].status # "down" /\ t.status = "down" => Len(sent[h]) + 2 <= MaxAlerts
      BY <1>3, <2>2 DEF RoomFor
    <2>5. CASE \E a \in Suppressed(results) : a.host = h
      <3>1. PICK a \in Raised(results) : /\ a.host = h /\ a.type = "host_down"
                                         /\ MassFailure(results)
        BY <2>5 DEF Suppressed
      <3>2. PICK b \in A : a = Mine(b)
        BY <2>3, <3>1
      <3>3. A = {b} /\ b.type = "host_down"
        <4>1. b.type = "host_down"
          BY <3>1, <3>2
        <4> QED BY <1>1, <2>1, <4>1, AlertOfType
      <3>4. \A c \in q : c.host # h
        BY <2>3, <3>1, <3>3 DEF Suppressed
      <3>5. t.status = "down" /\ hs[h].status # "down"
        <4>1. t.status = "down"
          BY <2>2, <3>1, RaisedFacts
        <4>2. t.status # hs[h].status
          BY <1>1, <2>1, <3>3, AlertOfFacts
        <4> QED BY <4>1, <4>2
      <3>6. hs[h].incident = None
        BY <3>5 DEF Good, HeldOK
      <3>7. Muted(results)[h] = [t EXCEPT !.incident = None]
        BY <2>2, <2>5 DEF Muted
      <3> HIDE DEF t
      <3> QED BY <1>1, <2>2, <2>4, <3>4, <3>5, <3>6, <3>7, SuppressServing
    <2>6. CASE ~\E a \in Suppressed(results) : a.host = h
      <3>1. Muted(results)[h] = t
        BY <2>2, <2>6 DEF Muted
      <3>2. \A b \in A : Mine(b) \in q
        <4> SUFFICES ASSUME NEW b \in A PROVE Mine(b) \notin Suppressed(results)
          BY <2>3
        <4>1. Mine(b).host = h
          OBVIOUS
        <4> QED BY <2>6, <4>1
      <3>3. \A a \in q : a.host = h => \E b \in A : a = Mine(b)
        BY <2>3
      <3>4. Serving(h, t, sent[h], q)
        <4> HIDE DEF q
        <4> QED BY <1>1, <2>1, <2>4, <3>2, <3>3, ObserveServing
      <3> QED BY <3>1, <3>4
    <2> QED BY <2>5, <2>6
  <1> QED BY <1>2, <1>3

\* A host stays served when the results of a round are applied.
LEMMA FinishServing ==
    ASSUME IInv, SInv, FinishProbing
    PROVE  SInv'
  <1>1. PICK results \in [snapshot -> BOOLEAN] : ApplyResults(results)
    BY DEF FinishProbing
  <1>2. TypeOK /\ queue = {} /\ pc = "probing"
    BY <1>1 DEF IInv, TypeOK, ApplyResults
  <1>3. \A h \in Host : Good(h, hs[h], sent[h], {}) /\ Serving(h, hs[h], sent[h], {})
    BY <1>2 DEF IInv, SInv
  <1>4. place' = place /\ sent' = sent /\ RoomFor(results)
    BY <1>1 DEF ApplyResults
  <1>5. sent \in [Host -> Seq(Entry)]
    BY <1>2 DEF TypeOK, Entry
  <1>6. CASE WebhookEnabled
    <2> DEFINE state == Muted(results)
               alerts == Raised(results) \ Suppressed(results)
    <2>1. PICK closes : Proceed(state, alerts, closes)
      BY <1>1, <1>6 DEF ApplyResults
    <2>2. \A h \in Host : Good(h, state[h], sent[h], alerts)
      BY <1>2, <1>3, <1>6, ForwardGood
    <2>3. \A h \in Host : Serving(h, state[h], sent[h], alerts)
      BY <1>2, <1>3, <1>4, ForwardServing
    <2>4. state \in [Host -> HostStates]
      BY <1>2, ResultsFacts
    <2> HIDE DEF state, alerts
    <2>5. \A h \in Host : Serving(h, hs'[h], sent[h], queue')
      BY <1>2, <1>5, <2>1, <2>2, <2>3, <2>4, ProceedServing
    <2> QED BY <1>4, <1>6, <2>5 DEF SInv
  <1>7. CASE ~WebhookEnabled
    <2>1. hs' = Applied(results) /\ queue' = {}
      BY <1>1, <1>7 DEF ApplyResults, Proceed
    <2>2. \A h \in Host : sent[h] = <<>>
      BY <1>7 DEF SInv
    <2>3. ASSUME NEW h \in Host
          PROVE  Serving(h, Applied(results)[h], <<>>, {})
      <3>1. Good(h, hs[h], <<>>, {}) /\ Serving(h, hs[h], <<>>, {})
        BY <1>3, <2>2
      <3>2. CASE h \notin Observed(results)
        BY <1>2, <3>1, <3>2, ResultsFacts
      <3>3. CASE h \in Observed(results)
        <4>1. FreshIncident(h) = 1 /\ Len(sent[h]) = 0
          BY <2>2 DEF FreshIncident
        <4>2. results[h] \in BOOLEAN /\ hs[h] \in HostStates
          BY <1>2, <3>3, ResultsFacts DEF TypeOK
        <4>3. Applied(results)[h] = ApplyOne(hs[h], results[h], 1)
          BY <3>3, <4>1 DEF Applied
        <4>4. hs[h].status # "down" /\ ApplyOne(hs[h], results[h], 1).status = "down" =>
                2 <= MaxAlerts
          BY <1>4, <3>3, <4>1, <4>3 DEF RoomFor
        <4> QED BY <3>1, <4>2, <4>3, <4>4, SilentServing
      <3> QED BY <3>2, <3>3
    <2> QED BY <1>4, <1>7, <2>1, <2>2, <2>3 DEF SInv
  <1> QED BY <1>6, <1>7

\* A host stays served when an alert is handed over.
LEMMA SendKeepsServing ==
    ASSUME IInv, SInv, NEW a \in queue, Send(a)
    PROVE  SInv'
  <1>1. /\ TypeOK /\ queue \in SUBSET Alert
        /\ hs \in [Host -> HostStates] /\ sent \in [Host -> Seq(Entry)]
    BY DEF IInv, TypeOK, Entry
  <1>2. Proceed(hs, queue \ {a}, closing) /\ place' = place /\ WebhookEnabled
    BY MonitorAssumption DEF Send, SInv
  <1>3. PICK stored \in BOOLEAN : HandOver(a, stored)
    BY DEF Send
  <1> DEFINE entry == [type |-> a.type, incident |-> a.incident, stored |-> stored]
  <1>4. /\ entry \in Entry /\ a.host \in Host
        /\ sent' \in [Host -> Seq(Entry)]
        /\ sent'[a.host] = Append(sent[a.host], entry)
        /\ \A h \in Host \ {a.host} : sent'[h] = sent[h]
        /\ \A h \in Host : Good(h, hs[h], sent'[h], queue \ {a})
    BY <1>3, HandOverGood
  <1>5. entry.type = a.type /\ entry.incident = a.incident
    OBVIOUS
  <1> HIDE DEF entry
  <1>6. ASSUME NEW h \in Host
        PROVE  Serving(h, hs[h], sent'[h], queue \ {a})
    <2>1. Good(h, hs[h], sent[h], queue) /\ Serving(h, hs[h], sent[h], queue)
      BY DEF IInv, SInv
    <2>2. CASE h = a.host
      <3>1. Serving(h, hs[h], Append(sent[h], entry), queue \ {a})
        BY <1>1, <1>4, <1>5, <2>1, <2>2, SendServing
      <3> QED BY <1>4, <2>2, <3>1
    <2>3. CASE h # a.host
      BY <1>4, <2>1, <2>3, OthersServe
    <2> QED BY <2>2, <2>3
  <1>7. ASSUME NEW h \in Host, hs[h].status = "down", hs[h].incident = None
        PROVE  Len(sent'[h]) = Len(sent[h])
    <2>1. h # a.host
      <3> SUFFICES ASSUME h = a.host PROVE FALSE
        OBVIOUS
      <3>1. DownOK(hs[h], sent[h], a)
        BY <1>7 DEF IInv, Good, QueueOK, RecoveredOK, NewHost
      <3> QED BY <1>1, <1>7, <3>1 DEF DownOK, NewHost, None
    <2> QED BY <1>4, <2>1
  <1>8. \A h \in Host : Serving(h, hs'[h], sent'[h], queue')
    BY <1>1, <1>2, <1>4, <1>6, <1>7, ProceedServing
  <1> QED BY <1>2, <1>8 DEF SInv

\* The process serves every host, as long as it neither dies nor loses one.
LEMMA ServiceStep ==
    ASSUME IInv, SInv, [Service]_vars
    PROVE  SInv'
  <1>1. CASE FinishProbing
    BY <1>1, FinishServing
  <1>2. CASE SendNext
    BY <1>2, SendKeepsServing DEF SendNext
  <1>3. ASSUME NEW targets \in SUBSET Host, Reload(targets)
        PROVE  SInv'
    <2>1. /\ UNCHANGED <<queue, sent>>
          /\ place' = [h \in Host |-> Moved(h, targets)]
          /\ hs' = [h \in Host |-> IF Moved(h, targets) = "absent" THEN NewHost ELSE hs[h]]
      BY <1>3 DEF Reload
    <2>2. ASSUME NEW h \in Host
          PROVE  Moved(h, targets) # "stale" /\ hs'[h] = hs[h]
      <3>1. place[h] \in {"monitored", "in_grace", "absent"}
        BY DEF SInv, IInv, TypeOK, Place
      <3>2. place[h] = "absent" => hs[h] = NewHost
        BY DEF IInv, TypeOK
      <3> QED BY <2>1, <3>1, <3>2 DEF Moved
    <2> QED BY <2>1, <2>2 DEF SInv
  <1>4. CASE StartRound \/ ProbeRaises \/ UNCHANGED vars
    BY <1>4 DEF StartRound, ProbeRaises, vars, SInv
  <1> QED BY <1>1, <1>2, <1>3, <1>4 DEF Service

\* The history of a host as phases of its incidents.
PhaseIn(log, i) ==
    IF InLog(log, "host_recovered", i) THEN "closed"
    ELSE IF InLog(log, "host_down", i) THEN "open"
    ELSE "unused"

Phases == [h \in Host |-> [i \in 1..MaxAlerts |-> PhaseIn(sent[h], i)]]

\* A send opens or closes an incident of the ledger.
LEMMA SendMovesLedger ==
    ASSUME IInv, SInv, NEW a \in queue, Send(a)
    PROVE  \E h \in Host, i \in 1..MaxAlerts :
             \/ /\ \A j \in 1..MaxAlerts : Phases[h][j] # "open"
                /\ Phases[h][i] = "unused"
                /\ Phases' = [Phases EXCEPT ![h][i] = "open"]
             \/ /\ Phases[h][i] = "open"
                /\ Phases' = [Phases EXCEPT ![h][i] = "closed"]
  <1> DEFINE h == a.host
             log == sent[h]
             i == a.incident
  <1>1. PICK stored \in BOOLEAN : HandOver(a, stored)
    BY DEF Send
  <1> DEFINE entry == [type |-> a.type, incident |-> a.incident, stored |-> stored]
  <1>2. /\ entry \in Entry /\ h \in Host
        /\ sent'[h] = Append(log, entry)
        /\ \A k \in Host \ {h} : sent'[k] = sent[k]
    BY <1>1, HandOverGood
  <1>3. /\ Good(h, hs[h], log, queue) /\ Serving(h, hs[h], log, queue)
        /\ log \in Seq(Entry) /\ a \in Alert
    BY <1>2 DEF IInv, SInv, TypeOK, Entry
  <1>4. entry.type = a.type /\ entry.incident = i /\ a.type \in AlertTypes
    BY <1>3 DEF Alert
  <1>5. \A type, k : InLog(sent'[h], type, k) <=>
          InLog(log, type, k) \/ (type = a.type /\ k = i)
    BY <1>1, <1>2, HandOverLogs
  <1>6. DownOK(hs[h], log, a) \/ RecoveredOK(hs[h], log, a)
    BY <1>3 DEF Good, QueueOK
  <1>7. i \in 1..MaxAlerts
    <2>1. i \in 1..Len(log) + 1 /\ Len(log) \in Nat
      BY <1>3, <1>6 DEF DownOK, RecoveredOK, Good, LogOK, InLog
    <2>2. \/ Len(log) + 2 <= MaxAlerts
          \/ Len(log) + 1 <= MaxAlerts
      BY <1>3 DEF Serving, RoomOK
    <2> HIDE DEF i, log
    <2> QED BY <2>1, <2>2, MonitorAssumption
  <1>8. ASSUME NEW phase, PhaseIn(sent'[h], i) = phase,
               \A j : j # i => PhaseIn(sent'[h], j) = PhaseIn(log, j)
        PROVE  Phases' = [Phases EXCEPT ![h][i] = phase]
    <2>1. Phases' = [k \in Host |-> [j \in 1..MaxAlerts |-> PhaseIn(sent'[k], j)]]
      BY DEF Phases
    <2>2. [Phases EXCEPT ![h][i] = phase] =
            [k \in Host |-> IF k = h
                             THEN [j \in 1..MaxAlerts |-> IF j = i THEN phase
                                                          ELSE PhaseIn(sent[h], j)]
                             ELSE [j \in 1..MaxAlerts |-> PhaseIn(sent[k], j)]]
      BY <1>2, <1>7 DEF Phases
    <2>3. ASSUME NEW k \in Host
          PROVE  [j \in 1..MaxAlerts |-> PhaseIn(sent'[k], j)] =
                   IF k = h
                   THEN [j \in 1..MaxAlerts |-> IF j = i THEN phase
                                                ELSE PhaseIn(sent[h], j)]
                   ELSE [j \in 1..MaxAlerts |-> PhaseIn(sent[k], j)]
      BY <1>2, <1>8
    <2> QED BY <2>1, <2>2, <2>3
  <1>9. \A j : j # i => PhaseIn(sent'[h], j) = PhaseIn(log, j)
    BY <1>5 DEF PhaseIn
  <1>10. \A j \in 1..MaxAlerts : Phases[h][j] = PhaseIn(log, j)
    BY <1>2 DEF Phases
  <1>11. CASE DownOK(hs[h], log, a)
    <2>1. a.type = "host_down" /\ i = Len(log) + 1
      BY <1>11 DEF DownOK
    <2>2. PhaseIn(log, i) = "unused" /\ PhaseIn(sent'[h], i) = "open"
      <3>1. \A type : ~InLog(log, type, i)
        BY <1>3, <2>1, FreshIsUnused DEF Good
      <3> QED BY <1>5, <2>1, <3>1 DEF PhaseIn
    <2>3. ASSUME NEW j \in 1..MaxAlerts, PhaseIn(log, j) = "open"
          PROVE  FALSE
      <3>1. InLog(log, "host_down", j) /\ OpenIn(log, j)
        BY <2>3 DEF PhaseIn, OpenIn
      <3>2. \/ hs[h].incident = j
            \/ [host |-> h, type |-> "host_recovered", incident |-> j] \in queue
        BY <1>3, <3>1 DEF Serving, KeptOK
      <3>3. [host |-> h, type |-> "host_recovered", incident |-> j] \notin queue
        BY <1>3, <2>1 DEF Good, QueueOK
      <3>4. hs[h].incident = i
        BY <1>3, <2>1 DEF Serving, KeptOK
      <3> QED BY <2>2, <2>3, <3>2, <3>3, <3>4
    <2>4. Phases' = [Phases EXCEPT ![h][i] = "open"]
      BY <1>8, <1>9, <2>2
    <2> QED BY <1>2, <1>7, <1>10, <2>2, <2>3, <2>4
  <1>12. CASE RecoveredOK(hs[h], log, a)
    <2>1. PhaseIn(log, i) = "open" /\ PhaseIn(sent'[h], i) = "closed"
      BY <1>5, <1>12 DEF RecoveredOK, PhaseIn
    <2>2. Phases' = [Phases EXCEPT ![h][i] = "closed"]
      BY <1>8, <1>9, <2>1
    <2> QED BY <1>2, <1>7, <1>10, <2>1, <2>2
  <1> QED BY <1>6, <1>11, <1>12

\* The inductive invariant of a process that neither dies nor loses a host to the
\* grace: next to IInv, an open incident is kept and has room for its recovery.
THEOREM ServiceInductive == ServiceSpec => [](IInv /\ SInv)
  <1>1. Init => IInv /\ SInv
    <2>1. Init => SInv
      <3> SUFFICES ASSUME Init PROVE SInv
        OBVIOUS
      <3>1. ASSUME NEW h \in Host
            PROVE  Serving(h, hs[h], sent[h], queue) /\ place[h] # "stale"
        <4>1. hs[h] = NewHost /\ sent[h] = <<>> /\ queue = {} /\ place[h] # "stale"
          BY DEF Init
        <4>2. RoomOK(h, NewHost, <<>>, {})
          BY MonitorAssumption DEF RoomOK, NewHost
        <4>3. KeptOK(h, NewHost, <<>>, {})
          BY DEF KeptOK, OpenIn, InLog
        <4> QED BY <4>1, <4>2, <4>3 DEF Serving
      <3> QED BY <3>1 DEF Init, SInv
    <2> QED BY <2>1, InitInv
  <1>2. IInv /\ SInv /\ [Service]_vars => (IInv /\ SInv)'
    <2>1. [Service]_vars => [Next]_vars
      BY DEF Next
    <2> QED BY <2>1, StepInv, ServiceStep
  <1> QED BY <1>1, <1>2, PTL DEF ServiceSpec

\* An incident open for the receiver is held, or its recovery is queued, through
\* windows, reloads and sends that raise.
THEOREM IncidentsAreKept == ServiceSpec => []OpenIncidentKept
  <1>1. SInv => OpenIncidentKept
    <2> SUFFICES ASSUME SInv, NEW h \in Host, NEW i \in 1..MaxAlerts,
                        Sent(h, "host_down", i), ~Sent(h, "host_recovered", i)
                 PROVE  hs[h].incident = i \/ Queued(h, "host_recovered", i)
      BY DEF OpenIncidentKept
    <2>1. OpenIn(sent[h], i)
      BY DEF OpenIn, InLog, Sent
    <2>2. KeptOK(h, hs[h], sent[h], queue)
      BY DEF SInv, Serving
    <2> QED BY <2>1, <2>2 DEF KeptOK, Queued
  <1> QED BY <1>1, ServiceInductive, PTL

\* A process that neither dies nor loses a host to the grace keeps the ledger
\* of incidents, for any hosts, thresholds and bound, reloads, suppressed rounds
\* and failed enqueues included.
THEOREM LedgerKept == ServiceSpec => KeepsLedger
  <1>1. Init => Ledger!Init
    <2>1. Init => \A h \in Host, i \in 1..MaxAlerts : PhaseOf(h, i) = "unused"
      BY DEF Init, PhaseOf, Sent
    <2> QED BY <2>1 DEF Ledger!Init
  <1>2. IInv /\ SInv /\ [Service]_vars =>
          [Ledger!Next]_([h \in Host |-> [i \in 1..MaxAlerts |-> PhaseOf(h, i)]])
    <2> SUFFICES ASSUME IInv, SInv, [Service]_vars
                 PROVE  [Ledger!Next]_([h \in Host |-> [i \in 1..MaxAlerts |-> PhaseOf(h, i)]])
      OBVIOUS
    <2> DEFINE P == [h \in Host |-> [i \in 1..MaxAlerts |-> PhaseOf(h, i)]]
    <2>1. P = Phases /\ P' = Phases'
      BY DEF Phases, PhaseIn, PhaseOf, InLog, Sent
    <2>2. Ledger!Next <=>
            \E h \in Host, i \in 1..MaxAlerts :
               \/ /\ \A j \in 1..MaxAlerts : P[h][j] # "open"
                  /\ P[h][i] = "unused"
                  /\ P' = [P EXCEPT ![h][i] = "open"]
               \/ /\ P[h][i] = "open"
                  /\ P' = [P EXCEPT ![h][i] = "closed"]
      BY DEF Ledger!Next, Ledger!Open, Ledger!Close
    <2>3. [Ledger!Next]_P <=> Ledger!Next \/ P' = P
      OBVIOUS
    <2> HIDE DEF P
    <2>4. SendNext => Ledger!Next
      BY <2>1, <2>2, SendMovesLedger DEF SendNext
    <2>5. sent' = sent => P' = P
      BY <2>1 DEF Phases
    <2>6. [Ledger!Next]_P
      BY <2>3, <2>4, <2>5 DEF Service, StartRound, ProbeRaises, FinishProbing,
                              ApplyResults, Reload, vars
    <2> QED BY <2>6 DEF P
  <1> QED BY <1>1, <1>2, ServiceInductive, PTL DEF ServiceSpec, KeepsLedger, Ledger!Spec
=============================================================================
