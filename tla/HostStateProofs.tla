--------------------------- MODULE HostStateProofs ----------------------------
(***************************************************************************)
(* Facts about the state machine of one host, for any thresholds: what one *)
(* more result may do to it and which alert that raises.  The proofs about *)
(* Monitor and HostHistory rest on them.                                   *)
(***************************************************************************)
EXTENDS HostState, TLAPS
-----------------------------------------------------------------------------
\* Saturation keeps a counter in its range.
LEMMA CountUpType ==
    ASSUME NEW cap \in Nat \ {0}, NEW n \in 0..cap
    PROVE  CountUp(n, cap) \in 0..cap
  BY DEF CountUp

\* Counting a result changes the counters only.
LEMMA CountedFacts ==
    ASSUME NEW s \in HostStates, NEW ok \in BOOLEAN
    PROVE  /\ Counted(s, ok) \in HostStates
           /\ Counted(s, ok).status = s.status
           /\ Counted(s, ok).incident = s.incident
  <1>1. CountUp(s.succ, UpAfter) \in 0..UpAfter
    BY CountUpType, ThresholdAssumption DEF HostStates
  <1>2. CountUp(s.fail, DownAfter) \in 0..DownAfter
    BY CountUpType, ThresholdAssumption DEF HostStates
  <1>0. 0 \in 0..DownAfter /\ 0 \in 0..UpAfter
    BY ThresholdAssumption
  <1>3. CASE ok
    <2>1. Counted(s, ok) = [s EXCEPT !.succ = CountUp(s.succ, UpAfter), !.fail = 0]
      BY <1>3 DEF Counted
    <2> QED BY <1>0, <1>1, <2>1 DEF HostStates
  <1>4. CASE ~ok
    <2>1. Counted(s, ok) = [s EXCEPT !.fail = CountUp(s.fail, DownAfter), !.succ = 0]
      BY <1>4 DEF Counted
    <2> QED BY <1>0, <1>2, <2>1 DEF HostStates
  <1> QED BY <1>3, <1>4

\* What one more result may do to a host: nothing, DOWN or UP.
LEMMA ApplyOneFacts ==
    ASSUME NEW s \in HostStates, NEW ok \in BOOLEAN, NEW fresh \in Nat
    PROVE  LET t == ApplyOne(s, ok, fresh)
           IN  /\ t \in HostStates
               /\ t.status = s.status => t.incident = s.incident
               /\ t.status # s.status =>
                    \/ t.status = "down" /\ t.incident = IF s.incident # None
                                                         THEN s.incident ELSE fresh
                    \/ t.status = "up" /\ t.incident = None
  <1> DEFINE c == Counted(s, ok)
             new == NextStatus(c)
  <1>1. c \in HostStates /\ c.status = s.status /\ c.incident = s.incident
    BY CountedFacts
  <1>2. new \in Status /\ (new # s.status => new \in {"up", "down"})
    BY <1>1 DEF NextStatus, HostStates, Status
  <1>3. CASE new = s.status
    <2>1. ApplyOne(s, ok, fresh) = c
      BY <1>3 DEF ApplyOne
    <2> QED BY <1>1, <2>1
  <1>4. CASE new # s.status
    <2>1. ApplyOne(s, ok, fresh) =
            [c EXCEPT !.status = new, !.incident = IncidentOn(new, s, fresh)]
      BY <1>4 DEF ApplyOne
    <2>2. IncidentOn(new, s, fresh) \in Nat
      BY DEF IncidentOn, None, HostStates
    <2>3. /\ ApplyOne(s, ok, fresh) \in HostStates
          /\ ApplyOne(s, ok, fresh).status = new
          /\ ApplyOne(s, ok, fresh).incident = IncidentOn(new, s, fresh)
      BY <1>1, <1>2, <2>1, <2>2 DEF HostStates
    <2> QED BY <1>2, <1>4, <2>3 DEF IncidentOn
  <1> QED BY <1>3, <1>4

\* The alert of that change: none, a host_down or a host_recovered.
LEMMA AlertOfFacts ==
    ASSUME NEW s \in HostStates, NEW ok \in BOOLEAN, NEW fresh \in Nat
    PROVE  LET t == ApplyOne(s, ok, fresh)
           IN  /\ t.status # s.status /\ t.status = "down" =>
                    AlertOf(s, ok, fresh) =
                      {[type |-> "host_down", incident |-> t.incident]}
               /\ t.status # s.status /\ t.status = "up" /\ s.status = "down"
                    /\ s.incident # None =>
                    AlertOf(s, ok, fresh) =
                      {[type |-> "host_recovered", incident |-> s.incident]}
               /\ t.status = s.status \/ (t.status = "up" /\ s.incident = None)
                    \/ (t.status = "up" /\ s.status # "down") =>
                    AlertOf(s, ok, fresh) = {}
  <1> DEFINE t == ApplyOne(s, ok, fresh)
  <1>1. AlertOf(s, ok, fresh) =
          IF t.status = s.status THEN {}
          ELSE IF t.status = "down"
               THEN {[type |-> "host_down", incident |-> t.incident]}
          ELSE IF s.status = "down" /\ s.incident # None
               THEN {[type |-> "host_recovered", incident |-> s.incident]}
          ELSE {}
    BY DEF AlertOf
  <1> HIDE DEF t
  <1>2. /\ t.status # s.status /\ t.status = "down" =>
             AlertOf(s, ok, fresh) = {[type |-> "host_down", incident |-> t.incident]}
        /\ t.status # s.status /\ t.status = "up" /\ s.status = "down"
             /\ s.incident # None =>
             AlertOf(s, ok, fresh) =
               {[type |-> "host_recovered", incident |-> s.incident]}
        /\ t.status = s.status \/ (t.status = "up" /\ s.incident = None)
             \/ (t.status = "up" /\ s.status # "down") =>
             AlertOf(s, ok, fresh) = {}
    BY <1>1
  <1> QED BY <1>2 DEF t

\* A result raises at most one alert, of the right type.
LEMMA AlertOfType ==
    ASSUME NEW s \in HostStates, NEW ok \in BOOLEAN, NEW fresh \in Nat,
           NEW b \in AlertOf(s, ok, fresh)
    PROVE  /\ b.type \in AlertTypes /\ b.incident \in Nat
           /\ b.type = "host_down" => AlertOf(s, ok, fresh) = {b}
  <1> DEFINE t == ApplyOne(s, ok, fresh)
             A == AlertOf(s, ok, fresh)
  <1>1. t.incident \in Nat /\ s.incident \in Nat
    BY ApplyOneFacts DEF HostStates
  <1>2. \/ A = {} \/ A = {[type |-> "host_down", incident |-> t.incident]}
        \/ A = {[type |-> "host_recovered", incident |-> s.incident]}
    BY DEF AlertOf
  <1>3. b \in A
    OBVIOUS
  <1> HIDE DEF t, A
  <1>4. b.type \in AlertTypes /\ b.incident \in Nat /\ A = {b}
    BY <1>1, <1>2, <1>3 DEF AlertTypes
  <1> QED BY <1>4 DEF A

\* A new HostState is one.
LEMMA NewHostType == NewHost \in HostStates
  BY ThresholdAssumption DEF NewHost, HostStates, Status, None
=============================================================================
