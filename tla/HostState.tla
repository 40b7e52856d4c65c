------------------------------ MODULE HostState ------------------------------
(***************************************************************************)
(* The state machine of one host: HostState and the pure part of           *)
(* StateManager (state.py).  A host is DOWN after DownAfter consecutive    *)
(* failures and UP after UpAfter consecutive successes; the first          *)
(* confirmation of UP is silent, and a recovery is announced only for a    *)
(* host that holds an incident.                                            *)
(*                                                                         *)
(* The two counters are compared with their threshold by >= and with       *)
(* nothing else, so they saturate there: no decision can tell.  Timestamps,*)
(* latency and loss ratio are data that only the payload carries.          *)
(***************************************************************************)
EXTENDS Naturals

CONSTANTS
    DownAfter,   \* config state.down_after_failures
    UpAfter      \* config state.up_after_successes

\* config.py rejects thresholds below 1.
ASSUME ThresholdAssumption ==
    DownAfter \in Nat \ {0} /\ UpAfter \in Nat \ {0}

None == 0                \* incident_id is None; incidents are numbered from 1

Status == {"unknown", "up", "down"}

HostStates == [status: Status, succ: 0..UpAfter, fail: 0..DownAfter, incident: Nat]

NewHost == [status |-> "unknown", succ |-> 0, fail |-> 0, incident |-> None]

AlertTypes == {"host_down", "host_recovered"}

CountUp(n, cap) == IF n < cap THEN n + 1 ELSE cap

\* Mutant: a success does not cut the streak of failures.
CountedKeepsFailures(s, ok) ==
    IF ok THEN [s EXCEPT !.succ = CountUp(@, UpAfter)]
          ELSE [s EXCEPT !.fail = CountUp(@, DownAfter), !.succ = 0]

\* The streak of one outcome grows and the other one is cut.
Counted(s, ok) ==
    IF ok THEN [s EXCEPT !.succ = CountUp(@, UpAfter), !.fail = 0]
          ELSE [s EXCEPT !.fail = CountUp(@, DownAfter), !.succ = 0]

NextStatus(s) ==
    IF s.status # "up" /\ s.succ >= UpAfter THEN "up"
    ELSE IF s.status # "down" /\ s.fail >= DownAfter THEN "down"
    ELSE s.status

\* Mutant: a host that goes UP keeps its incident.
IncidentNotCleared(status, s, fresh) ==
    IF s.incident # None THEN s.incident
    ELSE IF status = "up" THEN None ELSE fresh

\* A host that goes DOWN keeps the incident it has or takes the fresh one; a
\* host that goes UP ends its incident.
IncidentOn(status, s, fresh) ==
    IF status = "up" THEN None
    ELSE IF s.incident # None THEN s.incident ELSE fresh

\* The host after one more probe result.
ApplyOne(s, ok, fresh) ==
    LET c   == Counted(s, ok)
        new == NextStatus(c)
    IN  IF new = s.status THEN c
        ELSE [c EXCEPT !.status = new, !.incident = IncidentOn(new, s, fresh)]

\* Mutant: a host first confirmed DOWN is taken for a silent cold start.
AlertOfWarmOnly(s, ok, fresh) ==
    LET t == ApplyOne(s, ok, fresh)
    IN  IF t.status = s.status \/ s.status = "unknown" THEN {}
        ELSE IF t.status = "down"
             THEN {[type |-> "host_down", incident |-> t.incident]}
        ELSE IF s.status = "down" /\ s.incident # None
             THEN {[type |-> "host_recovered", incident |-> s.incident]}
        ELSE {}

\* The alert that result produces: a set of at most one.
AlertOf(s, ok, fresh) ==
    LET t == ApplyOne(s, ok, fresh)
    IN  IF t.status = s.status THEN {}
        ELSE IF t.status = "down"
             THEN {[type |-> "host_down", incident |-> t.incident]}
        ELSE IF s.status = "down" /\ s.incident # None
             THEN {[type |-> "host_recovered", incident |-> s.incident]}
        ELSE {}
=============================================================================
