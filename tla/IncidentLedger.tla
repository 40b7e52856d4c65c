--------------------------- MODULE IncidentLedger ----------------------------
(***************************************************************************)
(* What the notification path promises to the receiver of the alerts       *)
(* (arch.md, the incident rules): a host has at most one open incident,    *)
(* host_down opens an incident that was never used before, host_recovered  *)
(* closes the open one, and a closed incident stays closed.                *)
(***************************************************************************)
CONSTANTS
    Host,        \* the hosts that may be monitored
    Incident     \* the identities an incident can have

VARIABLE phase   \* phase[h][i]: "unused", "open" or "closed"

Init == phase = [h \in Host |-> [i \in Incident |-> "unused"]]

Open(h, i) ==
    /\ \A j \in Incident : phase[h][j] # "open"
    /\ phase[h][i] = "unused"
    /\ phase' = [phase EXCEPT ![h][i] = "open"]

Close(h, i) ==
    /\ phase[h][i] = "open"
    /\ phase' = [phase EXCEPT ![h][i] = "closed"]

Next == \E h \in Host, i \in Incident : Open(h, i) \/ Close(h, i)

Spec == Init /\ [][Next]_phase
=============================================================================
