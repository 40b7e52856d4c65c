----------------------------- MODULE AtLeastOnce -----------------------------
(***************************************************************************)
(* What the outbox promises of a delivery, without tables, claims, batches *)
(* or restarts: once queued it is owed until it ends, it is delivered only *)
(* if the receiver got it (perhaps more than once), and an end is final.   *)
(***************************************************************************)
CONSTANT Delivery

VARIABLES
    status,     \* "unknown", "owed", "delivered" or "dead"
    received    \* the deliveries that reached the receiver

vars == <<status, received>>

Init ==
    /\ status = [d \in Delivery |-> "unknown"]
    /\ received = {}

Queue(d) ==
    /\ status[d] = "unknown"
    /\ status' = [status EXCEPT ![d] = "owed"]
    /\ UNCHANGED received

\* The receiver gets it, and the sender need not learn of that.
Receive(d) ==
    /\ status[d] = "owed"
    /\ received' = received \cup {d}
    /\ UNCHANGED status

End(d, outcome) ==
    /\ status[d] = "owed"
    /\ outcome = "delivered" => d \in received
    /\ status' = [status EXCEPT ![d] = outcome]
    /\ UNCHANGED received

Next ==
    \E d \in Delivery :
        Queue(d) \/ Receive(d) \/ \E outcome \in {"delivered", "dead"} : End(d, outcome)

Spec == Init /\ [][Next]_vars
=============================================================================
