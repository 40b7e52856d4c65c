-------------------------- MODULE TransportContract --------------------------
(***************************************************************************)
(* What the outbox worker assumes of one transport.send call: it ends once,*)
(* with one of three outcomes, and "accepted" means that the receiver has  *)
(* the alert.  The other two outcomes do not mean that it has not.         *)
(***************************************************************************)
VARIABLES
    call,       \* "posting", or the outcome
    received    \* whether the receiver got the alert, known when call ends

Init == call = "posting" /\ received = FALSE

Answer(outcome) ==
    /\ call = "posting"
    /\ call' = outcome
    /\ received' \in IF outcome = "accepted" THEN {TRUE} ELSE BOOLEAN

Next == \E outcome \in {"accepted", "refused", "exhausted"} : Answer(outcome)

Spec == Init /\ [][Next]_<<call, received>> /\ WF_<<call, received>>(Next)
=============================================================================
