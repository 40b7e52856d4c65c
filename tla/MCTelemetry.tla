----------------------------- MODULE MCTelemetry -----------------------------
(* Model checking of Telemetry, and of Monitor within it. *)
EXTENDS Telemetry, TLC

\* Hosts that no constant tells apart may be swapped.
HostSymmetry == Permutations(Removable) \cup Permutations(Host \ Removable)
=============================================================================
