------------------------------ MODULE MCMonitor ------------------------------
(* Model checking of Monitor: the symmetry of the hosts. *)
EXTENDS Monitor, TLC

\* Hosts that no constant tells apart may be swapped (used by safety runs only).
HostSymmetry == Permutations(Removable) \cup Permutations(Host \ Removable)
=============================================================================
