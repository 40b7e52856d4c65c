------------------------------- MODULE MCOutbox -------------------------------
(* Model checking of Outbox: the symmetry of the events and the channels. *)
EXTENDS Outbox, TLC

OutboxSymmetry == Permutations(Event) \cup Permutations(Channel)
=============================================================================
