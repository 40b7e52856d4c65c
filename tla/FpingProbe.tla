------------------------------ MODULE FpingProbe ------------------------------
(***************************************************************************)
(* One batch of fping (probes.py): from the targets and what the fping     *)
(* process did to one result for each target.                              *)
(*                                                                         *)
(* A line of its output names an address and holds the answers to the      *)
(* packets, TRUE for a round trip time and FALSE for "-" or a token that   *)
(* is none; the list is empty for a line like "host : ".  Lines of another *)
(* form are skipped by the parser and left out.  Latency and loss ratio    *)
(* are data.                                                               *)
(***************************************************************************)
EXTENDS Integers, Sequences, FiniteSets, SequencesExt

CONSTANT Unsafe    \* addresses that _is_address_safe rejects

(***************************************************************************)
(* A run of fping: "timeout" when it outlived its overall timeout,         *)
(* "no_start" when it could not be started, and "ended" with an exit code  *)
(* and its output, which only that one has.  A target's result is "up" or  *)
(* what failed, "timeout" or "process_error".                              *)
(***************************************************************************)

Successful(outcome) == outcome = "up"

\* One answer is enough.
LineOutcome(answers) ==
    IF \E i \in 1..Len(answers) : answers[i] THEN "up" ELSE "timeout"

\* address_to_id, a dictionary: the last target with an address has it.
OwnerOf(targets, address) == SelectLastInSeq(targets, LAMBDA t : t.address = address)

\* Mutant: the first line about a host counts.
LineOfFirst(targets, output, i) ==
    SelectInSeq(output, LAMBDA line : OwnerOf(targets, line.address) = i)

\* The line about target i: the last one that names an address it owns, or 0.
LineOf(targets, output, i) ==
    SelectLastInSeq(output, LAMBDA line : OwnerOf(targets, line.address) = i)

\* What the output says of target i; no line is a timeout.
Parsed(targets, output, i) ==
    LET n == LineOf(targets, output, i)
    IN  IF n = 0 THEN "timeout" ELSE LineOutcome(output[n].answers)

\* An abnormal exit code keeps what was answered and blames the rest on fping.
Blamed(outcome, code) ==
    IF code \notin {0, 1} /\ ~Successful(outcome) THEN "process_error" ELSE outcome

\* One address that is unsafe, a timeout and a missing binary fail the batch.
ProbeTargets(targets, run) ==
    [i \in 1..Len(targets) |->
       IF \E j \in 1..Len(targets) : targets[j].address \in Unsafe THEN "process_error"
       ELSE CASE run.kind = "timeout"  -> "timeout"
              [] run.kind = "no_start" -> "process_error"
              [] run.kind = "ended"    -> Blamed(Parsed(targets, run.output, i), run.code)]
=============================================================================
