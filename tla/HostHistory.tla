----------------------------- MODULE HostHistory -----------------------------
(***************************************************************************)
(* From the configuration to the alerts of one host: the target list it    *)
(* comes from, every sequence of probe rounds up to a length, and next to  *)
(* them reference definitions of what the list and the host's status       *)
(* should be, which know no ids seen so far and no counters.               *)
(***************************************************************************)
EXTENDS HostState, TargetList, FpingProbe

CONSTANTS
    Lists,         \* the target lists a configuration may hold
    Probed,        \* bound: the lists whose targets are also probed
    Answers,       \* what a line of fping's output may say
    MaxLines,      \* bound: lines of an output
    BatchSize,     \* config probe.batch_size
    MaxRounds      \* bound: probe rounds

ASSUME HostHistoryAssumption ==
    /\ \A list \in Lists :
         /\ Len(list) \in Nat /\ DOMAIN list = 1..Len(list)
         /\ \A n \in 1..Len(list) : IsItem(list[n])
    /\ Probed \subseteq Lists
    /\ \A answers \in Answers :
         Len(answers) \in Nat /\ answers \in [1..Len(answers) -> BOOLEAN]
    /\ BatchSize \in Nat \ {0}
    /\ MaxLines \in Nat /\ MaxRounds \in Nat

VARIABLES
    items,      \* the target list of the configuration
    watched,    \* the position of the host among the targets, 0 for none
    state,      \* its HostState
    history,    \* what really happened in every round: TRUE for an answer
    alerts      \* every alert produced so far

vars == <<items, watched, state, history, alerts>>

Targets == ParseTargets(items).targets

Init ==
    /\ items \in Lists
    /\ watched \in IF Targets = <<>> THEN {0} ELSE 1..Len(Targets)
    /\ state = NewHost
    /\ history = <<>>
    /\ alerts = <<>>

\* probe_once cuts the targets into batches, one fping process each.
BatchOf(i) ==
    LET first == ((i - 1) \div BatchSize) * BatchSize + 1
    IN  SubSeq(Targets, first, Min({first + BatchSize - 1, Len(Targets)}))

Offset(i) == ((i - 1) % BatchSize) + 1

\* An address no target of the batch has stands for any line of another host.
Stranger == -1

Lines(batch) ==
    [address: {Stranger} \cup {batch[i].address : i \in 1..Len(batch)}, answers: Answers]

\* What the fping process of a batch may do.
Runs(batch) ==
    [kind: {"timeout", "no_start"}]
    \cup [kind: {"ended"}, code: 0..2,
          output: UNION {[1..n -> Lines(batch)] : n \in 0..MaxLines}]

\* What fping found out about an address, if it ran to its end.
Answered(batch, run, address) ==
    /\ run.kind = "ended"
    /\ \A i \in 1..Len(batch) : batch[i].address \notin Unsafe
    /\ LET n == SelectLastInSeq(run.output, LAMBDA line : line.address = address)
       IN  n # 0 /\ TRUE \in ToSet(run.output[n].answers)

\* A round: apply() hands the host's result to _apply_one.  The incident is
\* numbered by the alerts produced so far, so no two are equal.
Round ==
    /\ items \in Probed /\ watched # 0
    /\ Len(history) < MaxRounds
    /\ \E run \in Runs(BatchOf(watched)) :
         LET fresh == Len(alerts) + 1
             ok    == Successful(ProbeTargets(BatchOf(watched), run)[Offset(watched)])
         IN  /\ history' = Append(history, Answered(BatchOf(watched), run,
                                                    Targets[watched].address))
             /\ state' = ApplyOne(state, ok, fresh)
             /\ alerts' = alerts \o SetToSeq(AlertOf(state, ok, fresh))
    /\ UNCHANGED <<items, watched>>

Next == Round

Spec == Init /\ [][Next]_vars
-----------------------------------------------------------------------------
(* The target list *)

\* The addresses an item means (test_config.py:154-196).
Meant(item) ==
    CASE item.kind = "single" -> {item.from}
      [] item.kind = "range"  -> item.from..item.to
      [] item.kind = "cidr"   ->
           LET size == 2^(Width - item.to)
               net  == {a \in 0..2^Width - 1 : a \div size = item.from \div size}
           IN  IF size <= 4 THEN net
               ELSE {a \in net : a % size \notin {0, size - 1}}

TargetsOf(item) ==
    IF Cardinality(Meant(item)) = 1
    THEN [id: {item.id}, address: Meant(item)]
    ELSE {[id |-> GeneratedId(item, a), address |-> a] : a \in Meant(item)}

\* Every id the list gives out, at each place that gives it.
GivenIds ==
    UNION {{[item |-> n, address |-> 0, id |-> items[n].id]}
           \cup {[item |-> n, address |-> t.address + 1, id |-> t.id] :
                   t \in {u \in TargetsOf(items[n]) : u.id # items[n].id}} :
           n \in 1..Len(items)}

Acceptable ==
    /\ \A n \in 1..Len(items) :
         IsValid(items[n]) /\ Cardinality(Meant(items[n])) <= MaxExpansion
    /\ \A p, q \in GivenIds : p.id = q.id => p = q

(***************************************************************************)
(* A target list is accepted exactly if every item is well formed and      *)
(* small enough and no id is given out twice, whether by the items or by   *)
(* their expansion and in whatever order (test_config.py:231-245); the     *)
(* accepted list has one target for every address an item means.           *)
(***************************************************************************)
ListMeetsReference ==
    /\ ParseTargets(items).ok <=> Acceptable
    /\ Acceptable =>
         /\ ToSet(Targets) = UNION {TargetsOf(items[n]) : n \in 1..Len(items)}
         /\ Cardinality({t.id : t \in ToSet(Targets)}) = Len(Targets)
-----------------------------------------------------------------------------
(* The host *)

\* The result ok stands n times in a row at the positions that end in i.
Streak(i, ok, n) == i >= n /\ \A j \in i - n + 1..i : history[j] = ok

Threshold(ok) == IF ok THEN UpAfter ELSE DownAfter

\* The positions at which a streak of ok reaches its threshold.
Confirmed(ok) == {i \in 1..Len(history) : Streak(i, ok, Threshold(ok))}

Latest(S) == IF S = {} THEN 0 ELSE CHOOSE i \in S : \A j \in S : j <= i

\* A later target of the batch has the same address.
Shadowed ==
    /\ watched # 0
    /\ \E i \in Offset(watched) + 1..Len(BatchOf(watched)) :
         BatchOf(watched)[i].address = Targets[watched].address

(***************************************************************************)
(* The status is the outcome whose streak reached its threshold last, and  *)
(* "unknown" before any did (docs/usage.md: "连续" failures and successes): *)
(* no shorter run of answers, however mixed, moves a host, whatever lines  *)
(* fping prints about it and about others, in whatever order and with      *)
(* whatever exit code.  Only of a host that shares its address with a      *)
(* later target this is not true.                                          *)
(***************************************************************************)
StatusIsLastConfirmed ==
    ~Shadowed => state.status =
        IF Confirmed(TRUE) \cup Confirmed(FALSE) = {} THEN "unknown"
        ELSE IF Latest(Confirmed(TRUE)) > Latest(Confirmed(FALSE)) THEN "up"
        ELSE "down"

(***************************************************************************)
(* The alerts of a host alternate: host_down opens an incident never used  *)
(* before, host_recovered closes that same incident, and the host holds an *)
(* incident exactly while one is open (state.py:198-251).                  *)
(***************************************************************************)
AlertsAlternate ==
    /\ \A i \in 1..Len(alerts) :
         IF i % 2 = 1
         THEN /\ alerts[i].type = "host_down"
              /\ \A j \in 1..i - 1 : alerts[j].incident # alerts[i].incident
         ELSE alerts[i] = [type |-> "host_recovered",
                           incident |-> alerts[i - 1].incident]
    /\ state.incident =
         IF Len(alerts) % 2 = 1 THEN alerts[Len(alerts)].incident ELSE None

(***************************************************************************)
(* A host that answered is not DOWN when the round is over, once it had    *)
(* the answers it takes to be UP: the text output is the last word on      *)
(* every target, as probes.py:10-11 says.                                  *)
(***************************************************************************)
AnsweredIsNotDown ==
    Streak(Len(history), TRUE, UpAfter) => state.status # "down"
=============================================================================
