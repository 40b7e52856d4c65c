------------------------------ MODULE TargetList ------------------------------
(***************************************************************************)
(* The target list of the configuration (config.py): what each item of     *)
(* "targets" expands to, the ids its hosts get, and when the list is       *)
(* refused.                                                                *)
(*                                                                         *)
(* An IP address is a number of Width bits, standing for one of the 32 of  *)
(* IPv4; the suffix of a generated id, its last two octets, is the number  *)
(* modulo SuffixSpan.  The address of a "single" item may be anything else *)
(* (a hostname, a scoped IPv6 address).  An id is a sequence: the id of an *)
(* item, with the suffix appended for a generated one, so that an item may *)
(* be named as a generated one.  Labels are left out, and the checks on    *)
(* the form of one item are kind "malformed".                              *)
(***************************************************************************)
EXTENDS Integers, Sequences, FiniteSets, SequencesExt

CONSTANTS
    Width,          \* bits of an address
    SuffixSpan,     \* addresses that the suffix of an id tells apart
    MaxExpansion    \* config max_expansion

\* config.py rejects a max_expansion below 1.
ASSUME TargetListAssumption ==
    Width \in Nat /\ Width >= 2 /\ SuffixSpan \in Nat \ {0} /\ MaxExpansion \in Nat \ {0}

\* What the provers do not know of powers; it is true of every Width.
ASSUME PowerAssumption ==
    \A n \in 0..Width : 2^n \in Nat \ {0} /\ 2^Width = 2^n * 2^(Width - n)

\* The addresses from one to another, in order; none if they are reversed.
Interval(from, to) == [i \in 1..to - from + 1 |-> from + i - 1]

\* A network of at most four addresses keeps all of them, a larger one loses
\* its network and broadcast address.  strict=False: bits of the host are cut.
ExpandCidr(base, prefix) ==
    LET size  == 2^(Width - prefix)
        first == (base \div size) * size
    IN  IF size <= 4 THEN Interval(first, first + size - 1)
        ELSE Interval(first + 1, first + size - 2)

\* An item, with the prefix of a "cidr" in to: what an entry may be read as.
IsItem(item) ==
    /\ item.kind \in {"single", "range", "cidr", "malformed"}
    /\ Len(item.id) \in Nat /\ item.id = [i \in 1..Len(item.id) |-> item.id[i]]
    /\ item.from \in Int /\ item.to \in Int
    /\ item.kind = "cidr" => item.from \in 0..2^Width - 1 /\ item.to \in 0..Width

IsValid(item) ==
    /\ item.kind # "malformed"
    /\ item.kind = "range" => item.from <= item.to

Addresses(item) ==
    CASE item.kind = "single" -> <<item.from>>
      [] item.kind = "cidr"   -> ExpandCidr(item.from, item.to)
      [] item.kind = "range"  -> Interval(item.from, item.to)

GeneratedId(item, address) == Append(item.id, address % SuffixSpan)

\* The targets one item stands for.  One address keeps the id of the item.
Expanded(item) ==
    LET addresses == Addresses(item)
    IN  IF Len(addresses) = 1
        THEN <<[id |-> item.id, address |-> addresses[1]]>>
        ELSE [i \in 1..Len(addresses) |->
                [id |-> GeneratedId(item, addresses[i]), address |-> addresses[i]]]

Ids(targets) == [i \in 1..Len(targets) |-> targets[i].id]

Refused == [ok |-> FALSE, seen |-> {}, targets |-> <<>>]

\* Mutant: the ids an expansion generates are not remembered.
AddItemForgetsIds(list, item) ==
    IF ~list.ok \/ ~IsValid(item) \/ item.id \in list.seen THEN Refused
    ELSE LET new == Expanded(item)
         IN  IF Len(new) > MaxExpansion THEN Refused
             ELSE [ok |-> TRUE, seen |-> list.seen \cup {item.id},
                   targets |-> list.targets \o new]

\* One item more: refused for an id seen before, its own or one the expansion
\* generates, and for an expansion that is too large.
AddItem(list, item) ==
    IF ~list.ok \/ ~IsValid(item) \/ item.id \in list.seen THEN Refused
    ELSE LET new == Expanded(item)
             ids == ToSet(Ids(new))
         IN  IF \/ Len(new) > MaxExpansion
                \/ ids \cap list.seen # {} \/ Cardinality(ids) < Len(new)
             THEN Refused
             ELSE [ok |-> TRUE, seen |-> list.seen \cup {item.id} \cup ids,
                   targets |-> list.targets \o new]

\* The list, or nothing of it: one bad item refuses the configuration.
ParseTargets(items) ==
    FoldLeft(AddItem, [ok |-> TRUE, seen |-> {}, targets |-> <<>>], items)
=============================================================================
