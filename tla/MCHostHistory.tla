---------------------------- MODULE MCHostHistory ----------------------------
(***************************************************************************)
(* Model checking of HostHistory: every item of one id alone, and pairs of *)
(* items that give out the same ids or the same addresses.                 *)
(***************************************************************************)
EXTENDS HostHistory

Single(id, address)      == [id |-> id, kind |-> "single", from |-> address, to |-> 0]
Cidr(id, base, prefix)   == [id |-> id, kind |-> "cidr", from |-> base, to |-> prefix]
AddressRange(id, from, to) == [id |-> id, kind |-> "range", from |-> from, to |-> to]

Scoped == 99    \* stands for an address that probes.py will not hand to fping

MCUnsafe == {Scoped}

Alone ==
    LET all == 0..2^Width - 1
    IN  {Single(<<"a">>, x) : x \in all}
        \cup {Cidr(<<"a">>, x, p) : x \in all, p \in 0..Width}
        \cup {AddressRange(<<"a">>, x, y) : x \in all, y \in all}
        \cup {[id |-> <<"a">>, kind |-> "malformed", from |-> 0, to |-> 0]}

Items ==
    {Single(<<"a">>, 1), Single(<<"b">>, 1), Single(<<"a", 1>>, 2), Single(<<"b">>, Scoped),
     Cidr(<<"a">>, 0, Width - 2), Cidr(<<"b">>, 3, Width - 1), Cidr(<<"b">>, 1, 1),
     AddressRange(<<"a">>, 1, 2), AddressRange(<<"a", 1>>, 1, 2),
     AddressRange(<<"c">>, 2, 1), AddressRange(<<"c">>, 7, 8), Cidr(<<"c">>, 2, Width)}

MCLists == {<<i>> : i \in Alone} \cup [1..2 -> Items]
           \cup {<<Single(<<"a">>, 1), Single(<<"b">>, 1), i>> : i \in Items}

MCProbed ==
    {<<Single(<<"a">>, 1)>>,
     <<AddressRange(<<"a">>, 1, 2)>>,
     <<Single(<<"a">>, 1), Single(<<"b">>, 1)>>,
     <<Single(<<"a">>, 1), Single(<<"b">>, Scoped)>>,
     <<Single(<<"a">>, 1), Single(<<"b">>, 1), Cidr(<<"c">>, 2, Width)>>}

MCAnswers == {<<>>, <<FALSE, FALSE>>, <<FALSE, TRUE>>}
=============================================================================
