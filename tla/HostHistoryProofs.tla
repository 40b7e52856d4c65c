--------------------------- MODULE HostHistoryProofs ---------------------------
(***************************************************************************)
(* The theorems about HostHistory, for every target list, batch size,      *)
(* threshold and output of fping: the list meets its reference, the alerts *)
(* of a host alternate and its status is the one its history confirms.     *)
(*                                                                         *)
(* The first two sections are about the fold that builds the list.  No     *)
(* backend instantiates an induction theorem with a predicate, so the      *)
(* induction is written as one about sets: the proper subsets of a finite  *)
(* set are well founded, hence a set of bad ones would have a minimal      *)
(* member.                                                                 *)
(***************************************************************************)
EXTENDS HostHistory, HostStateProofs, FiniteSetTheorems, SequenceTheorems
-----------------------------------------------------------------------------
(* Induction *)

\* A finite set of numbers has a largest one.
LEMMA MaxExists ==
    ASSUME NEW S \in SUBSET Int, IsFiniteSet(S), S # {}
    PROVE  Max(S) \in S /\ \A y \in S : Max(S) >= y
  <1> DEFINE HasMax(T) == \E x \in T : \A y \in T : x >= y
             Bad == {T \in FiniteSubsetsOf(S) : T # {} /\ ~HasMax(T)}
  <1>1. Bad = {}
    <2>1. SUFFICES ASSUME Bad # {} PROVE FALSE
      OBVIOUS
    <2>2. PICK T \in Bad : \A U \in Bad : ~ (<<U, T>> \in StrictSubsetOrdering(S))
      <3>1. IsWellFoundedOn(StrictSubsetOrdering(S), FiniteSubsetsOf(S))
        BY FS_StrictSubsetOrderingWellFounded
      <3>2. Bad \subseteq FiniteSubsetsOf(S)
        OBVIOUS
      <3> QED BY <2>1, <3>1, <3>2, WFMin
    <2>3. T \in SUBSET S /\ IsFiniteSet(T) /\ T # {} /\ ~HasMax(T)
      BY DEF FiniteSubsetsOf
    <2>4. PICK x \in T : TRUE
      BY <2>3
    <2>5. T \ {x} \in FiniteSubsetsOf(S) /\ <<T \ {x}, T>> \in StrictSubsetOrdering(S)
      BY <2>3, <2>4, FS_RemoveElement DEF FiniteSubsetsOf, StrictSubsetOrdering
    <2>6. T \ {x} # {}
      BY <2>3, <2>4
    <2>7. HasMax(T \ {x})
      BY <2>2, <2>5, <2>6
    <2> QED BY <2>3, <2>4, <2>7
  <1>2. S \in FiniteSubsetsOf(S)
    BY DEF FiniteSubsetsOf
  <1>3. HasMax(S)
    BY <1>1, <1>2
  <1> QED BY <1>3 DEF Max

\* Induction up to n, for a set.
LEMMA Climb ==
    ASSUME NEW n \in Nat, NEW S, 0 \in S, \A k \in 0..n - 1 : k \in S => k + 1 \in S
    PROVE  \A k \in 0..n : k \in S
  <1> DEFINE Good == {k \in 0..n : \A j \in 0..k : j \in S}
  <1>1. Good \in SUBSET Int /\ IsFiniteSet(Good) /\ 0 \in Good
    <2>1. IsFiniteSet(0..n) /\ Good \in SUBSET (0..n)
      BY FS_Interval
    <2>2. IsFiniteSet(Good)
      BY <2>1, FS_Subset
    <2> QED BY <2>1, <2>2
  <1> DEFINE m == Max(Good)
  <1>2. m \in Good /\ \A y \in Good : m >= y
    BY <1>1, MaxExists
  <1>3. m \in 0..n /\ \A j \in 0..m : j \in S
    BY <1>2
  <1> HIDE DEF m
  <1>4. CASE m = n
    BY <1>3, <1>4
  <1>5. CASE m # n
    <2>1. m + 1 \in S /\ m + 1 \in 0..n
      BY <1>3, <1>5
    <2>2. \A j \in 0..m + 1 : j \in S
      BY <1>3, <2>1
    <2>3. m + 1 \in Good
      BY <2>1, <2>2
    <2> QED BY <1>2, <1>3, <2>3
  <1> QED BY <1>4, <1>5

\* The largest number of an interval.
LEMMA MaxOfInterval == \A n \in Nat : Max(1..n + 1) = n + 1
  <1> SUFFICES ASSUME NEW n \in Nat PROVE Max(1..n + 1) = n + 1
    OBVIOUS
  <1>1. n + 1 \in 1..n + 1 /\ \A y \in 1..n + 1 : n + 1 >= y
    OBVIOUS
  <1>2. \A x \in 1..n + 1 : (\A y \in 1..n + 1 : x >= y) => x = n + 1
    OBVIOUS
  <1> QED BY <1>1, <1>2 DEF Max
-----------------------------------------------------------------------------
(* The target list is what the items add one after the other *)

Start == [ok |-> TRUE, seen |-> {}, targets |-> <<>>]

\* The function that FoldLeft goes by, on the positions of D.
IsFold(f, D, list) ==
    f = [s \in SUBSET D |->
           IF s = {} THEN Start ELSE AddItem(f[s \ {Max(s)}], list[Max(s)])]

\* There is one, whatever the list.
LEMMA FoldExists ==
    ASSUME NEW list, NEW D \in SUBSET Int, IsFiniteSet(D)
    PROVE  \E f : IsFold(f, D, list)
  <1> DEFINE Has(T) == \E f : IsFold(f, T, list)
             Bad    == {T \in FiniteSubsetsOf(D) : ~Has(T)}
  <1>1. Bad = {}
    <2>1. SUFFICES ASSUME Bad # {} PROVE FALSE
      OBVIOUS
    <2>2. PICK T \in Bad : \A U \in Bad : ~ (<<U, T>> \in StrictSubsetOrdering(D))
      <3>1. IsWellFoundedOn(StrictSubsetOrdering(D), FiniteSubsetsOf(D))
        BY FS_StrictSubsetOrderingWellFounded
      <3>2. Bad \subseteq FiniteSubsetsOf(D)
        OBVIOUS
      <3> QED BY <2>1, <3>1, <3>2, WFMin
    <2>3. T \in SUBSET D /\ T \in SUBSET Int /\ IsFiniteSet(T) /\ ~Has(T)
      BY DEF FiniteSubsetsOf
    <2>4. T # {}
      <3>1. SUFFICES ASSUME T = {} PROVE FALSE
        OBVIOUS
      <3>2. [s \in SUBSET {} |-> Start] =
              [s \in SUBSET {} |-> IF s = {} THEN Start
                 ELSE AddItem([r \in SUBSET {} |-> Start][s \ {Max(s)}], list[Max(s)])]
        OBVIOUS
      <3>3. IsFold([s \in SUBSET {} |-> Start], {}, list)
        BY <3>2 DEF IsFold
      <3> QED BY <2>3, <3>1, <3>3
    <2> DEFINE m == Max(T)
               U == T \ {m}
    <2>5. m \in T /\ \A y \in T : m >= y
      BY <2>3, <2>4, MaxExists
    <2>6. U \in FiniteSubsetsOf(D) /\ <<U, T>> \in StrictSubsetOrdering(D)
      BY <2>3, <2>5, FS_RemoveElement DEF FiniteSubsetsOf, StrictSubsetOrdering
    <2>7. PICK f : IsFold(f, U, list)
      BY <2>2, <2>6
    <2> DEFINE g == [s \in SUBSET T |->
                       IF m \in s THEN AddItem(f[s \ {m}], list[m]) ELSE f[s]]
    <2>8. ASSUME NEW s \in SUBSET T
          PROVE  g[s] = IF s = {} THEN Start
                        ELSE AddItem(g[s \ {Max(s)}], list[Max(s)])
      <3>0. s \ {m} \in SUBSET U
        OBVIOUS
      <3>1. CASE m \in s
        <4>1. Max(s) = m
          <5>1. m \in s /\ \A y \in s : m >= y
            BY <2>5, <3>1
          <5>2. \A x \in s : (\A y \in s : x >= y) => x = m
            <6>1. m \in s /\ m \in Int /\ s \in SUBSET Int /\ \A y \in s : m >= y
              BY <2>3, <2>5, <3>1
            <6> HIDE DEF m
            <6> QED BY <6>1
          <5> QED BY <5>1, <5>2 DEF Max
        <4>2. g[s \ {m}] = f[s \ {m}]
          BY <3>0
        <4> QED BY <3>1, <4>1, <4>2
      <3>2. CASE m \notin s
        <4>1. s \in SUBSET U /\ g[s] = f[s]
          BY <3>2
        <4>2. f[s] = IF s = {} THEN Start
                     ELSE AddItem(f[s \ {Max(s)}], list[Max(s)])
          BY <2>7, <4>1 DEF IsFold
        <4>3. g[s \ {Max(s)}] = f[s \ {Max(s)}]
          BY <3>2, <4>1
        <4> QED BY <4>1, <4>2, <4>3
      <3> QED BY <3>1, <3>2
    <2>9. IsFold(g, T, list)
      <3> HIDE DEF m, U
      <3>1. g = [s \in SUBSET T |-> g[s]]
        OBVIOUS
      <3>2. [s \in SUBSET T |-> g[s]] =
              [s \in SUBSET T |-> IF s = {} THEN Start
                                  ELSE AddItem(g[s \ {Max(s)}], list[Max(s)])]
        BY <2>8
      <3> HIDE DEF g
      <3> QED BY <3>1, <3>2 DEF IsFold
    <2> QED BY <2>3, <2>9
  <1>2. D \in FiniteSubsetsOf(D)
    BY DEF FiniteSubsetsOf
  <1> QED BY <1>1, <1>2

\* ParseTargets is that function, at all positions.
LEMMA ParseIsFold ==
    ASSUME NEW list
    PROVE  ParseTargets(list) =
             (CHOOSE f : IsFold(f, DOMAIN list, list))[DOMAIN list]
  BY DEF ParseTargets, FoldLeft, MapThenFoldSet, IsFold, Start

(***************************************************************************)
(* The list is built in steps: before the first item it is Start, each     *)
(* item is added to what the items before it gave, and the last step is    *)
(* ParseTargets.                                                           *)
(***************************************************************************)
LEMMA ParseSteps ==
    ASSUME NEW list, NEW N \in Nat, DOMAIN list = 1..N
    PROVE  \E p : /\ p[0] = Start
                  /\ \A n \in 0..N - 1 : p[n + 1] = AddItem(p[n], list[n + 1])
                  /\ p[N] = ParseTargets(list)
  <1> DEFINE D == 1..N
             f == CHOOSE f : IsFold(f, D, list)
             p == [n \in 0..N |-> f[1..n]]
  <1>1. IsFiniteSet(D) /\ D \in SUBSET Int
    BY FS_Interval
  <1>2. IsFold(f, D, list)
    BY <1>1, FoldExists
  <1>3. p[N] = ParseTargets(list)
    <2>1. ParseTargets(list) = f[D]
      BY ParseIsFold
    <2> QED BY <2>1
  <1> HIDE DEF f
  <1>4. p[0] = Start
    <2>1. p[0] = f[{}]
      <3>1. 1..0 = {}
        OBVIOUS
      <3> QED BY <3>1
    <2>2. f[{}] = Start
      BY <1>2 DEF IsFold
    <2> QED BY <2>1, <2>2
  <1>5. ASSUME NEW n \in 0..N - 1 PROVE p[n + 1] = AddItem(p[n], list[n + 1])
    <2>1. 1..n + 1 \in SUBSET D /\ 1..n + 1 # {}
      <3>1. n + 1 \in 1..n + 1 /\ \A i \in 1..n + 1 : i \in D
        OBVIOUS
      <3> QED BY <3>1
    <2>2. Max(1..n + 1) = n + 1
      BY MaxOfInterval
    <2>3. (1..n + 1) \ {n + 1} = 1..n
      OBVIOUS
    <2>4. f[1..n + 1] = AddItem(f[(1..n + 1) \ {Max(1..n + 1)}], list[Max(1..n + 1)])
      BY <1>2, <2>1 DEF IsFold
    <2>5. f[1..n + 1] = AddItem(f[1..n], list[n + 1])
      BY <2>2, <2>3, <2>4
    <2>6. p[n + 1] = f[1..n + 1] /\ p[n] = f[1..n]
      OBVIOUS
    <2> QED BY <2>5, <2>6
  <1> QED BY <1>3, <1>4, <1>5
-----------------------------------------------------------------------------
(* Sequences without repetitions *)

\* A sequence repeats nothing exactly if it has as many elements as positions.
LEMMA CountOfRange ==
    ASSUME NEW n \in Nat, NEW s, DOMAIN s = 1..n
    PROVE  LET S == {s[i] : i \in 1..n}
           IN  /\ IsFiniteSet(S) /\ Cardinality(S) \in Nat /\ Cardinality(S) <= n
               /\ Cardinality(S) = n <=> \A i, j \in 1..n : s[i] = s[j] => i = j
  <1> DEFINE S == {s[i] : i \in 1..n}
             f == [i \in 1..n |-> s[i]]
  <1>1. IsFiniteSet(1..n) /\ Cardinality(1..n) = n
    BY FS_Interval
  <1>2. f \in Surjection(1..n, S)
    BY DEF Surjection
  <1>3. /\ IsFiniteSet(S) /\ Cardinality(S) <= Cardinality(1..n)
        /\ Cardinality(S) = Cardinality(1..n) <=> f \in Injection(1..n, S)
    <2> HIDE DEF S, f
    <2> QED BY <1>1, <1>2, FS_Surjection
  <1>4. f \in Injection(1..n, S) <=> \A i, j \in 1..n : s[i] = s[j] => i = j
    BY DEF Injection, IsInjective
  <1>5. Cardinality(S) \in Nat
    BY <1>3, FS_CardinalityType
  <1> QED BY <1>1, <1>3, <1>4, <1>5

\* The elements of a sequence, by position.
LEMMA ToSetByPosition ==
    ASSUME NEW n \in Nat, NEW s, DOMAIN s = 1..n
    PROVE  ToSet(s) = {s[i] : i \in 1..n}
  BY DEF ToSet
-----------------------------------------------------------------------------
(* What one item stands for *)

\* A sequence that lists every member of a set once.
ListsOnce(A, M) ==
    /\ A \in Seq(Int) /\ Len(A) \in Nat \ {0}
    /\ {A[i] : i \in 1..Len(A)} = M
    /\ \A i, j \in 1..Len(A) : A[i] = A[j] => i = j

\* An interval is listed so.
LEMMA IntervalFacts ==
    ASSUME NEW a \in Int, NEW b \in Int, a <= b
    PROVE  ListsOnce(Interval(a, b), a..b)
  <1>1. b - a + 1 \in Nat \ {0}
    OBVIOUS
  <1>2. Interval(a, b) = [i \in 1..b - a + 1 |-> a + i - 1]
    BY DEF Interval
  <1>3. Interval(a, b) \in Seq(Int) /\ Len(Interval(a, b)) = b - a + 1
    BY <1>1, <1>2
  <1>4. \A i \in 1..b - a + 1 : Interval(a, b)[i] = a + i - 1
    BY <1>2
  <1>5. ASSUME NEW x \in a..b PROVE \E i \in 1..b - a + 1 : Interval(a, b)[i] = x
    <2>1. x - a + 1 \in 1..b - a + 1 /\ a + (x - a + 1) - 1 = x
      OBVIOUS
    <2> QED BY <1>4, <2>1
  <1>6. {Interval(a, b)[i] : i \in 1..b - a + 1} = a..b
    BY <1>4, <1>5
  <1>7. ASSUME NEW i \in 1..b - a + 1, NEW j \in 1..b - a + 1,
               Interval(a, b)[i] = Interval(a, b)[j]
        PROVE  i = j
    BY <1>4, <1>7
  <1> QED BY <1>1, <1>3, <1>6, <1>7 DEF ListsOnce

\* Quotient and remainder.
LEMMA DivMod ==
    ASSUME NEW size \in Nat \ {0}, NEW a \in Nat
    PROVE  /\ a \div size \in Nat /\ a % size \in 0..size - 1
           /\ (a \div size) * size + (a % size) = a
  OBVIOUS

\* The network of an address, and what is left of it.
LEMMA NetFacts ==
    ASSUME NEW item, IsItem(item), item.kind = "cidr"
    PROVE  LET size  == 2^(Width - item.to)
               first == (item.from \div size) * size
               net   == {a \in 0..2^Width - 1 : a \div size = item.from \div size}
           IN  /\ size \in Nat \ {0} /\ first \in Nat
               /\ net = first..first + size - 1
               /\ size > 4 => {a \in net : a % size \notin {0, size - 1}}
                                = first + 1..first + size - 2
  <1> DEFINE size == 2^(Width - item.to)
             nets == 2^item.to
             q    == item.from \div size
  <1>1. /\ size \in Nat \ {0} /\ nets \in Nat \ {0} /\ 2^Width = nets * size
        /\ item.from \in 0..2^Width - 1
    <2>1. /\ item.to \in 0..Width /\ Width \in Nat /\ Width - item.to \in 0..Width
          /\ item.from \in 0..2^Width - 1
      BY TargetListAssumption DEF IsItem
    <2> QED BY <2>1, PowerAssumption
  <1> HIDE DEF size, nets
  <1>2. q \in Nat /\ q * size <= item.from /\ item.from < q * size + size
    BY <1>1
  <1>3. q * size \in Nat
    BY <1>1, <1>2
  <1> HIDE DEF q
  <1>4. q * size + size <= 2^Width
    <2>1. q < nets
      <3>1. item.from < nets * size
        BY <1>1
      <3>2. SUFFICES ASSUME q >= nets PROVE FALSE
        BY <1>1, <1>2
      <3>3. q * size >= nets * size
        BY <1>1, <1>2, <3>2
      <3> QED BY <1>1, <1>2, <1>3, <3>1, <3>3
    <2>2. (q + 1) * size <= nets * size
      BY <1>1, <1>2, <2>1
    <2>3. (q + 1) * size = q * size + size
      BY <1>1, <1>2
    <2> QED BY <1>1, <2>2, <2>3
  <1>5. \A a \in Nat : a \div size = q <=> a \in q * size..q * size + size - 1
    <2>1. ASSUME NEW a \in Nat, a \div size = q
          PROVE  a \in q * size..q * size + size - 1
      BY <1>1, <1>2, <1>3, <2>1
    <2>2. ASSUME NEW a \in Nat, a \in q * size..q * size + size - 1
          PROVE  a \div size = q
      BY <1>1, <1>2, <1>3, <2>2
    <2> QED BY <2>1, <2>2
  <1>6. ASSUME NEW a \in Nat, a \div size = q PROVE a % size = a - q * size
    <2> DEFINE below == q * size
               rest  == a % size
    <2>1. below + rest = a /\ rest \in Int /\ below \in Nat
      <3>1. (a \div size) * size + rest = a
        BY <1>1, DivMod
      <3>2. rest \in Int
        BY <1>1, DivMod
      <3>3. below + rest = a
        BY ONLY <1>6, <3>1
      <3> QED BY <1>3, <3>2, <3>3
    <2> HIDE DEF below, rest
    <2>2. rest = a - below
      BY <2>1
    <2> QED BY <2>2 DEF below, rest
  <1> DEFINE first == q * size
             top   == 2^Width
             In(a) == a \div size = q
             Off(a) == a % size
  <1>7. /\ first \in Nat /\ size \in Nat \ {0} /\ top \in Nat /\ first + size <= top
        /\ \A a \in Nat : In(a) <=> a \in first..first + size - 1
        /\ \A a \in Nat : In(a) => Off(a) = a - first
    <2>1. top \in Nat
      BY TargetListAssumption, PowerAssumption
    <2> QED BY <1>1, <1>3, <1>4, <1>5, <1>6, <2>1
  <1> DEFINE net == {a \in 0..top - 1 : In(a)}
  <1> HIDE DEF first, top, In, Off
  <1>8. net = first..first + size - 1
    <2>1. ASSUME NEW a \in net PROVE a \in first..first + size - 1
      <3>1. a \in 0..top - 1 /\ In(a)
        OBVIOUS
      <3>2. a \in Nat
        BY <1>7, <3>1
      <3> QED BY <1>7, <3>1, <3>2
    <2>2. ASSUME NEW a \in first..first + size - 1 PROVE a \in net
      <3>1. a \in Nat /\ a \in 0..top - 1
        BY <1>7
      <3> QED BY <1>7, <3>1
    <2> QED BY <2>1, <2>2
  <1>9. size > 4 => {a \in net : Off(a) \notin {0, size - 1}}
                      = first + 1..first + size - 2
    <2>1. ASSUME NEW a \in first..first + size - 1
          PROVE  Off(a) \in {0, size - 1} <=> a \in {first, first + size - 1}
      <3>1. a \in Nat
        BY <1>7
      <3>2. Off(a) = a - first
        BY <1>7, <3>1
      <3> QED BY <1>7, <3>1, <3>2
    <2> HIDE DEF net
    <2>2. {a \in net : Off(a) \notin {0, size - 1}} =
            {a \in first..first + size - 1 : a \notin {first, first + size - 1}}
      BY <1>8, <2>1
    <2>3. ASSUME NEW a \in Int
          PROVE  a \in first..first + size - 1 /\ a \notin {first, first + size - 1}
                   <=> a \in first + 1..first + size - 2
      BY <1>7
    <2>4. {a \in first..first + size - 1 : a \notin {first, first + size - 1}} =
            first + 1..first + size - 2
      <3>1. /\ first..first + size - 1 \subseteq Int
            /\ first + 1..first + size - 2 \subseteq Int
        OBVIOUS
      <3> QED BY <2>3, <3>1
    <2> QED BY <2>2, <2>4
  <1> QED BY <1>7, <1>8, <1>9 DEF q, size, first, top, In, Off

\* The addresses of an item are the ones it means, each of them once.
LEMMA AddressesFacts ==
    ASSUME NEW item, IsItem(item), IsValid(item)
    PROVE  LET A == Addresses(item)
               n == Len(A)
           IN  /\ n \in Nat \ {0} /\ A \in Seq(Int)
               /\ {A[i] : i \in 1..n} = Meant(item)
               /\ \A i, j \in 1..n : A[i] = A[j] => i = j
               /\ IsFiniteSet(Meant(item)) /\ Cardinality(Meant(item)) = n
  <1> DEFINE A == Addresses(item)
             n == Len(A)
  <1>1. ListsOnce(A, Meant(item))
    <2>1. CASE item.kind = "single"
      <3>1. A = <<item.from>> /\ Meant(item) = {item.from}
        BY <2>1 DEF Addresses, Meant
      <3>2. item.from \in Int
        BY DEF IsItem
      <3>3. ListsOnce(<<item.from>>, {item.from})
        BY <3>2 DEF ListsOnce
      <3> QED BY <3>1, <3>3
    <2>2. CASE item.kind = "range"
      <3>1. A = Interval(item.from, item.to) /\ Meant(item) = item.from..item.to
        BY <2>2 DEF Addresses, Meant
      <3>2. item.from \in Int /\ item.to \in Int /\ item.from <= item.to
        BY <2>2 DEF IsItem, IsValid
      <3> QED BY <3>1, <3>2, IntervalFacts
    <2>3. CASE item.kind = "cidr"
      <3> DEFINE size  == 2^(Width - item.to)
                 first == (item.from \div size) * size
                 net   == {a \in 0..2^Width - 1 : a \div size = item.from \div size}
      <3>1. A = IF size <= 4 THEN Interval(first, first + size - 1)
                ELSE Interval(first + 1, first + size - 2)
        BY <2>3 DEF Addresses, ExpandCidr
      <3>2. Meant(item) = IF size <= 4 THEN net
                          ELSE {a \in net : a % size \notin {0, size - 1}}
        BY <2>3 DEF Meant
      <3>3. /\ size \in Nat \ {0} /\ first \in Nat
            /\ net = first..first + size - 1
            /\ size > 4 => {a \in net : a % size \notin {0, size - 1}}
                             = first + 1..first + size - 2
        BY <2>3, NetFacts
      <3> HIDE DEF size, first, net
      <3>4. CASE size <= 4
        <4>1. first \in Int /\ first + size - 1 \in Int /\ first <= first + size - 1
          BY <3>3
        <4>2. /\ A = Interval(first, first + size - 1)
              /\ Meant(item) = first..first + size - 1
          BY <3>1, <3>2, <3>3, <3>4
        <4> HIDE DEF A
        <4> QED BY <4>1, <4>2, IntervalFacts
      <3>5. CASE size > 4
        <4>1. /\ first + 1 \in Int /\ first + size - 2 \in Int
              /\ first + 1 <= first + size - 2 /\ ~(size <= 4)
          BY <3>3, <3>5
        <4>2. A = Interval(first + 1, first + size - 2)
          BY <3>1, <4>1
        <4>3. Meant(item) = first + 1..first + size - 2
          BY <3>2, <3>3, <3>5, <4>1
        <4> HIDE DEF A
        <4> QED BY <4>1, <4>2, <4>3, IntervalFacts
      <3> QED BY <3>3, <3>4, <3>5
    <2> QED BY <2>1, <2>2, <2>3 DEF IsItem, IsValid
  <1> HIDE DEF A
  <1>2. DOMAIN A = 1..n /\ n \in Nat
    BY <1>1 DEF ListsOnce
  <1>3. IsFiniteSet({A[i] : i \in 1..n}) /\ Cardinality({A[i] : i \in 1..n}) = n
    BY <1>1, <1>2, CountOfRange DEF ListsOnce
  <1> QED BY <1>1, <1>3 DEF A, ListsOnce

\* A generated id is longer than the id of the item.
LEMMA GeneratedIsNew ==
    ASSUME NEW item, IsItem(item), NEW a
    PROVE  GeneratedId(item, a) # item.id
  <1> DEFINE n == Len(item.id)
             x == a % SuffixSpan
             S == {item.id[i] : i \in 1..n} \cup {x}
  <1>1. n \in Nat /\ item.id = [i \in 1..n |-> item.id[i]]
    BY DEF IsItem
  <1>2. item.id \in Seq(S) /\ x \in S
    <2>1. [i \in 1..n |-> item.id[i]] \in [1..n -> S]
      OBVIOUS
    <2>2. x \in S
      OBVIOUS
    <2> HIDE DEF S
    <2>3. item.id \in [1..n -> S]
      BY <1>1, <2>1
    <2> QED BY <1>1, <2>2, <2>3
  <1> HIDE DEF x, S
  <1>3. Len(Append(item.id, x)) = n + 1
    BY <1>1, <1>2, AppendProperties
  <1> QED BY <1>1, <1>3 DEF GeneratedId, x

\* The targets an item expands to are the ones it means, each of them once.
LEMMA ExpandedFacts ==
    ASSUME NEW item, IsItem(item), IsValid(item)
    PROVE  LET new == Expanded(item)
               n   == Len(new)
           IN  /\ n \in Nat \ {0} /\ n = Cardinality(Meant(item))
               /\ new \in [1..n -> TargetsOf(item)]
               /\ {new[i] : i \in 1..n} = TargetsOf(item)
               /\ \A i, j \in 1..n : new[i] = new[j] => i = j
               /\ \A i \in 1..n :
                    /\ new[i] = [id |-> new[i].id, address |-> new[i].address]
                    /\ new[i].address \in Int
                    /\ new[i].id = item.id <=> n = 1
  <1> DEFINE A   == Addresses(item)
             c   == Len(A)
             new == Expanded(item)
  <1>1. /\ c \in Nat \ {0} /\ A \in Seq(Int)
        /\ {A[i] : i \in 1..c} = Meant(item)
        /\ \A i, j \in 1..c : A[i] = A[j] => i = j
        /\ Cardinality(Meant(item)) = c
    BY AddressesFacts
  <1>2. new = IF c = 1 THEN <<[id |-> item.id, address |-> A[1]]>>
              ELSE [i \in 1..c |-> [id |-> GeneratedId(item, A[i]), address |-> A[i]]]
    BY DEF Expanded
  <1>3. \A i \in 1..c : A[i] \in Int
    BY <1>1
  <1> HIDE DEF A, c, new
  <1>4. CASE c = 1
    <2> DEFINE t == [id |-> item.id, address |-> A[1]]
    <2>1. new = <<t>> /\ A[1] \in Int
      BY <1>2, <1>3, <1>4
    <2>2. Meant(item) = {A[1]}
      BY <1>1, <1>4
    <2>3. TargetsOf(item) = {t}
      <3>1. TargetsOf(item) = [id : {item.id}, address : {A[1]}]
        BY <1>1, <1>4, <2>2 DEF TargetsOf
      <3>2. \A u \in [id : {item.id}, address : {A[1]}] : u = t
        OBVIOUS
      <3>3. t \in [id : {item.id}, address : {A[1]}]
        OBVIOUS
      <3> QED BY <3>1, <3>2, <3>3
    <2> QED BY <1>1, <1>4, <2>1, <2>3 DEF new
  <1>5. CASE c # 1
    <2> DEFINE t(a) == [id |-> GeneratedId(item, a), address |-> a]
    <2>1. new = [i \in 1..c |-> t(A[i])]
      BY <1>2, <1>5
    <2>2. Len(new) = c /\ \A i \in 1..c : new[i] = t(A[i])
      BY <1>1, <2>1
    <2>3. TargetsOf(item) = {t(a) : a \in Meant(item)}
      BY <1>1, <1>5 DEF TargetsOf
    <2>4. {new[i] : i \in 1..c} = TargetsOf(item)
      BY <1>1, <2>2, <2>3
    <2>5. \A i, j \in 1..c : new[i] = new[j] => i = j
      BY <1>1, <2>2
    <2>6. ASSUME NEW i \in 1..c
          PROVE  /\ new[i] = [id |-> new[i].id, address |-> new[i].address]
                 /\ new[i].address \in Int /\ new[i].id # item.id
      <3>1. new[i] = t(A[i]) /\ A[i] \in Int
        BY <1>3, <2>2
      <3> QED BY <3>1, GeneratedIsNew
    <2>7. new \in [1..c -> TargetsOf(item)]
      BY <2>1, <2>2, <2>4
    <2> QED BY <1>1, <1>5, <2>2, <2>4, <2>5, <2>6, <2>7 DEF new
  <1> QED BY <1>4, <1>5
-----------------------------------------------------------------------------
(* The ids a list gives out *)

\* The ids that the item at position n gives out, as GivenIds has them.
Own(n, item) ==
    {[item |-> n, address |-> 0, id |-> item.id]}
    \cup {[item |-> n, address |-> t.address + 1, id |-> t.id] :
            t \in {u \in TargetsOf(item) : u.id # item.id}}

\* No id is given out twice.
Unique(given) == \A p, q \in given : p.id = q.id => p = q

\* An item gives out its own id and those of its targets, and gives one out
\* twice exactly if two of its targets have it.
LEMMA OwnFacts ==
    ASSUME NEW item, IsItem(item), IsValid(item), NEW m
    PROVE  LET new == Expanded(item)
               n   == Len(new)
           IN  /\ {r.id : r \in Own(m, item)} = {item.id} \cup {new[i].id : i \in 1..n}
               /\ Unique(Own(m, item))
                    <=> \A i, j \in 1..n : new[i].id = new[j].id => i = j
               /\ \A r \in Own(m, item) : r.item = m
  <1> DEFINE new == Expanded(item)
             n   == Len(new)
             base == [item |-> m, address |-> 0, id |-> item.id]
             r(t) == [item |-> m, address |-> t.address + 1, id |-> t.id]
             distinct == \A i, j \in 1..n : new[i].id = new[j].id => i = j
  <1>1. /\ n \in Nat \ {0}
        /\ {new[i] : i \in 1..n} = TargetsOf(item)
        /\ \A i, j \in 1..n : new[i] = new[j] => i = j
        /\ \A i \in 1..n :
             /\ new[i] = [id |-> new[i].id, address |-> new[i].address]
             /\ new[i].address \in Int
             /\ new[i].id = item.id <=> n = 1
    BY ExpandedFacts
  <1> HIDE DEF new, n
  <1>2. Own(m, item) = {base} \cup {r(new[i]) : i \in {j \in 1..n : new[j].id # item.id}}
    <2>1. {r(t) : t \in {u \in TargetsOf(item) : u.id # item.id}} =
            {r(new[i]) : i \in {j \in 1..n : new[j].id # item.id}}
      BY <1>1
    <2> QED BY <2>1 DEF Own
  <1>3. {x.id : x \in Own(m, item)} = {item.id} \cup {new[i].id : i \in 1..n}
    <2>1. base.id = item.id /\ \A i \in 1..n : r(new[i]).id = new[i].id
      OBVIOUS
    <2> HIDE DEF base, r
    <2> QED BY <1>2, <2>1
  <1>4. \A x \in Own(m, item) : x.item = m
    BY <1>2
  <1>5. distinct => Unique(Own(m, item))
    <2>1. SUFFICES ASSUME distinct, NEW x \in Own(m, item), NEW y \in Own(m, item),
                          x.id = y.id
                   PROVE  x = y
      BY DEF Unique
    <2>2. \A z \in Own(m, item) :
            \/ z = base
            \/ \E i \in 1..n : z = r(new[i]) /\ z.id # item.id /\ z.id = new[i].id
      BY <1>2
    <2>3. base.id = item.id
      OBVIOUS
    <2> HIDE DEF base, r
    <2> QED BY <2>1, <2>2, <2>3
  <1>6. Unique(Own(m, item)) => distinct
    <2>1. SUFFICES ASSUME Unique(Own(m, item)), NEW i \in 1..n, NEW j \in 1..n,
                          new[i].id = new[j].id
                   PROVE  i = j
      OBVIOUS
    <2>2. CASE n = 1
      BY <2>2
    <2>3. CASE n # 1
      <3>1. r(new[i]) \in Own(m, item) /\ r(new[j]) \in Own(m, item)
        BY <1>1, <1>2, <2>3
      <3>2. r(new[i]) = r(new[j])
        BY <2>1, <3>1 DEF Unique
      <3>3. new[i].address = new[j].address
        <4>1. r(new[i]).address = r(new[j]).address
          BY <3>2
        <4>2. new[i].address + 1 = new[j].address + 1
          BY <4>1
        <4>3. new[i].address \in Int /\ new[j].address \in Int
          BY <1>1
        <4>4. \A a, b \in Int : a + 1 = b + 1 => a = b
          OBVIOUS
        <4> QED BY <4>2, <4>3, <4>4
      <3>4. new[i] = new[j]
        BY <1>1, <2>1, <3>3
      <3> QED BY <1>1, <3>4
    <2> QED BY <2>2, <2>3
  <1> QED BY <1>3, <1>4, <1>5, <1>6 DEF new, n

\* The ids given out by the items up to position k.
GivenTo(list, k) == UNION {Own(n, list[n]) : n \in 1..k}

\* The items up to position k have no fault.
AcceptableTo(list, k) ==
    /\ \A n \in 1..k : IsValid(list[n]) /\ Cardinality(Meant(list[n])) <= MaxExpansion
    /\ Unique(GivenTo(list, k))

\* The targets that the items up to position k mean.
TargetsTo(list, k) == UNION {TargetsOf(list[n]) : n \in 1..k}

\* A list of items.
IsList(list) ==
    /\ Len(list) \in Nat /\ DOMAIN list = 1..Len(list)
    /\ \A n \in 1..Len(list) : IsItem(list[n])

(***************************************************************************)
(* What ParseTargets has after k items: nothing, if one of them is at      *)
(* fault, and otherwise every id given out and every target meant, with an *)
(* id of its own.                                                          *)
(***************************************************************************)
Correct(list, k, l) ==
    IF AcceptableTo(list, k)
    THEN /\ l.ok = TRUE
         /\ l.seen = {r.id : r \in GivenTo(list, k)}
         /\ Len(l.targets) \in Nat
         /\ l.targets \in [1..Len(l.targets) -> TargetsTo(list, k)]
         /\ {l.targets[i] : i \in 1..Len(l.targets)} = TargetsTo(list, k)
         /\ \A i, j \in 1..Len(l.targets) : l.targets[i].id = l.targets[j].id => i = j
         /\ \A i \in 1..Len(l.targets) : l.targets[i].id \in l.seen
    ELSE l = Refused

\* An item fits if it has no fault by itself and gives out no id given before.
Fits(item, n, seen) ==
    /\ IsValid(item) /\ Cardinality(Meant(item)) <= MaxExpansion
    /\ Unique(Own(n, item))
    /\ {r.id : r \in Own(n, item)} \cap seen = {}

\* Two unions, the last index apart.
LEMMA GivenGrows ==
    ASSUME NEW list, NEW k \in Nat
    PROVE  /\ GivenTo(list, k + 1) = GivenTo(list, k) \cup Own(k + 1, list[k + 1])
           /\ TargetsTo(list, k + 1) = TargetsTo(list, k) \cup TargetsOf(list[k + 1])
  <1>1. 1..k + 1 = 1..k \cup {k + 1}
    OBVIOUS
  <1> QED BY <1>1 DEF GivenTo, TargetsTo

\* A list stays acceptable exactly with an item that fits.
LEMMA AcceptableGrows ==
    ASSUME NEW list, IsList(list), NEW k \in 0..Len(list) - 1
    PROVE  AcceptableTo(list, k + 1)
             <=> /\ AcceptableTo(list, k)
                 /\ Fits(list[k + 1], k + 1, {r.id : r \in GivenTo(list, k)})
  <1> DEFINE item == list[k + 1]
             old  == GivenTo(list, k)
             own  == Own(k + 1, item)
             seen == {r.id : r \in old}
  <1>1. GivenTo(list, k + 1) = old \cup own
    <2>1. k \in Nat
      BY DEF IsList
    <2> QED BY <2>1, GivenGrows
  <1>2. \A r \in own : r.item = k + 1
    BY DEF Own
  <1>3. \A r \in old : r.item \in 1..k
    BY DEF Own, GivenTo
  <1>4. k \in Nat /\ IsItem(item)
    BY DEF IsList
  <1> HIDE DEF old, own, item
  <1>5. Unique(old \cup own)
          <=> Unique(old) /\ Unique(own) /\ {r.id : r \in own} \cap seen = {}
    <2>1. ASSUME Unique(old \cup own)
          PROVE  Unique(old) /\ Unique(own) /\ {r.id : r \in own} \cap seen = {}
      <3>1. Unique(old) /\ Unique(own)
        BY <2>1 DEF Unique
      <3>2. ASSUME NEW p \in own, NEW q \in old PROVE p.id # q.id
        <4>1. p # q
          BY <1>2, <1>3, <1>4
        <4> QED BY <2>1, <4>1 DEF Unique
      <3> QED BY <3>1, <3>2
    <2>2. ASSUME Unique(old), Unique(own), {r.id : r \in own} \cap seen = {}
          PROVE  Unique(old \cup own)
      <3>1. \A p \in own, q \in old : p.id # q.id
        BY <2>2
      <3> QED BY <2>2, <3>1 DEF Unique
    <2> QED BY <2>1, <2>2
  <1>6. (\A n \in 1..k + 1 :
           IsValid(list[n]) /\ Cardinality(Meant(list[n])) <= MaxExpansion)
          <=> /\ \A n \in 1..k :
                   IsValid(list[n]) /\ Cardinality(Meant(list[n])) <= MaxExpansion
              /\ IsValid(item) /\ Cardinality(Meant(item)) <= MaxExpansion
    BY <1>4 DEF item
  <1> QED BY <1>1, <1>5, <1>6 DEF AcceptableTo, Fits, old, own, item

\* AddItem takes exactly an item that fits.
LEMMA AddItemFits ==
    ASSUME NEW item, IsItem(item), NEW n, NEW l, l.ok = TRUE
    PROVE  IF Fits(item, n, l.seen)
           THEN AddItem(l, item) = [ok |-> TRUE,
                                    seen |-> l.seen \cup {r.id : r \in Own(n, item)},
                                    targets |-> l.targets \o Expanded(item)]
           ELSE AddItem(l, item) = Refused
  <1>1. CASE ~IsValid(item)
    BY <1>1 DEF Fits, AddItem
  <1>2. CASE IsValid(item)
    <2> DEFINE new == Expanded(item)
               c   == Len(new)
               ids == ToSet(Ids(new))
               own == {r.id : r \in Own(n, item)}
    <2>1. c \in Nat \ {0} /\ c = Cardinality(Meant(item))
      BY <1>2, ExpandedFacts
    <2>2. own = {item.id} \cup {new[i].id : i \in 1..c}
      BY <1>2, OwnFacts
    <2>3. Unique(Own(n, item)) <=> \A i, j \in 1..c : new[i].id = new[j].id => i = j
      BY <1>2, OwnFacts
    <2>4. ids = {new[i].id : i \in 1..c}
      BY DEF ToSet, Ids
    <2> HIDE DEF c
    <2>5. Cardinality(ids) < c <=> ~Unique(Own(n, item))
      <3> DEFINE s == [i \in 1..c |-> new[i].id]
                 S == {s[i] : i \in 1..c}
      <3>1. DOMAIN s = 1..c /\ c \in Nat
        BY <2>1
      <3>2. S = ids
        BY <2>4
      <3>3. (\A i, j \in 1..c : s[i] = s[j] => i = j) <=> Unique(Own(n, item))
        BY <2>3
      <3> HIDE DEF s
      <3>4. /\ Cardinality(S) \in Nat /\ Cardinality(S) <= c
            /\ Cardinality(S) = c <=> \A i, j \in 1..c : s[i] = s[j] => i = j
        BY <3>1, CountOfRange
      <3> HIDE DEF S, ids, c
      <3> QED BY <3>1, <3>2, <3>3, <3>4
    <2> HIDE DEF ids, own
    <2>6. AddItem(l, item) =
            IF item.id \in l.seen THEN Refused
            ELSE IF c > MaxExpansion \/ ids \cap l.seen # {} \/ Cardinality(ids) < c
            THEN Refused
            ELSE [ok |-> TRUE, seen |-> l.seen \cup {item.id} \cup ids,
                  targets |-> l.targets \o new]
      BY <1>2 DEF AddItem, c, ids
    <2>7. own \cap l.seen = {} <=> item.id \notin l.seen /\ ids \cap l.seen = {}
      BY <2>2, <2>4
    <2>8. l.seen \cup {item.id} \cup ids = l.seen \cup own
      BY <2>2, <2>4
    <2>9. c > MaxExpansion <=> ~(Cardinality(Meant(item)) <= MaxExpansion)
      BY <2>1, TargetListAssumption
    <2>10. Fits(item, n, l.seen) <=>
             /\ ~(c > MaxExpansion) /\ ~(Cardinality(ids) < c)
             /\ item.id \notin l.seen /\ ids \cap l.seen = {}
      BY <1>2, <2>5, <2>7, <2>9 DEF Fits, own
    <2> QED BY <2>6, <2>8, <2>10 DEF own
  <1> QED BY <1>1, <1>2

\* One more item keeps the list correct.
LEMMA CorrectGrows ==
    ASSUME NEW list, IsList(list), NEW k \in 0..Len(list) - 1, NEW l,
           Correct(list, k, l)
    PROVE  Correct(list, k + 1, AddItem(l, list[k + 1]))
  <1> DEFINE item == list[k + 1]
             m    == AddItem(l, item)
             seen == {r.id : r \in GivenTo(list, k)}
             own  == {r.id : r \in Own(k + 1, item)}
  <1>0. k \in Nat /\ IsItem(item)
    BY DEF IsList
  <1>1. AcceptableTo(list, k + 1)
          <=> AcceptableTo(list, k) /\ Fits(item, k + 1, seen)
    BY AcceptableGrows
  <1>2. CASE ~AcceptableTo(list, k)
    <2>1. l = Refused /\ ~l.ok
      BY <1>2 DEF Correct, Refused
    <2>2. m = Refused
      BY <2>1 DEF AddItem
    <2> QED BY <1>1, <1>2, <2>2 DEF Correct
  <1>3. CASE AcceptableTo(list, k)
    <2> DEFINE T   == l.targets
               new == Expanded(item)
    <2>1. /\ l.ok = TRUE /\ l.seen = seen /\ Len(T) \in Nat
          /\ T \in [1..Len(T) -> TargetsTo(list, k)]
          /\ {T[i] : i \in 1..Len(T)} = TargetsTo(list, k)
          /\ \A i, j \in 1..Len(T) : T[i].id = T[j].id => i = j
          /\ \A i \in 1..Len(T) : T[i].id \in seen
      BY <1>3 DEF Correct
    <2>2. CASE ~Fits(item, k + 1, seen)
      <3>1. ~Fits(item, k + 1, l.seen) /\ l.ok = TRUE
        BY <2>1, <2>2
      <3> HIDE DEF item
      <3>2. m = Refused
        BY <1>0, <3>1, AddItemFits
      <3> QED BY <1>1, <2>2, <3>2 DEF Correct, item
    <2>3. CASE Fits(item, k + 1, seen)
      <3>1. m = [ok |-> TRUE, seen |-> seen \cup own, targets |-> T \o new]
        <4>1. Fits(item, k + 1, l.seen) /\ l.ok = TRUE
          BY <2>1, <2>3
        <4> HIDE DEF item, T
        <4>2. m = [ok |-> TRUE, seen |-> l.seen \cup own, targets |-> T \o new]
          BY <1>0, <4>1, AddItemFits DEF T
        <4> QED BY <2>1, <4>2
      <3>2. IsValid(item) /\ own \cap seen = {}
        BY <2>3 DEF Fits
      <3>3. /\ Len(new) \in Nat \ {0}
            /\ new \in [1..Len(new) -> TargetsOf(item)]
            /\ {new[i] : i \in 1..Len(new)} = TargetsOf(item)
        BY <1>0, <3>2, ExpandedFacts
      <3>4. /\ \A i, j \in 1..Len(new) : new[i].id = new[j].id => i = j
            /\ \A i \in 1..Len(new) : new[i].id \in own
        <4>1. own = {item.id} \cup {new[i].id : i \in 1..Len(new)}
          BY <1>0, <3>2, OwnFacts
        <4>2. Unique(Own(k + 1, item))
                <=> \A i, j \in 1..Len(new) : new[i].id = new[j].id => i = j
          BY <1>0, <3>2, OwnFacts
        <4> QED BY <2>3, <4>1, <4>2 DEF Fits
      <3>5. /\ TargetsTo(list, k + 1) = TargetsTo(list, k) \cup TargetsOf(item)
            /\ {r.id : r \in GivenTo(list, k + 1)} = seen \cup own
        <4>1. GivenTo(list, k + 1) = GivenTo(list, k) \cup Own(k + 1, item)
              /\ TargetsTo(list, k + 1) = TargetsTo(list, k) \cup TargetsOf(item)
          BY <1>0, GivenGrows
        <4> QED BY <4>1
      <3> DEFINE U == TargetsTo(list, k + 1)
                 a == Len(T)
                 b == Len(new)
                 R == T \o new
      <3> HIDE DEF T, new, seen, own, m, item
      <3>6. /\ T \in Seq(U) /\ new \in Seq(U) /\ a \in Nat /\ b \in Nat
        BY <2>1, <3>3, <3>5
      <3>7. /\ R \in Seq(U) /\ Len(R) = a + b
            /\ \A i \in 1..a + b : R[i] = IF i <= a THEN T[i] ELSE new[i - a]
        BY <3>6, ConcatProperties
      <3> HIDE DEF U, a, b, R
      <3>8. /\ \A i \in 1..a + b : \/ i \in 1..a /\ R[i] = T[i]
                                   \/ i - a \in 1..b /\ R[i] = new[i - a]
            /\ \A i \in 1..a : i \in 1..a + b /\ R[i] = T[i]
            /\ \A i \in 1..b : i + a \in 1..a + b /\ R[i + a] = new[i]
        <4>1. ASSUME NEW i \in 1..b
              PROVE  i + a \in 1..a + b /\ ~(i + a <= a) /\ (i + a) - a = i
          BY <3>6
        <4>2. \A i \in 1..b : i + a \in 1..a + b /\ R[i + a] = new[i]
          BY <3>7, <4>1
        <4> QED BY <3>6, <3>7, <4>2
      <3>9. {R[i] : i \in 1..a + b} = U
        <4>1. {T[i] : i \in 1..a} \cup {new[i] : i \in 1..b} = U
          BY <2>1, <3>3, <3>5 DEF U, a, b, T
        <4>2. \A x : (\E i \in 1..a + b : x = R[i])
                       <=> (\E i \in 1..a : x = T[i]) \/ (\E i \in 1..b : x = new[i])
          BY <3>8
        <4> QED BY <4>1, <4>2
      <3>10. \A i \in 1..a + b : R[i].id \in seen \cup own
        BY <2>1, <3>4, <3>8 DEF a, b, T
      <3>11. ASSUME NEW i \in 1..a + b, NEW j \in 1..a + b, R[i].id = R[j].id
             PROVE  i = j
        <4>1. \A x \in 1..a, y \in 1..b : T[x].id # new[y].id
          BY <2>1, <3>2, <3>4 DEF a, b, T
        <4>2. \A x, y \in 1..a : T[x].id = T[y].id => x = y
          BY <2>1 DEF a, T
        <4>3. \A x, y \in 1..b : new[x].id = new[y].id => x = y
          BY <3>4 DEF b
        <4>4. CASE i \in 1..a /\ j \in 1..a /\ R[i] = T[i] /\ R[j] = T[j]
          BY <3>11, <4>2, <4>4
        <4>5. CASE /\ i - a \in 1..b /\ R[i] = new[i - a]
                   /\ j - a \in 1..b /\ R[j] = new[j - a]
          <5>1. i - a = j - a
            BY <3>11, <4>3, <4>5
          <5> QED BY <3>6, <5>1
        <4>6. CASE i \in 1..a /\ R[i] = T[i] /\ j - a \in 1..b /\ R[j] = new[j - a]
          BY <3>11, <4>1, <4>6
        <4>7. CASE j \in 1..a /\ R[j] = T[j] /\ i - a \in 1..b /\ R[i] = new[i - a]
          BY <3>11, <4>1, <4>7
        <4> QED BY <3>8, <4>4, <4>5, <4>6, <4>7
      <3>12. /\ m.ok = TRUE /\ m.targets = R /\ m.seen = seen \cup own
        BY <3>1 DEF R
      <3>13. R \in [1..Len(R) -> U] /\ Len(R) \in Nat /\ Len(R) = a + b
        BY <3>6, <3>7
      <3>14. AcceptableTo(list, k + 1)
        BY <1>1, <1>3, <2>3
      <3>15. /\ m.ok = TRUE
             /\ m.seen = {r.id : r \in GivenTo(list, k + 1)}
             /\ Len(m.targets) \in Nat
             /\ m.targets \in [1..Len(m.targets) -> U]
             /\ {m.targets[i] : i \in 1..Len(m.targets)} = U
             /\ \A i, j \in 1..Len(m.targets) :
                  m.targets[i].id = m.targets[j].id => i = j
             /\ \A i \in 1..Len(m.targets) : m.targets[i].id \in m.seen
        BY <3>5, <3>9, <3>10, <3>11, <3>12, <3>13
      <3> QED BY <3>14, <3>15 DEF Correct, U, m, item
    <2> QED BY <2>2, <2>3
  <1> QED BY <1>2, <1>3

\* So is the whole list.
LEMMA ParseIsCorrect ==
    ASSUME NEW list, IsList(list)
    PROVE  Correct(list, Len(list), ParseTargets(list))
  <1> DEFINE N == Len(list)
  <1>1. N \in Nat /\ DOMAIN list = 1..N
    BY DEF IsList
  <1>2. PICK p : /\ p[0] = Start
                 /\ \A n \in 0..N - 1 : p[n + 1] = AddItem(p[n], list[n + 1])
                 /\ p[N] = ParseTargets(list)
    BY <1>1, ParseSteps
  <1> DEFINE S == {k \in 0..N : Correct(list, k, p[k])}
  <1>3. 0 \in S
    <2>1. 1..0 = {}
      OBVIOUS
    <2>2. GivenTo(list, 0) = {} /\ TargetsTo(list, 0) = {}
      BY <2>1 DEF GivenTo, TargetsTo
    <2>3. AcceptableTo(list, 0)
      BY <2>1, <2>2 DEF AcceptableTo, Unique
    <2>4. /\ p[0].ok = TRUE /\ p[0].seen = {} /\ p[0].targets = <<>>
      BY <1>2 DEF Start
    <2>5. Correct(list, 0, p[0])
      BY <2>2, <2>3, <2>4 DEF Correct
    <2> QED BY <1>1, <2>5
  <1>4. ASSUME NEW k \in 0..N - 1, k \in S PROVE k + 1 \in S
    <2>1. Correct(list, k, p[k])
      BY <1>4
    <2>2. Correct(list, k + 1, AddItem(p[k], list[k + 1]))
      BY <2>1, CorrectGrows
    <2>3. Correct(list, k + 1, p[k + 1]) /\ k + 1 \in 0..N
      BY <1>1, <1>2, <2>2
    <2> QED BY <2>3
  <1> HIDE DEF S, N
  <1>5. N \in S
    <2>1. \A k \in 0..N : k \in S
      BY <1>1, <1>3, <1>4, Climb
    <2> QED BY <1>1, <2>1
  <1>6. Correct(list, N, p[N])
    BY <1>5 DEF S
  <1> QED BY <1>2, <1>6 DEF N

\* The lists of a configuration are lists of items.
LEMMA ListsAreLists == \A list \in Lists : IsList(list)
  BY HostHistoryAssumption DEF IsList

\* What ListMeetsReference says of a list.
LEMMA ListIsRight ==
    ASSUME items \in Lists PROVE ListMeetsReference
  <1> DEFINE N == Len(items)
             l == ParseTargets(items)
  <1>1. IsList(items) /\ N \in Nat
    BY ListsAreLists DEF IsList
  <1>2. Correct(items, N, l)
    BY <1>1, ParseIsCorrect
  <1>3. GivenIds = GivenTo(items, N)
    BY DEF GivenIds, GivenTo, Own
  <1>4. Acceptable <=> AcceptableTo(items, N)
    BY <1>3 DEF Acceptable, AcceptableTo, Unique
  <1>5. CASE ~AcceptableTo(items, N)
    <2>1. l = Refused
      BY <1>2, <1>5 DEF Correct
    <2>2. ~l.ok
      BY <2>1 DEF Refused
    <2> QED BY <1>4, <1>5, <2>2 DEF ListMeetsReference
  <1>6. CASE AcceptableTo(items, N)
    <2> DEFINE T == l.targets
               n == Len(T)
    <2>1. /\ l.ok = TRUE
          /\ n \in Nat /\ DOMAIN T = 1..n
          /\ {T[i] : i \in 1..n} = TargetsTo(items, N)
          /\ \A i, j \in 1..n : T[i].id = T[j].id => i = j
      BY <1>2, <1>6 DEF Correct
    <2>2. Targets = T
      BY DEF Targets
    <2>3. ToSet(Targets) = {T[i] : i \in 1..n}
      BY <2>1, <2>2, ToSetByPosition
    <2>4. Cardinality({t.id : t \in ToSet(Targets)}) = n
      <3> DEFINE ids == [i \in 1..n |-> T[i].id]
                 I   == {ids[i] : i \in 1..n}
      <3>1. DOMAIN ids = 1..n /\ (\A i, j \in 1..n : ids[i] = ids[j] => i = j)
        BY <2>1
      <3>2. I = {t.id : t \in ToSet(Targets)}
        BY <2>3
      <3> HIDE DEF T, n, ids
      <3>3. Cardinality(I) = n
        BY <2>1, <3>1, CountOfRange
      <3> QED BY <3>2, <3>3
    <2>5. TargetsTo(items, N) = UNION {TargetsOf(items[k]) : k \in 1..Len(items)}
      BY DEF TargetsTo
    <2> HIDE DEF T, N, l
    <2>6. ParseTargets(items).ok
      BY <2>1 DEF l
    <2>7. Len(Targets) = n
      BY <2>2 DEF n
    <2> QED BY <1>4, <1>6, <2>1, <2>3, <2>4, <2>5, <2>6, <2>7 DEF ListMeetsReference
  <1> QED BY <1>5, <1>6

(***************************************************************************)
(* Whatever the configuration holds, its target list is accepted exactly   *)
(* if every item is well formed and no id is given out twice, and has one  *)
(* target for every address an item means.                                 *)
(***************************************************************************)
THEOREM ListIsReference == Spec => []ListMeetsReference
  <1>1. Init => items \in Lists
    BY DEF Init
  <1>2. items \in Lists /\ [Next]_vars => (items \in Lists)'
    BY DEF Next, Round, vars
  <1>3. items \in Lists => ListMeetsReference
    BY ListIsRight
  <1> QED BY <1>1, <1>2, <1>3, PTL DEF Spec

\* The targets of a list are a sequence, refused or not.
LEMMA TargetsAreSequence ==
    ASSUME items \in Lists
    PROVE  Len(Targets) \in Nat /\ DOMAIN Targets = 1..Len(Targets)
  <1>1. Correct(items, Len(items), ParseTargets(items))
    BY ListsAreLists, ParseIsCorrect
  <1>2. \/ Targets = <<>>
        \/ /\ Targets \in [1..Len(Targets) -> TargetsTo(items, Len(items))]
           /\ Len(Targets) \in Nat
    BY <1>1 DEF Correct, Targets, Refused
  <1> QED BY <1>2
-----------------------------------------------------------------------------
(* A probe of a batch *)

\* The last position that passes a test, from the set of those that do.
LastOf(I) == IF I # {} THEN Max(I) ELSE 0

\* What is the last of some positions.
LEMMA LastFacts ==
    ASSUME NEW n \in Nat, NEW I \in SUBSET (1..n)
    PROVE  /\ LastOf(I) = 0 <=> I = {}
           /\ I # {} => LastOf(I) \in I
           /\ \A i \in I : (\A j \in I : j <= i) => LastOf(I) = i
  <1>1. IsFiniteSet(1..n)
    BY FS_Interval
  <1>2. IsFiniteSet(I)
    BY <1>1, FS_Subset
  <1>3. I # {} => Max(I) \in I /\ \A y \in I : Max(I) >= y
    <2>1. I \in SUBSET Int
      OBVIOUS
    <2> QED BY <1>2, <2>1, MaxExists
  <1>4. \A i \in I : (\A j \in I : j <= i) => Max(I) = i
    <2>1. SUFFICES ASSUME NEW i \in I, \A j \in I : j <= i PROVE Max(I) = i
      OBVIOUS
    <2>2. Max(I) \in I /\ Max(I) >= i /\ Max(I) <= i
      BY <1>3, <2>1
    <2>3. Max(I) \in Int /\ i \in Int
      <3>1. \A m \in I : m \in Int
        OBVIOUS
      <3> QED BY <2>2, <3>1
    <2> QED BY <2>2, <2>3
  <1>5. I # {} => Max(I) # 0
    BY <1>3
  <1> QED BY <1>3, <1>4, <1>5 DEF LastOf

\* SelectLastInSeq is that position.
LEMMA OwnerIsLast ==
    ASSUME NEW targets, NEW address
    PROVE  OwnerOf(targets, address) =
             LastOf({k \in 1..Len(targets) : targets[k].address = address})
  BY DEF OwnerOf, SelectLastInSeq, LastOf

\* A target that shares its address with no later one owns it.
LEMMA OwnerFacts ==
    ASSUME NEW batch, Len(batch) \in Nat, NEW i \in 1..Len(batch),
           \A j \in i + 1..Len(batch) : batch[j].address # batch[i].address,
           NEW address
    PROVE  OwnerOf(batch, address) = i <=> address = batch[i].address
  <1> DEFINE n == Len(batch)
             I == {k \in 1..n : batch[k].address = address}
  <1>1. OwnerOf(batch, address) = LastOf(I)
    BY OwnerIsLast
  <1>2. CASE address = batch[i].address
    <2>1. i \in I /\ \A j \in I : j <= i
      BY <1>2
    <2> QED BY <1>1, <1>2, <2>1, LastFacts
  <1>3. CASE address # batch[i].address
    <2>1. i \notin I
      BY <1>3
    <2>2. I \in SUBSET (1..n) /\ n \in Nat /\ i # 0
      OBVIOUS
    <2> HIDE DEF I, n
    <2>3. LastOf(I) # i
      BY <2>1, <2>2, LastFacts
    <2> QED BY <1>1, <1>3, <2>3
  <1> QED BY <1>2, <1>3

\* The result of such a target says whether fping found that it answers.
LEMMA ProbeIsRight ==
    ASSUME NEW batch, Len(batch) \in Nat, NEW i \in 1..Len(batch),
           \A j \in i + 1..Len(batch) : batch[j].address # batch[i].address,
           NEW run \in Runs(batch)
    PROVE  Successful(ProbeTargets(batch, run)[i])
             <=> Answered(batch, run, batch[i].address)
  <1> DEFINE unsafe == \E j \in 1..Len(batch) : batch[j].address \in Unsafe
             out    == run.output
             I      == {k \in 1..Len(out) : OwnerOf(batch, out[k].address) = i}
             J      == {k \in 1..Len(out) : out[k].address = batch[i].address}
  <1>1. ProbeTargets(batch, run)[i] =
          IF unsafe THEN "process_error"
          ELSE CASE run.kind = "timeout"  -> "timeout"
                 [] run.kind = "no_start" -> "process_error"
                 [] run.kind = "ended"    -> Blamed(Parsed(batch, out, i), run.code)
    BY DEF ProbeTargets
  <1>2. CASE unsafe \/ run.kind = "timeout" \/ run.kind = "no_start"
    BY <1>1, <1>2 DEF Successful, Answered
  <1>3. CASE ~unsafe /\ run.kind = "ended"
    <2>1. PICK n \in 0..MaxLines : out \in [1..n -> Lines(batch)]
      <3>1. run \in [kind: {"ended"}, code: 0..2,
                     output: UNION {[1..n -> Lines(batch)] : n \in 0..MaxLines}]
        BY <1>3 DEF Runs
      <3> QED BY <3>1
    <2>2. Len(out) = n /\ n \in Nat
      BY <2>1, HostHistoryAssumption
    <2>3. I = J
      BY OwnerFacts
    <2>4. LineOf(batch, out, i) = LastOf(I)
      BY DEF LineOf, SelectLastInSeq, LastOf
    <2>5. SelectLastInSeq(out, LAMBDA line : line.address = batch[i].address) = LastOf(J)
      BY DEF SelectLastInSeq, LastOf
    <2> DEFINE last == LastOf(J)
    <2>6. last = 0 \/ last \in 1..n
      <3>1. J \in SUBSET (1..n)
        BY <2>2
      <3> HIDE DEF J
      <3> QED BY <2>2, <3>1, LastFacts
    <2> HIDE DEF last
    <2>7. Parsed(batch, out, i) =
            IF last = 0 THEN "timeout" ELSE LineOutcome(out[last].answers)
      BY <2>3, <2>4 DEF Parsed, last
    <2>8. Answered(batch, run, batch[i].address)
            <=> last # 0 /\ TRUE \in ToSet(out[last].answers)
      BY <1>3, <2>5 DEF Answered, last
    <2>9. ASSUME last # 0
          PROVE  LineOutcome(out[last].answers) = "up"
                   <=> TRUE \in ToSet(out[last].answers)
      <3> DEFINE a == out[last].answers
      <3>1. a \in Answers
        BY <2>1, <2>6, <2>9 DEF Lines
      <3>2. Len(a) \in Nat /\ a \in [1..Len(a) -> BOOLEAN]
        BY <3>1, HostHistoryAssumption
      <3>3. TRUE \in ToSet(a) <=> \E k \in 1..Len(a) : a[k] = TRUE
        BY <3>2 DEF ToSet
      <3> HIDE DEF a
      <3>4. (\E k \in 1..Len(a) : a[k] = TRUE) <=> (\E k \in 1..Len(a) : a[k])
        BY <3>2
      <3>5. LineOutcome(a) = "up" <=> \E k \in 1..Len(a) : a[k]
        BY DEF LineOutcome
      <3> QED BY <3>3, <3>4, <3>5 DEF a
    <2>10. Successful(Blamed(Parsed(batch, out, i), run.code))
             <=> Parsed(batch, out, i) = "up"
      BY DEF Successful, Blamed
    <2>11. Successful(ProbeTargets(batch, run)[i]) <=> Parsed(batch, out, i) = "up"
      BY <1>1, <1>3, <2>10
    <2> QED BY <2>7, <2>8, <2>9, <2>11
  <1> QED BY <1>2, <1>3 DEF Runs

\* The batch of a target holds it, at its offset.
LEMMA BatchFacts ==
    ASSUME NEW N \in Nat, N = Len(Targets), NEW w \in 1..N
    PROVE  /\ Len(BatchOf(w)) \in Nat /\ Offset(w) \in 1..Len(BatchOf(w))
           /\ BatchOf(w)[Offset(w)] = Targets[w]
  <1> DEFINE first == ((w - 1) \div BatchSize) * BatchSize + 1
             rest  == (w - 1) % BatchSize
             end   == first + BatchSize - 1
             last  == Min({end, N})
  <1>1. /\ first \in Nat \ {0} /\ rest \in 0..BatchSize - 1 /\ first + rest = w
        /\ BatchSize \in Nat \ {0}
    <2> DEFINE q == (w - 1) \div BatchSize
               below == q * BatchSize
    <2>1. BatchSize \in Nat \ {0} /\ w - 1 \in Nat
      BY HostHistoryAssumption
    <2>2. q \in Nat /\ rest \in 0..BatchSize - 1 /\ below + rest = w - 1
      BY <2>1, DivMod
    <2> HIDE DEF q
    <2>3. below \in Nat
      BY <2>1, <2>2
    <2> HIDE DEF below, rest
    <2>4. first = below + 1
      BY DEF below, q
    <2> HIDE DEF first
    <2> QED BY <2>1, <2>2, <2>3, <2>4
  <1>2. Offset(w) = rest + 1
    BY DEF Offset
  <1>3. BatchOf(w) = SubSeq(Targets, first, last)
    BY DEF BatchOf
  <1> HIDE DEF first, rest
  <1>4. last = IF end <= N THEN end ELSE N
    <2>1. CASE end <= N
      <3>1. end \in {end, N} /\ \A y \in {end, N} : end <= y
        BY <1>1, <2>1
      <3>2. \A x \in {end, N} : (\A y \in {end, N} : x <= y) => x = end
        BY <1>1, <2>1
      <3> QED BY <2>1, <3>1, <3>2 DEF Min
    <2>2. CASE ~(end <= N)
      <3>1. N \in {end, N} /\ \A y \in {end, N} : N <= y
        BY <1>1, <2>2
      <3>2. \A x \in {end, N} : (\A y \in {end, N} : x <= y) => x = N
        BY <1>1, <2>2
      <3> QED BY <2>2, <3>1, <3>2 DEF Min
    <2> QED BY <2>1, <2>2
  <1> HIDE DEF last
  <1>5. last \in Int /\ first <= last /\ last <= N /\ rest + 1 <= last - first + 1
    BY <1>1, <1>4
  <1> DEFINE S == {Targets[k] : k \in 1..N}
  <1>6. /\ Len(SubSeq(Targets, first, last)) = last - first + 1
        /\ \A k \in 1..last - first + 1 :
             SubSeq(Targets, first, last)[k] = Targets[first + k - 1]
    <2>1. first \in Int /\ last \in Int /\ \A k \in first..last : Targets[k] \in S
      BY <1>1, <1>5
    <2> HIDE DEF S
    <2>2. /\ Len(SubSeq(Targets, first, last)) =
               IF first <= last THEN last - first + 1 ELSE 0
          /\ \A k \in 1..last - first + 1 :
               SubSeq(Targets, first, last)[k] = Targets[first + k - 1]
      BY <2>1, SubSeqProperties
    <2> QED BY <1>5, <2>2
  <1>7. rest + 1 \in 1..last - first + 1 /\ first + (rest + 1) - 1 = w
    BY <1>1, <1>5
  <1>8. last - first + 1 \in Nat
    BY <1>1, <1>5
  <1> QED BY <1>2, <1>3, <1>6, <1>7, <1>8
-----------------------------------------------------------------------------
(* The alerts of a host *)

\* The alert of position i: an odd one opens incident i, the next closes it.
Numbered(i) ==
    IF i % 2 = 1 THEN [type |-> "host_down", incident |-> i]
                 ELSE [type |-> "host_recovered", incident |-> i - 1]

Alerts == [type : AlertTypes, incident : Nat]

(***************************************************************************)
(* The invariant that carries the alternation: every incident has the      *)
(* number of the alert that opened it, and a host is DOWN exactly while it *)
(* holds one.                                                              *)
(***************************************************************************)
AInv ==
    /\ state \in HostStates
    /\ alerts \in Seq(Alerts)
    /\ \A i \in 1..Len(alerts) : alerts[i] = Numbered(i)
    /\ state.incident = IF Len(alerts) % 2 = 1 THEN Len(alerts) ELSE None
    /\ state.status = "down" <=> state.incident # None

\* The fields of the alert of a position.
LEMMA NumberedFields ==
    ASSUME NEW i \in Nat
    PROVE  /\ i % 2 = 1 => Numbered(i).type = "host_down" /\ Numbered(i).incident = i
           /\ i % 2 # 1 => Numbered(i) = [type |-> "host_recovered", incident |-> i - 1]
           /\ Numbered(i).incident \in {i, i - 1}
           /\ i # 0 => Numbered(i) \in Alerts
  <1>1. CASE i % 2 = 1
    <2>1. Numbered(i) = [type |-> "host_down", incident |-> i]
      BY <1>1 DEF Numbered
    <2> QED BY <1>1, <2>1 DEF Alerts, AlertTypes
  <1>2. CASE i % 2 # 1
    <2>1. Numbered(i) = [type |-> "host_recovered", incident |-> i - 1]
      BY <1>2 DEF Numbered
    <2> QED BY <1>2, <2>1 DEF Alerts, AlertTypes
  <1> QED BY <1>1, <1>2

\* A set of one alert, as a sequence.
LEMMA OneAlert ==
    ASSUME NEW a PROVE SetToSeq({a}) = <<a>>
  <1>1. Cardinality({a}) = 1
    BY FS_Singleton
  <1>2. [i \in 1..1 |-> a] \in [1..1 -> {a}] /\ IsInjective([i \in 1..1 |-> a])
    BY DEF IsInjective
  <1>3. \A f \in [1..1 -> {a}] : f = <<a>>
    OBVIOUS
  <1> QED BY <1>1, <1>2, <1>3 DEF SetToSeq

\* A set of no alert, as a sequence.
LEMMA NoAlert == SetToSeq({}) = <<>>
  <1>1. Cardinality({}) = 0
    BY FS_EmptySet
  <1>2. <<>> \in [1..0 -> {}] /\ IsInjective(<<>>)
    BY DEF IsInjective
  <1>3. \A f \in [1..0 -> {}] : f = <<>>
    OBVIOUS
  <1> QED BY <1>1, <1>2, <1>3 DEF SetToSeq

\* The alerts a result appends, when the host is AInv.
LEMMA AlertsOfResult ==
    ASSUME AInv, NEW ok \in BOOLEAN
    PROVE  LET fresh == Len(alerts) + 1
               t     == ApplyOne(state, ok, fresh)
               new   == SetToSeq(AlertOf(state, ok, fresh))
           IN  /\ t \in HostStates
               /\ \/ new = <<>> /\ t.incident = state.incident
                     /\ (t.status = "down" <=> state.status = "down")
                  \/ /\ new = <<Numbered(fresh)>>
                     /\ t.incident = IF fresh % 2 = 1 THEN fresh ELSE None
                     /\ t.status = "down" <=> fresh % 2 = 1
  <1> DEFINE fresh == Len(alerts) + 1
             t     == ApplyOne(state, ok, fresh)
  <1>0. /\ state \in HostStates /\ fresh \in Nat /\ fresh # None
        /\ state.status = "down" <=> fresh % 2 = 0
        /\ state.incident = IF fresh % 2 = 0 THEN fresh - 1 ELSE None
        /\ fresh % 2 \in {0, 1}
        /\ state.status = "down" <=> state.incident # None
    BY DEF AInv, None
  <1>1. /\ t \in HostStates
        /\ t.status = state.status => t.incident = state.incident
        /\ t.status # state.status =>
             \/ t.status = "down" /\ t.incident = IF state.incident # None
                                                  THEN state.incident ELSE fresh
             \/ t.status = "up" /\ t.incident = None
    BY <1>0, ApplyOneFacts
  <1>2. /\ t.status # state.status /\ t.status = "down" =>
             AlertOf(state, ok, fresh) =
               {[type |-> "host_down", incident |-> t.incident]}
        /\ t.status # state.status /\ t.status = "up" /\ state.status = "down"
             /\ state.incident # None =>
             AlertOf(state, ok, fresh) =
               {[type |-> "host_recovered", incident |-> state.incident]}
        /\ t.status = state.status \/ (t.status = "up" /\ state.incident = None)
             \/ (t.status = "up" /\ state.status # "down") =>
             AlertOf(state, ok, fresh) = {}
    BY <1>0, AlertOfFacts
  <1> HIDE DEF t, fresh
  <1>3. CASE t.status = state.status
    <2>1. SetToSeq(AlertOf(state, ok, fresh)) = <<>>
      BY <1>2, <1>3, NoAlert
    <2> QED BY <1>1, <1>3, <2>1 DEF t, fresh
  <1>4. CASE t.status # state.status /\ t.status = "down"
    <2>1. fresh % 2 = 1 /\ t.incident = fresh
      BY <1>0, <1>1, <1>4
    <2>2. SetToSeq(AlertOf(state, ok, fresh)) = <<Numbered(fresh)>>
      BY <1>2, <1>4, <2>1, OneAlert DEF Numbered
    <2> QED BY <1>1, <1>4, <2>1, <2>2 DEF t, fresh
  <1>5. CASE t.status = "up" /\ state.status = "down"
    <2>1. fresh % 2 = 0 /\ state.incident = fresh - 1 /\ t.incident = None
      BY <1>0, <1>1, <1>5
    <2>2. SetToSeq(AlertOf(state, ok, fresh)) = <<Numbered(fresh)>>
      <3>1. AlertOf(state, ok, fresh) =
              {[type |-> "host_recovered", incident |-> fresh - 1]}
        <4>1. t.status # state.status /\ t.status = "up" /\ state.incident # None
          BY <1>0, <1>5
        <4>2. AlertOf(state, ok, fresh) =
                {[type |-> "host_recovered", incident |-> state.incident]}
          BY <1>2, <1>5, <4>1
        <4> QED BY <2>1, <4>2
      <3>2. Numbered(fresh) = [type |-> "host_recovered", incident |-> fresh - 1]
        BY <1>0, <2>1, NumberedFields
      <3> QED BY <3>1, <3>2, OneAlert
    <2> QED BY <1>1, <1>5, <2>1, <2>2 DEF t, fresh
  <1>6. CASE t.status # state.status /\ t.status = "up" /\ state.status # "down"
    <2>1. state.incident = None /\ t.incident = None
      BY <1>0, <1>1, <1>6
    <2>2. SetToSeq(AlertOf(state, ok, fresh)) = <<>>
      BY <1>2, <1>6, NoAlert
    <2> QED BY <1>1, <1>6, <2>1, <2>2 DEF t, fresh
  <1> QED BY <1>1, <1>3, <1>4, <1>5, <1>6

\* The result of a probe, as _apply_one takes it.
Result(run) == Successful(ProbeTargets(BatchOf(watched), run)[Offset(watched)])

\* What a round does to the host and its alerts.
LEMMA RoundEffect ==
    ASSUME Round
    PROVE  \E run \in Runs(BatchOf(watched)) :
             LET fresh == Len(alerts) + 1
             IN  /\ Result(run) \in BOOLEAN
                 /\ history' = Append(history, Answered(BatchOf(watched), run,
                                                        Targets[watched].address))
                 /\ state' = ApplyOne(state, Result(run), fresh)
                 /\ alerts' = alerts \o SetToSeq(AlertOf(state, Result(run), fresh))
                 /\ UNCHANGED <<items, watched>>
  BY DEF Round, Result, Successful

\* A round keeps the alternation.
LEMMA RoundAlternates ==
    ASSUME AInv, Round PROVE AInv'
  <1> PICK run \in Runs(BatchOf(watched)) :
        LET fresh == Len(alerts) + 1
        IN  /\ Result(run) \in BOOLEAN
            /\ state' = ApplyOne(state, Result(run), fresh)
            /\ alerts' = alerts \o SetToSeq(AlertOf(state, Result(run), fresh))
    BY RoundEffect
  <1> DEFINE fresh == Len(alerts) + 1
             new   == SetToSeq(AlertOf(state, Result(run), fresh))
  <1>1. /\ state' \in HostStates
        /\ \/ new = <<>> /\ state'.incident = state.incident
              /\ (state'.status = "down" <=> state.status = "down")
           \/ /\ new = <<Numbered(fresh)>>
              /\ state'.incident = IF fresh % 2 = 1 THEN fresh ELSE None
              /\ state'.status = "down" <=> fresh % 2 = 1
    BY AlertsOfResult
  <1>2. alerts' = alerts \o new /\ alerts \in Seq(Alerts) /\ fresh \in Nat
    BY DEF AInv
  <1> HIDE DEF new
  <1>3. CASE new = <<>>
    <2>1. alerts' = alerts
      BY <1>2, <1>3
    <2> QED BY <1>1, <1>3, <2>1 DEF AInv
  <1>4. CASE new = <<Numbered(fresh)>> /\ new # <<>>
    <2>1. Numbered(fresh) \in Alerts /\ <<Numbered(fresh)>> \in Seq(Alerts)
      BY <1>2, NumberedFields
    <2>2. /\ alerts' \in Seq(Alerts) /\ Len(alerts') = fresh
          /\ \A i \in 1..Len(alerts) : alerts'[i] = alerts[i]
          /\ alerts'[fresh] = Numbered(fresh)
      <3> DEFINE last == <<Numbered(fresh)>>
      <3>1. last \in Seq(Alerts) /\ Len(last) = 1 /\ last[1] = Numbered(fresh)
        BY <2>1
      <3>2. alerts' = alerts \o last
        BY <1>2, <1>4
      <3> HIDE DEF last
      <3>3. /\ alerts' \in Seq(Alerts) /\ Len(alerts') = Len(alerts) + 1
            /\ \A i \in 1..Len(alerts) + 1 : alerts'[i] =
                 IF i <= Len(alerts) THEN alerts[i] ELSE last[i - Len(alerts)]
        <4>1. /\ alerts \o last \in Seq(Alerts)
              /\ Len(alerts \o last) = Len(alerts) + Len(last)
              /\ \A i \in 1..Len(alerts) + Len(last) : (alerts \o last)[i] =
                   IF i <= Len(alerts) THEN alerts[i] ELSE last[i - Len(alerts)]
          BY <1>2, <3>1, ConcatProperties
        <4> QED BY <3>1, <3>2, <4>1
      <3> QED BY <1>2, <3>1, <3>3
    <2>3. ASSUME NEW i \in 1..Len(alerts') PROVE alerts'[i] = Numbered(i)
      <3>1. i \in 1..Len(alerts) \/ i = fresh
        BY <1>2, <2>2
      <3> QED BY <2>2, <3>1 DEF AInv
    <2>4. /\ state'.incident = IF Len(alerts') % 2 = 1 THEN Len(alerts') ELSE None
          /\ state'.status = "down" <=> state'.incident # None
      BY <1>1, <1>2, <1>4, <2>2 DEF None
    <2> QED BY <1>1, <2>2, <2>3, <2>4 DEF AInv
  <1> QED BY <1>1, <1>3, <1>4

\* The invariant says what the property does.
LEMMA NumberedAlternate == AInv => AlertsAlternate
  <1> SUFFICES ASSUME AInv PROVE AlertsAlternate
    OBVIOUS
  <1>1. \A i \in 1..Len(alerts) : alerts[i] = Numbered(i)
    BY DEF AInv
  <1>2. ASSUME NEW i \in 1..Len(alerts)
        PROVE  IF i % 2 = 1
               THEN /\ alerts[i].type = "host_down"
                    /\ \A j \in 1..i - 1 : alerts[j].incident # alerts[i].incident
               ELSE alerts[i] = [type |-> "host_recovered",
                                 incident |-> alerts[i - 1].incident]
    <2>0. Len(alerts) \in Nat
      BY DEF AInv
    <2>1. CASE i % 2 = 1
      <3>1. alerts[i].type = "host_down" /\ alerts[i].incident = i
        BY <1>1, <2>0, <2>1, NumberedFields
      <3>2. ASSUME NEW j \in 1..i - 1 PROVE alerts[j].incident # i
        <4>1. alerts[j] = Numbered(j)
          BY <1>1, <2>0
        <4>2. Numbered(j).incident \in {j, j - 1}
          BY NumberedFields
        <4> QED BY <2>0, <4>1, <4>2
      <3> QED BY <2>1, <3>1, <3>2
    <2>2. CASE i % 2 # 1
      <3>1. i - 1 \in 1..Len(alerts) /\ (i - 1) % 2 = 1
        BY <2>0, <2>2
      <3>2. alerts[i - 1].incident = i - 1
        BY <1>1, <3>1, NumberedFields
      <3>3. alerts[i] = [type |-> "host_recovered", incident |-> i - 1]
        BY <1>1, <2>2, NumberedFields
      <3> QED BY <2>2, <3>2, <3>3
    <2> QED BY <2>1, <2>2
  <1>3. state.incident =
          IF Len(alerts) % 2 = 1 THEN alerts[Len(alerts)].incident ELSE None
    <2>0. Len(alerts) \in Nat
      BY DEF AInv
    <2>1. CASE Len(alerts) % 2 = 1
      <3>1. Len(alerts) \in 1..Len(alerts)
        BY <2>0, <2>1
      <3>2. alerts[Len(alerts)].incident = Len(alerts)
        BY <1>1, <2>0, <2>1, <3>1, NumberedFields
      <3> QED BY <2>1, <3>2 DEF AInv
    <2>2. CASE Len(alerts) % 2 # 1
      BY <2>2 DEF AInv
    <2> QED BY <2>1, <2>2
  <1> QED BY <1>2, <1>3 DEF AlertsAlternate

\* A new host has raised no alert.
LEMMA StartAlternates == Init => AInv
  <1>1. SUFFICES ASSUME Init PROVE AInv
    OBVIOUS
  <1>2. state = NewHost /\ alerts = <<>> /\ NewHost \in HostStates
    <2>1. state = NewHost /\ alerts = <<>>
      BY <1>1 DEF Init
    <2> QED BY <2>1, NewHostType
  <1>3. Len(alerts) = 0 /\ alerts \in Seq(Alerts)
    BY <1>2
  <1>4. state.incident = None /\ state.status = "unknown"
    BY <1>2 DEF NewHost
  <1> QED BY <1>2, <1>3, <1>4 DEF AInv, None

\* Every step keeps the alternation.
LEMMA StepAlternates == AInv /\ [Next]_vars => AInv'
  <1>1. SUFFICES ASSUME AInv, [Next]_vars PROVE AInv'
    OBVIOUS
  <1>2. CASE Next
    BY <1>1, <1>2, RoundAlternates DEF Next
  <1>3. CASE UNCHANGED vars
    BY <1>1, <1>3 DEF AInv, vars
  <1> QED BY <1>1, <1>2, <1>3

(***************************************************************************)
(* Whatever the target list and the answers, the alerts of a host          *)
(* alternate: host_down opens an incident never used before and            *)
(* host_recovered closes that same one.                                    *)
(***************************************************************************)
THEOREM Alternation == Spec => []AlertsAlternate
  BY StartAlternates, StepAlternates, NumberedAlternate, PTL DEF Spec
-----------------------------------------------------------------------------
(* Streaks *)

\* Streak and Confirmed of any history.
StreakIn(h, i, ok, n) == i >= n /\ \A j \in i - n + 1..i : h[j] = ok

ConfirmedIn(h, ok) == {i \in 1..Len(h) : StreakIn(h, i, ok, Threshold(ok))}

VerdictIn(h) ==
    IF ConfirmedIn(h, TRUE) \cup ConfirmedIn(h, FALSE) = {} THEN "unknown"
    ELSE IF Latest(ConfirmedIn(h, TRUE)) > Latest(ConfirmedIn(h, FALSE)) THEN "up"
    ELSE "down"

\* k is the length of the streak of ok that ends the history, cut at the threshold.
Exact(h, ok, k) ==
    /\ k \in 0..Threshold(ok)
    /\ StreakIn(h, Len(h), ok, k)
    /\ k < Threshold(ok) => ~StreakIn(h, Len(h), ok, k + 1)

\* The thresholds are positive.
LEMMA ThresholdType == \A ok \in BOOLEAN : Threshold(ok) \in Nat \ {0}
  BY ThresholdAssumption DEF Threshold

\* A streak holds every shorter one.
LEMMA ShorterStreak ==
    ASSUME NEW h, NEW i \in Nat, NEW ok, NEW n \in Nat, NEW m \in 0..n,
           StreakIn(h, i, ok, n)
    PROVE  StreakIn(h, i, ok, m)
  BY DEF StreakIn

\* One more round does not touch the streaks that ended before it.
LEMMA StreakKept ==
    ASSUME NEW h \in Seq(BOOLEAN), NEW x \in BOOLEAN, NEW ok \in BOOLEAN,
           NEW n \in Nat, NEW i \in 0..Len(h)
    PROVE  StreakIn(Append(h, x), i, ok, n) <=> StreakIn(h, i, ok, n)
  <1> DEFINE g == Append(h, x)
  <1>1. /\ Len(g) = Len(h) + 1 /\ Len(h) \in Nat
        /\ \A j \in 1..Len(h) : g[j] = h[j]
    BY AppendProperties
  <1> HIDE DEF g
  <1>2. i >= n => \A j \in i - n + 1..i : g[j] = h[j]
    BY <1>1
  <1>3. StreakIn(g, i, ok, n) <=> StreakIn(h, i, ok, n)
    BY <1>2 DEF StreakIn
  <1> QED BY <1>3 DEF g

\* A streak that ends in the new round is the one before it and that round.
LEMMA StreakGrows ==
    ASSUME NEW h \in Seq(BOOLEAN), NEW x \in BOOLEAN, NEW ok \in BOOLEAN,
           NEW n \in Nat \ {0}
    PROVE  StreakIn(Append(h, x), Len(h) + 1, ok, n)
             <=> x = ok /\ StreakIn(h, Len(h), ok, n - 1)
  <1> DEFINE g == Append(h, x)
  <1>1. /\ Len(h) \in Nat /\ g[Len(h) + 1] = x
        /\ \A j \in 1..Len(h) : g[j] = h[j]
    BY AppendProperties
  <1> HIDE DEF g
  <1>2. ASSUME StreakIn(g, Len(h) + 1, ok, n)
        PROVE  x = ok /\ StreakIn(h, Len(h), ok, n - 1)
    BY <1>1, <1>2 DEF StreakIn
  <1>3. ASSUME x = ok, StreakIn(h, Len(h), ok, n - 1)
        PROVE  StreakIn(g, Len(h) + 1, ok, n)
    BY <1>1, <1>3 DEF StreakIn
  <1> QED BY <1>2, <1>3 DEF g

\* The counters of Counted follow the streaks.
LEMMA ExactGrows ==
    ASSUME NEW h \in Seq(BOOLEAN), NEW x \in BOOLEAN, NEW ok \in BOOLEAN,
           NEW k, Exact(h, ok, k)
    PROVE  LET g  == Append(h, x)
               k2 == IF x = ok THEN CountUp(k, Threshold(ok)) ELSE 0
           IN  /\ Exact(g, ok, k2)
               /\ k2 >= Threshold(ok) <=> StreakIn(g, Len(g), ok, Threshold(ok))
  <1> DEFINE g == Append(h, x)
             T == Threshold(ok)
             k2 == IF x = ok THEN CountUp(k, T) ELSE 0
  <1>1. /\ Len(h) \in Nat /\ Len(g) = Len(h) + 1 /\ T \in Nat \ {0}
        /\ k \in 0..T /\ k2 \in 0..T
    BY ThresholdType, AppendProperties, CountUpType DEF Exact
  <1>2. \A n \in Nat \ {0} :
          StreakIn(g, Len(g), ok, n) <=> x = ok /\ StreakIn(h, Len(h), ok, n - 1)
    BY <1>1, StreakGrows
  <1>3. StreakIn(h, Len(h), ok, k) /\ (k < T => ~StreakIn(h, Len(h), ok, k + 1))
    BY DEF Exact
  <1>4. StreakIn(g, Len(g), ok, k2) /\ (k2 < T => ~StreakIn(g, Len(g), ok, k2 + 1))
    <2>1. CASE x # ok
      <3>1. k2 = 0 /\ ~StreakIn(g, Len(g), ok, 1)
        BY <1>2, <2>1
      <3> QED BY <1>1, <3>1 DEF StreakIn
    <2>2. CASE x = ok /\ k < T
      <3>1. k2 = k + 1
        BY <2>2 DEF CountUp
      <3> HIDE DEF g, k2
      <3>2. StreakIn(g, Len(g), ok, k + 1)
        BY <1>1, <1>2, <1>3, <2>2
      <3>3. ~StreakIn(g, Len(g), ok, k + 2)
        BY <1>1, <1>2, <1>3, <2>2
      <3> QED BY <1>1, <3>1, <3>2, <3>3
    <2>3. CASE x = ok /\ k = T
      <3>1. k2 = T
        BY <1>1, <2>3 DEF CountUp
      <3>2. StreakIn(h, Len(h), ok, T - 1)
        BY <1>1, <1>3, <2>3, ShorterStreak
      <3> HIDE DEF g, k2
      <3>3. StreakIn(g, Len(g), ok, T)
        BY <1>1, <1>2, <2>3, <3>2
      <3> QED BY <1>1, <3>1, <3>3
    <2> QED BY <1>1, <2>1, <2>2, <2>3
  <1> HIDE DEF g, k2
  <1>5. k2 >= T <=> StreakIn(g, Len(g), ok, T)
    <2>1. CASE k2 = T
      BY <1>1, <1>4, <2>1
    <2>2. CASE k2 < T
      <3>1. StreakIn(g, Len(g), ok, T) => StreakIn(g, Len(g), ok, k2 + 1)
        BY <1>1, <2>2, ShorterStreak
      <3> QED BY <1>1, <1>4, <2>2, <3>1
    <2> QED BY <1>1, <2>1, <2>2
  <1> QED BY <1>1, <1>4, <1>5 DEF Exact, g, k2
-----------------------------------------------------------------------------
(* The verdict of a history *)

\* The latest of some positions is one of them, and no later than any bound.
LEMMA LatestType ==
    ASSUME NEW n \in Nat, NEW S \in SUBSET (1..n)
    PROVE  /\ Latest(S) \in 0..n
           /\ S # {} => Latest(S) \in S
           /\ Latest(S \cup {n + 1}) = n + 1
  <1>1. Latest(S \cup {n + 1}) = n + 1
    <2>1. n + 1 \in S \cup {n + 1} /\ \A j \in S \cup {n + 1} : j <= n + 1
      OBVIOUS
    <2>2. \A i \in S \cup {n + 1} :
            (\A j \in S \cup {n + 1} : j <= i) => i = n + 1
      OBVIOUS
    <2> QED BY <2>1, <2>2 DEF Latest
  <1>2. S # {} => Latest(S) \in S
    <2>1. SUFFICES ASSUME S # {} PROVE Latest(S) \in S
      OBVIOUS
    <2>2. IsFiniteSet(1..n)
      BY FS_Interval
    <2>3. IsFiniteSet(S) /\ S \in SUBSET Int
      <3>1. IsFiniteSet(S)
        BY <2>2, FS_Subset
      <3> QED BY <3>1
    <2>4. Max(S) \in S /\ \A y \in S : Max(S) >= y
      BY <2>1, <2>3, MaxExists
    <2>5. \E i \in S : \A j \in S : j <= i
      BY <2>3, <2>4
    <2> QED BY <2>1, <2>5 DEF Latest
  <1>3. Latest(S) \in 0..n
    <2>1. CASE S = {}
      <3>1. Latest(S) = 0
        BY <2>1 DEF Latest
      <3> QED BY <3>1
    <2>2. CASE S # {}
      <3>1. Latest(S) \in S
        BY <1>2, <2>2
      <3>2. \A m \in S : m \in 0..n
        OBVIOUS
      <3> QED BY <3>1, <3>2
    <2> QED BY <2>1, <2>2
  <1> QED BY <1>1, <1>2, <1>3

\* The positions a round confirms: the new one, if a streak reaches its threshold.
LEMMA ConfirmedGrows ==
    ASSUME NEW h \in Seq(BOOLEAN), NEW x \in BOOLEAN, NEW ok \in BOOLEAN
    PROVE  LET g == Append(h, x)
           IN  ConfirmedIn(g, ok) =
                 IF StreakIn(g, Len(g), ok, Threshold(ok))
                 THEN ConfirmedIn(h, ok) \cup {Len(h) + 1} ELSE ConfirmedIn(h, ok)
  <1> DEFINE g == Append(h, x)
             T == Threshold(ok)
  <1>1. T \in Nat /\ Len(h) \in Nat /\ Len(g) = Len(h) + 1
    BY ThresholdType, AppendProperties
  <1>2. \A i \in 0..Len(h) : StreakIn(g, i, ok, T) <=> StreakIn(h, i, ok, T)
    BY <1>1, StreakKept
  <1> HIDE DEF g
  <1>3. \A i : i \in ConfirmedIn(g, ok)
                 <=> \/ i \in ConfirmedIn(h, ok)
                     \/ i = Len(h) + 1 /\ StreakIn(g, Len(g), ok, T)
    BY <1>1, <1>2 DEF ConfirmedIn
  <1>4. ConfirmedIn(g, ok) =
          IF StreakIn(g, Len(g), ok, T)
          THEN ConfirmedIn(h, ok) \cup {Len(h) + 1} ELSE ConfirmedIn(h, ok)
    BY <1>3
  <1> QED BY <1>4 DEF g

\* A round that confirms an outcome decides the verdict; another one leaves it.
LEMMA VerdictGrows ==
    ASSUME NEW h \in Seq(BOOLEAN), NEW x \in BOOLEAN
    PROVE  LET g == Append(h, x)
           IN  VerdictIn(g) = IF StreakIn(g, Len(g), x, Threshold(x))
                              THEN IF x THEN "up" ELSE "down"
                              ELSE VerdictIn(h)
  <1> DEFINE g == Append(h, x)
             L == Len(h)
             Hit(ok) == StreakIn(g, Len(g), ok, Threshold(ok))
  <1>1. L \in Nat /\ Len(g) = L + 1
    BY AppendProperties
  <1>2. ~Hit(~x)
    BY <1>1, ThresholdType, StreakGrows
  <1>3. /\ ConfirmedIn(g, x) =
             IF Hit(x) THEN ConfirmedIn(h, x) \cup {L + 1} ELSE ConfirmedIn(h, x)
        /\ ConfirmedIn(g, ~x) = ConfirmedIn(h, ~x)
    BY <1>2, ConfirmedGrows
  <1>4. \A ok \in BOOLEAN : ConfirmedIn(h, ok) \in SUBSET (1..L)
    BY DEF ConfirmedIn
  <1>5. Latest(ConfirmedIn(h, ~x)) \in 0..L
    BY <1>1, <1>4, LatestType
  <1>6. Latest(ConfirmedIn(h, x) \cup {L + 1}) = L + 1
    BY <1>1, <1>4, LatestType
  <1> HIDE DEF g, Hit, L
  <1>7. CASE ~Hit(x)
    <2>1. ConfirmedIn(g, TRUE) = ConfirmedIn(h, TRUE)
          /\ ConfirmedIn(g, FALSE) = ConfirmedIn(h, FALSE)
      BY <1>3, <1>7
    <2> QED BY <1>7, <2>1 DEF VerdictIn, g, Hit
  <1>8. CASE Hit(x) /\ x
    <2>0. ConfirmedIn(g, TRUE) = ConfirmedIn(h, TRUE) \cup {L + 1}
      BY <1>3, <1>8
    <2>1. /\ Latest(ConfirmedIn(g, TRUE)) = L + 1
          /\ Latest(ConfirmedIn(g, FALSE)) \in 0..L
      BY <1>3, <1>5, <1>6, <1>8
    <2>2. ConfirmedIn(g, TRUE) \cup ConfirmedIn(g, FALSE) # {}
      BY <2>0
    <2>3. Latest(ConfirmedIn(g, TRUE)) > Latest(ConfirmedIn(g, FALSE))
      <3>1. \A b \in 0..L : L + 1 > b /\ ~(b > L + 1)
        BY <1>1
      <3> QED BY <2>1, <3>1
    <2>4. VerdictIn(g) = "up"
      BY <2>2, <2>3 DEF VerdictIn
    <2> QED BY <1>8, <2>4 DEF g, Hit
  <1>9. CASE Hit(x) /\ ~x
    <2>0. ConfirmedIn(g, FALSE) = ConfirmedIn(h, FALSE) \cup {L + 1}
      BY <1>3, <1>9
    <2>1. /\ Latest(ConfirmedIn(g, FALSE)) = L + 1
          /\ Latest(ConfirmedIn(g, TRUE)) \in 0..L
      BY <1>3, <1>5, <1>6, <1>9
    <2>2. ConfirmedIn(g, TRUE) \cup ConfirmedIn(g, FALSE) # {}
      BY <2>0
    <2>3. ~(Latest(ConfirmedIn(g, TRUE)) > Latest(ConfirmedIn(g, FALSE)))
      <3>1. \A b \in 0..L : L + 1 > b /\ ~(b > L + 1)
        BY <1>1
      <3> QED BY <2>1, <3>1
    <2>4. VerdictIn(g) = "down"
      BY <2>2, <2>3 DEF VerdictIn
    <2> QED BY <1>9, <2>4 DEF g, Hit
  <1> QED BY <1>7, <1>8, <1>9
-----------------------------------------------------------------------------
(* The status of a host *)

\* The counter of an outcome.
Counter(s, ok) == IF ok THEN s.succ ELSE s.fail

\* How a result moves the counters and the status.
LEMMA ApplyOneCounts ==
    ASSUME NEW s \in HostStates, NEW x \in BOOLEAN, NEW fresh \in Nat
    PROVE  LET t == ApplyOne(s, x, fresh)
           IN  /\ \A ok \in BOOLEAN : Counter(t, ok) =
                    IF x = ok THEN CountUp(Counter(s, ok), Threshold(ok)) ELSE 0
               /\ t.status = IF Counter(t, x) >= Threshold(x)
                             THEN IF x THEN "up" ELSE "down" ELSE s.status
  <1> DEFINE c   == Counted(s, x)
             new == NextStatus(c)
             t   == ApplyOne(s, x, fresh)
  <1>1. c \in HostStates /\ c.status = s.status
    BY CountedFacts
  <1>2. /\ t.status = new
        /\ t.succ = c.succ /\ t.fail = c.fail
    <2>1. CASE new = s.status
      <3>1. t = c
        BY <2>1 DEF ApplyOne
      <3> QED BY <1>1, <2>1, <3>1
    <2>2. CASE new # s.status
      <3>1. t = [c EXCEPT !.status = new, !.incident = IncidentOn(new, s, fresh)]
        BY <2>2 DEF ApplyOne
      <3> QED BY <1>1, <3>1 DEF HostStates
    <2> QED BY <2>1, <2>2
  <1>3. /\ c.succ = IF x THEN CountUp(s.succ, UpAfter) ELSE 0
        /\ c.fail = IF x THEN 0 ELSE CountUp(s.fail, DownAfter)
    <2>1. CASE x
      <3>1. c = [s EXCEPT !.succ = CountUp(s.succ, UpAfter), !.fail = 0]
        BY <2>1 DEF Counted
      <3> QED BY <2>1, <3>1 DEF HostStates
    <2>2. CASE ~x
      <3>1. c = [s EXCEPT !.fail = CountUp(s.fail, DownAfter), !.succ = 0]
        BY <2>2 DEF Counted
      <3> QED BY <2>2, <3>1 DEF HostStates
    <2> QED BY <2>1, <2>2
  <1> HIDE DEF c, t, new
  <1>4. \A ok \in BOOLEAN : Counter(t, ok) =
          IF x = ok THEN CountUp(Counter(s, ok), Threshold(ok)) ELSE 0
    BY <1>2, <1>3 DEF Counter, Threshold
  <1>5. new = IF Counter(t, x) >= Threshold(x)
              THEN IF x THEN "up" ELSE "down" ELSE s.status
    <2>1. new = IF c.status # "up" /\ c.succ >= UpAfter THEN "up"
                ELSE IF c.status # "down" /\ c.fail >= DownAfter THEN "down"
                ELSE c.status
      BY DEF new, NextStatus
    <2>2. CASE x
      <3>1. /\ c.fail = 0 /\ ~(c.fail >= DownAfter)
            /\ Counter(t, x) = c.succ /\ Threshold(x) = UpAfter
        BY <1>2, <1>3, <2>2, ThresholdAssumption DEF Counter, Threshold
      <3> QED BY <1>1, <2>1, <2>2, <3>1
    <2>3. CASE ~x
      <3>1. /\ c.succ = 0 /\ ~(c.succ >= UpAfter)
            /\ Counter(t, x) = c.fail /\ Threshold(x) = DownAfter
        BY <1>2, <1>3, <2>3, ThresholdAssumption DEF Counter, Threshold
      <3> QED BY <1>1, <2>1, <2>3, <3>1
    <2> QED BY <2>2, <2>3
  <1> QED BY <1>2, <1>4, <1>5 DEF t

(***************************************************************************)
(* The invariant that carries the status: each counter is the length of    *)
(* the streak that ends in the last round, cut at its threshold, and the   *)
(* status is the verdict of the history.                                   *)
(***************************************************************************)
CInv ==
    /\ state \in HostStates
    /\ history \in Seq(BOOLEAN)
    /\ \A ok \in BOOLEAN : Exact(history, ok, Counter(state, ok))
    /\ state.status = VerdictIn(history)

\* It is about a host that shares its address with no later target.
HInv ==
    /\ items \in Lists
    /\ watched # 0 => watched \in 1..Len(Targets)
    /\ ~Shadowed => CInv

\* A round keeps it.
LEMMA RoundCounts ==
    ASSUME AInv, HInv, Round, ~Shadowed PROVE CInv'
  <1>1. CInv /\ items \in Lists /\ watched \in 1..Len(Targets) /\ watched # 0
    BY DEF HInv, Round
  <1> DEFINE B == BatchOf(watched)
             o == Offset(watched)
             fresh == Len(alerts) + 1
  <1>2. PICK run \in Runs(B) :
          /\ Result(run) \in BOOLEAN
          /\ history' = Append(history, Answered(B, run, Targets[watched].address))
          /\ state' = ApplyOne(state, Result(run), fresh)
    BY RoundEffect
  <1>3. /\ Len(B) \in Nat /\ o \in 1..Len(B) /\ B[o] = Targets[watched]
    BY <1>1, TargetsAreSequence, BatchFacts
  <1>4. \A j \in o + 1..Len(B) : B[j].address # B[o].address
    BY <1>1, <1>3 DEF Shadowed
  <1> DEFINE x == Result(run)
  <1>5. x <=> Answered(B, run, Targets[watched].address)
    <2>1. Successful(ProbeTargets(B, run)[o]) <=> Answered(B, run, B[o].address)
      BY <1>3, <1>4, ProbeIsRight
    <2> QED BY <1>3, <2>1 DEF Result
  <1>6. x \in BOOLEAN /\ history' = Append(history, x)
    <2>1. Answered(B, run, Targets[watched].address) \in BOOLEAN
      BY DEF Answered
    <2>2. Answered(B, run, Targets[watched].address) = x
      BY <1>2, <1>5, <2>1
    <2> QED BY <1>2, <2>2
  <1>7. state' = ApplyOne(state, x, fresh) /\ fresh \in Nat
    BY <1>2 DEF AInv
  <1> HIDE DEF x, fresh, B, o
  <1>8. /\ state \in HostStates /\ history \in Seq(BOOLEAN)
        /\ \A ok \in BOOLEAN : Exact(history, ok, Counter(state, ok))
        /\ state.status = VerdictIn(history)
    BY <1>1 DEF CInv
  <1>9. /\ \A ok \in BOOLEAN : Counter(state', ok) =
             IF x = ok THEN CountUp(Counter(state, ok), Threshold(ok)) ELSE 0
        /\ state'.status = IF Counter(state', x) >= Threshold(x)
                           THEN IF x THEN "up" ELSE "down" ELSE state.status
    BY <1>6, <1>7, <1>8, ApplyOneCounts
  <1>10. ASSUME NEW ok \in BOOLEAN
         PROVE  /\ Exact(history', ok, Counter(state', ok))
                /\ Counter(state', ok) >= Threshold(ok)
                     <=> StreakIn(history', Len(history'), ok, Threshold(ok))
    <2> DEFINE k == Counter(state, ok)
               g == Append(history, x)
               k2 == IF x = ok THEN CountUp(k, Threshold(ok)) ELSE 0
    <2>1. Exact(history, ok, k)
      BY <1>8
    <2>2. /\ Exact(g, ok, k2)
          /\ k2 >= Threshold(ok) <=> StreakIn(g, Len(g), ok, Threshold(ok))
      BY <1>6, <1>8, <2>1, ExactGrows
    <2>3. history' = g /\ Counter(state', ok) = k2
      BY <1>6, <1>9
    <2> QED BY <2>2, <2>3
  <1>11. state'.status = VerdictIn(history')
    <2> DEFINE g == Append(history, x)
    <2>1. VerdictIn(g) = IF StreakIn(g, Len(g), x, Threshold(x))
                         THEN IF x THEN "up" ELSE "down" ELSE VerdictIn(history)
      BY <1>6, <1>8, VerdictGrows
    <2>2. history' = g
      BY <1>6
    <2>3. Counter(state', x) >= Threshold(x)
            <=> StreakIn(g, Len(g), x, Threshold(x))
      BY <1>6, <1>10, <2>2
    <2> HIDE DEF g
    <2> QED BY <1>8, <1>9, <2>1, <2>2, <2>3
  <1>12. state' \in HostStates
    BY <1>6, <1>7, <1>8, ApplyOneFacts
  <1>13. history' \in Seq(BOOLEAN)
    BY <1>6, <1>8, AppendProperties
  <1> QED BY <1>10, <1>11, <1>12, <1>13 DEF CInv

\* The invariant says what the property does.
LEMMA VerdictIsStatus == HInv => StatusIsLastConfirmed
  <1> SUFFICES ASSUME CInv
               PROVE  state.status =
                        IF Confirmed(TRUE) \cup Confirmed(FALSE) = {} THEN "unknown"
                        ELSE IF Latest(Confirmed(TRUE)) > Latest(Confirmed(FALSE))
                        THEN "up" ELSE "down"
    BY DEF HInv, StatusIsLastConfirmed
  <1>1. \A ok : Confirmed(ok) = ConfirmedIn(history, ok)
    BY DEF Confirmed, ConfirmedIn, Streak, StreakIn
  <1>2. state.status = VerdictIn(history)
    BY DEF CInv
  <1> QED BY <1>1, <1>2 DEF VerdictIn

\* A new host has no streak and is of unknown status.
LEMMA StartCounts ==
    ASSUME state = NewHost, history = <<>> PROVE CInv
  <1>1. history \in Seq(BOOLEAN) /\ Len(history) = 0
    OBVIOUS
  <1>2. \A ok \in BOOLEAN : Counter(state, ok) = 0
    BY DEF Counter, NewHost
  <1>3. \A ok \in BOOLEAN : Exact(history, ok, 0)
    BY <1>1, ThresholdType DEF Exact, StreakIn
  <1>4. VerdictIn(history) = "unknown"
    <2>1. \A ok : ConfirmedIn(history, ok) = {}
      BY <1>1 DEF ConfirmedIn
    <2> QED BY <2>1 DEF VerdictIn
  <1>5. state \in HostStates /\ state.status = "unknown"
    BY NewHostType DEF NewHost
  <1> QED BY <1>1, <1>2, <1>3, <1>4, <1>5 DEF CInv

(***************************************************************************)
(* Whatever the thresholds, the lists, the batches and the outputs of      *)
(* fping, the status of a host that shares its address with no later       *)
(* target is the outcome whose streak reached its threshold last.          *)
(***************************************************************************)
THEOREM StatusFollowsHistory == Spec => []StatusIsLastConfirmed
  <1>1. Init => HInv /\ AInv
    <2>1. SUFFICES ASSUME Init PROVE HInv
      BY StartAlternates
    <2>2. items \in Lists /\ state = NewHost /\ history = <<>>
      BY <2>1 DEF Init
    <2>3. watched # 0 => watched \in 1..Len(Targets)
      BY <2>1 DEF Init
    <2> QED BY <2>2, <2>3, StartCounts DEF HInv
  <1>2. HInv /\ AInv /\ [Next]_vars => HInv' /\ AInv'
    <2>1. SUFFICES ASSUME HInv, AInv, [Next]_vars PROVE HInv'
      BY StepAlternates
    <2>2. CASE Next
      <3>1. Round /\ items' = items /\ watched' = watched
        BY <2>2 DEF Next, Round
      <3>2. Targets' = Targets
        BY <3>1 DEF Targets
      <3>3. Shadowed' <=> Shadowed
        BY <3>1, <3>2 DEF Shadowed, BatchOf, Offset
      <3>4. ~Shadowed => CInv'
        BY <2>1, <3>1, RoundCounts
      <3> QED BY <2>1, <3>1, <3>2, <3>3, <3>4 DEF HInv
    <2>3. CASE UNCHANGED vars
      <3>1. /\ items' = items /\ watched' = watched /\ state' = state
            /\ history' = history
        BY <2>3 DEF vars
      <3>2. Targets' = Targets
        BY <3>1 DEF Targets
      <3>3. (Shadowed' <=> Shadowed) /\ (CInv' <=> CInv)
        BY <3>1, <3>2 DEF Shadowed, BatchOf, Offset, CInv
      <3> QED BY <2>1, <3>1, <3>2, <3>3 DEF HInv
    <2> QED BY <2>1, <2>2, <2>3
  <1> QED BY <1>1, <1>2, VerdictIsStatus, PTL DEF Spec
=============================================================================
