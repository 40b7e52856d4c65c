----------------------------- MODULE OutboxProofs -----------------------------
(***************************************************************************)
(* Proofs about Outbox, for any events, channels, budget and batch size,   *)
(* with raising database calls, reconfigured channels and any number of    *)
(* restarts: types, the truth of what the table says of a delivery, the    *)
(* bound on its calls, and that the outbox implements AtLeastOnce.         *)
(*                                                                         *)
(* The inductive invariant relates the counter of a row, the calls made    *)
(* for it and the restarts.  A call is counted only by its mark, so a row  *)
(* in_flight may have one call more; the next restart, which makes the row *)
(* claimable again, pays for it.                                           *)
(***************************************************************************)
EXTENDS Outbox, TLAPS

\* What the worker holds is in_flight, and an outcome in hand has happened.
HandOK ==
    /\ HeldIsInFlight
    /\ call = "accepted" => current \in received
    /\ call = "refused" => current \in refused

\* The calls for a delivery, its counter and the restarts.
Waiting(d) ==
    row[d] \in {"none", "pending"} =>
        /\ attempts[d] \in 0..MaxEventAttempts
        /\ attempts[d] <= sends[d]
        /\ sends[d] <= attempts[d] + restarts

Claimed(d) ==
    row[d] = "in_flight" =>
        /\ attempts[d] \in 0..MaxEventAttempts
        /\ attempts[d] <= sends[d]
        /\ \/ sends[d] <= attempts[d] + restarts
           \/ /\ d \notin batch
              /\ attempts[d] < MaxEventAttempts
              /\ sends[d] <= attempts[d] + 1 + restarts

InHand(d) ==
    current = d => attempts[d] < MaxEventAttempts /\ attempts[d] < sends[d]

Ended(d) == row[d] \in Terminal => sends[d] <= MaxEventAttempts + restarts

BudgetOK == \A d \in Delivery : Waiting(d) /\ Claimed(d) /\ InHand(d) /\ Ended(d)

IInv == TypeOK /\ HandOK /\ BudgetOK /\ DeliveredWasReceived /\ DeadHasCause
-----------------------------------------------------------------------------
\* What the worker holds are deliveries, and holding none is different.
HandTypes ==
    /\ batch \subseteq Delivery
    /\ current \in Delivery \cup {NoDelivery}
    /\ NoDelivery \notin Delivery
    /\ call # "none" => current \in Delivery

\* It follows from the types.
LEMMA HeldAreDeliveries == TypeOK => HandTypes
  BY OutboxAssumption DEF TypeOK, HandTypes, Delivery

\* An empty database and an idle worker satisfy the invariant.
LEMMA InitInv == Init => IInv
  <1> SUFFICES ASSUME Init PROVE IInv
    OBVIOUS
  <1>1. active \subseteq Channel
    BY DEF Init, ChannelsOf
  <1>2. TypeOK
    <2>1. 0 \in 0..MaxEventAttempts + 1 /\ 0 \in 0..MaxRestarts
      BY OutboxAssumption
    <2> QED
      BY <1>1, <2>1 DEF Init, TypeOK, Outcome
  <1>3. HandOK
    BY DEF Init, HandOK, HeldIsInFlight, Held
  <1>4. BudgetOK
    BY OutboxAssumption DEF Init, BudgetOK, Waiting, Claimed, InHand, Ended, Terminal,
        Delivery
  <1>5. DeliveredWasReceived /\ DeadHasCause
    BY DEF Init, DeliveredWasReceived, DeadHasCause
  <1> QED BY <1>2, <1>3, <1>4, <1>5 DEF IInv

\* What a mark does: to a row in_flight, what the outcome in hand says.
MarkOf(d) ==
    /\ d \in Delivery /\ row[d] = "in_flight"
    /\ \/ /\ d \in received
          /\ row' = [row EXCEPT ![d] = "delivered"]
          /\ UNCHANGED <<attempts, due>>
       \/ /\ d \in refused
          /\ row' = [row EXCEPT ![d] = "dead"]
          /\ attempts' = [attempts EXCEPT ![d] = @ + 1]
          /\ UNCHANGED due
       \/ /\ row' = [row EXCEPT ![d] = "pending"]
          /\ attempts' = [attempts EXCEPT ![d] = @ + 1]
          /\ due' = [due EXCEPT ![d] = FALSE]

\* RecordOutcome marks the row in hand.
LEMMA MarksInHand ==
    ASSUME TypeOK, HandOK, RecordOutcome
    PROVE  MarkOf(current)
  <1>1. current \in Delivery /\ row[current] = "in_flight"
    BY HeldAreDeliveries
        DEF HandTypes, HandOK, HeldIsInFlight, Held, RecordOutcome, Outcome
  <1>2. CASE call = "accepted"
    BY <1>1, <1>2 DEF RecordOutcome, Mark, MarkDelivered, HandOK, MarkOf
  <1>3. CASE call = "refused"
    BY <1>1, <1>3 DEF RecordOutcome, Mark, MarkDead, HandOK, MarkOf
  <1>4. CASE call = "exhausted"
    BY <1>1, <1>4 DEF RecordOutcome, Mark, MarkRetry, MarkOf
  <1> QED
    BY <1>2, <1>3, <1>4 DEF RecordOutcome, Outcome

\* Every step keeps the types; the counter fits because only rows with budget
\* left are counted, or given up once.
LEMMA TypeStep ==
    ASSUME IInv, [Next]_vars
    PROVE  TypeOK'
  <1> USE OutboxAssumption DEF IInv
  <1>0. TypeOK /\ BudgetOK /\ HandOK
    OBVIOUS
  <1>1. ASSUME NEW e \in Event, Enqueue(e)
         PROVE  TypeOK'
    BY <1>0, <1>1 DEF Enqueue, TypeOK, tables, task, history, Terminal, Outcome
  <1>2. ASSUME NEW c \in Channel, InsertDelivery(c)
         PROVE  TypeOK'
    BY <1>0, <1>2
        DEF InsertDelivery, Missing, TypeOK, tables, task, history, Terminal, Outcome
  <1>3. CASE EnqueueFails
    BY <1>0, <1>3 DEF EnqueueFails, TypeOK, tables, task, history, Terminal, Outcome
  <1>4. CASE StartTick
    BY <1>0, <1>4 DEF StartTick, TypeOK, tables, task, history, Terminal, Outcome
  <1>5. CASE EndTick
    BY <1>0, <1>5 DEF EndTick, TypeOK, tables, task, history, Terminal, Outcome
  <1>6. ASSUME NEW c \in Channel, Claim(c)
         PROVE  TypeOK'
    BY <1>0, <1>6
        DEF Claim, InFlight, Due, kSubset, TypeOK, tables, task, history, Terminal,
            Outcome, Delivery
  <1>7. ASSUME NEW c \in Channel, ClaimFails(c)
         PROVE  TypeOK'
    BY <1>0, <1>7
        DEF ClaimFails, InFlight, Due, AbortTick, TypeOK, tables, task, history,
            Terminal, Outcome
  <1>8. ASSUME NEW d \in Delivery, CallTransport(d)
         PROVE  TypeOK'
    BY <1>0, HeldAreDeliveries, <1>8
        DEF CallTransport, IsExhausted, TypeOK, tables, task, history, Terminal,
            Outcome, HandTypes
  <1>9. ASSUME NEW d \in Delivery, GiveUp(d)
         PROVE  TypeOK'
    BY <1>0, HeldAreDeliveries, <1>9
        DEF GiveUp, MarkDead, IsExhausted, TypeOK, tables, task, history, Terminal,
            Outcome, HandTypes, BudgetOK, Waiting, Claimed, HandOK, HeldIsInFlight,
            Held
  <1>10. ASSUME NEW outcome \in Outcome, TransportAnswers(outcome)
         PROVE  TypeOK'
    BY <1>0, HeldAreDeliveries, <1>10
        DEF TransportAnswers, TypeOK, tables, task, history, Terminal, Outcome,
            HandTypes
  <1>11. CASE RecordOutcome
    <2>1. MarkOf(current) /\ attempts[current] < MaxEventAttempts
      BY <1>11, <1>0, MarksInHand DEF BudgetOK, InHand, MarkOf
    <2>2. row' \in [Delivery -> {"none", "pending", "in_flight"} \cup Terminal]
      BY <1>0, <2>1 DEF MarkOf, TypeOK, Terminal
    <2>3. attempts' \in [Delivery -> 0..MaxEventAttempts + 1]
      BY <1>0, <2>1 DEF MarkOf, TypeOK
    <2>4. due' \in [Delivery -> BOOLEAN]
      BY <1>0, <2>1 DEF MarkOf, TypeOK
    <2> QED
      BY <1>11, <1>0, <2>2, <2>3, <2>4 DEF RecordOutcome, TypeOK, history
  <1>12. CASE MarkFails
    BY <1>0, <1>12
        DEF MarkFails, AbortTick, TypeOK, tables, task, history, Terminal, Outcome
  <1>13. ASSUME NEW d \in Delivery, BackoffEnds(d)
         PROVE  TypeOK'
    BY <1>0, <1>13 DEF BackoffEnds, TypeOK, tables, task, history, Terminal, Outcome
  <1>14. CASE RequestStop
    BY <1>0, <1>14 DEF RequestStop, TypeOK, tables, task, history, Terminal, Outcome
  <1>15. CASE WorkerStops
    BY <1>0, <1>15 DEF WorkerStops, TypeOK, tables, task, history, Terminal, Outcome
  <1>16. CASE Restart
    <2>1. row' \in [Delivery -> {"none", "pending", "in_flight"} \cup Terminal]
      BY <1>16, <1>0 DEF Restart, Reclaimed, TypeOK
    <2>2. active' \subseteq Channel /\ restarts' \in 0..MaxRestarts
      BY <1>16, <1>0, OutboxAssumption DEF Restart, ChannelsOf, TypeOK
    <2> QED
      BY <1>16, <1>0, <2>1, <2>2 DEF Restart, AbortTick, TypeOK
  <1>17. CASE UNCHANGED vars
    BY <1>0, <1>17 DEF TypeOK, tables, task, history, Terminal, Outcome, vars
  <1> QED
    BY <1>1, <1>2, <1>3, <1>4, <1>5, <1>6, <1>7, <1>8, <1>9, <1>10, <1>11, <1>12,
        <1>13, <1>14, <1>15, <1>16, <1>17
        DEF Next, Worker

\* Every step keeps the worker's hands in order.
LEMMA HandStep ==
    ASSUME IInv, [Next]_vars
    PROVE  HandOK'
  <1>0. TypeOK /\ HandOK /\ HandTypes
    BY HeldAreDeliveries DEF IInv
  <1>1. ASSUME NEW e \in Event, Enqueue(e)
         PROVE  HandOK'
    BY <1>0, <1>1
        DEF Enqueue, HandOK, HeldIsInFlight, Held, tables, task, history, TypeOK,
            HandTypes
  <1>2. ASSUME NEW c \in Channel, InsertDelivery(c)
         PROVE  HandOK'
    BY <1>0, <1>2
        DEF InsertDelivery, Missing, HandOK, HeldIsInFlight, Held, tables, task,
            history, TypeOK, HandTypes
  <1>3. CASE EnqueueFails
    BY <1>0, <1>3
        DEF EnqueueFails, HandOK, HeldIsInFlight, Held, tables, task, history, TypeOK,
            HandTypes
  <1>4. CASE StartTick
    BY <1>0, <1>4
        DEF StartTick, HandOK, HeldIsInFlight, Held, tables, task, history, TypeOK,
            HandTypes
  <1>5. CASE EndTick
    BY <1>0, <1>5
        DEF EndTick, HandOK, HeldIsInFlight, Held, tables, task, history, TypeOK,
            HandTypes
  <1>6. ASSUME NEW c \in Channel, Claim(c)
         PROVE  HandOK'
    BY <1>0, <1>6
        DEF Claim, InFlight, Due, kSubset, HandOK, HeldIsInFlight, Held, tables, task,
            history, TypeOK, HandTypes
  <1>7. ASSUME NEW c \in Channel, ClaimFails(c)
         PROVE  HandOK'
    BY <1>0, <1>7
        DEF ClaimFails, InFlight, Due, AbortTick, HandOK, HeldIsInFlight, Held,
            tables, task, history, TypeOK, HandTypes
  <1>8. ASSUME NEW d \in Delivery, CallTransport(d)
         PROVE  HandOK'
    BY <1>0, <1>8
        DEF CallTransport, IsExhausted, HandOK, HeldIsInFlight, Held, tables, task,
            history, TypeOK, HandTypes
  <1>9. ASSUME NEW d \in Delivery, GiveUp(d)
         PROVE  HandOK'
    BY <1>0, <1>9
        DEF GiveUp, MarkDead, IsExhausted, HandOK, HeldIsInFlight, Held, tables, task,
            history, TypeOK, HandTypes
  <1>10. ASSUME NEW outcome \in Outcome, TransportAnswers(outcome)
         PROVE  HandOK'
    BY <1>0, <1>10
        DEF TransportAnswers, HandOK, HeldIsInFlight, Held, tables, task, history,
            TypeOK, HandTypes, Outcome
  <1>11. CASE RecordOutcome
    <2>1. MarkOf(current)
      BY <1>11, <1>0, MarksInHand
    <2>2. \A d \in batch : row'[d] = row[d]
      BY <1>0, <2>1 DEF MarkOf, HandOK, HeldIsInFlight, HandTypes, TypeOK
    <2> QED
      BY <1>11, <1>0, <2>2
          DEF RecordOutcome, HandOK, HeldIsInFlight, Held, HandTypes, history
  <1>12. CASE MarkFails
    BY <1>0, <1>12
        DEF MarkFails, AbortTick, HandOK, HeldIsInFlight, Held, tables, task, history,
            TypeOK, HandTypes
  <1>13. ASSUME NEW d \in Delivery, BackoffEnds(d)
         PROVE  HandOK'
    BY <1>0, <1>13
        DEF BackoffEnds, HandOK, HeldIsInFlight, Held, tables, task, history, TypeOK,
            HandTypes
  <1>14. CASE RequestStop
    BY <1>0, <1>14
        DEF RequestStop, HandOK, HeldIsInFlight, Held, tables, task, history, TypeOK,
            HandTypes
  <1>15. CASE WorkerStops
    BY <1>0, <1>15
        DEF WorkerStops, HandOK, HeldIsInFlight, Held, tables, task, history, TypeOK,
            HandTypes
  <1>16. CASE Restart
    BY <1>0, <1>16
        DEF Restart, Reclaimed, ChannelsOf, AbortTick, HandOK, HeldIsInFlight, Held,
            tables, task, history, TypeOK, HandTypes
  <1>17. CASE UNCHANGED vars
    BY <1>0, <1>17
        DEF HandOK, HeldIsInFlight, Held, tables, task, history, TypeOK, HandTypes,
            vars
  <1> QED
    BY <1>1, <1>2, <1>3, <1>4, <1>5, <1>6, <1>7, <1>8, <1>9, <1>10, <1>11, <1>12,
        <1>13, <1>14, <1>15, <1>16, <1>17
        DEF Next, Worker

\* Every step keeps the calls within the budget.
LEMMA BudgetStep ==
    ASSUME IInv, [Next]_vars
    PROVE  BudgetOK'
  <1>0. TypeOK /\ HandOK /\ BudgetOK /\ HandTypes
    BY HeldAreDeliveries DEF IInv
  <1>1. ASSUME NEW e \in Event, Enqueue(e)
         PROVE  BudgetOK'
    BY <1>0, <1>1
        DEF Enqueue, BudgetOK, Waiting, Claimed, InHand, Ended, tables, task, history,
            TypeOK, HandTypes, Terminal
  <1>2. ASSUME NEW c \in Channel, InsertDelivery(c)
         PROVE  BudgetOK'
    BY <1>0, <1>2
        DEF InsertDelivery, Missing, BudgetOK, Waiting, Claimed, InHand, Ended,
            tables, task, history, TypeOK, HandTypes, Terminal
  <1>3. CASE EnqueueFails
    BY <1>0, <1>3
        DEF EnqueueFails, BudgetOK, Waiting, Claimed, InHand, Ended, tables, task,
            history, TypeOK, HandTypes, Terminal
  <1>4. CASE StartTick
    BY <1>0, <1>4
        DEF StartTick, BudgetOK, Waiting, Claimed, InHand, Ended, tables, task,
            history, TypeOK, HandTypes, Terminal
  <1>5. CASE EndTick
    BY <1>0, <1>5
        DEF EndTick, BudgetOK, Waiting, Claimed, InHand, Ended, tables, task, history,
            TypeOK, HandTypes, Terminal
  <1>6. ASSUME NEW c \in Channel, Claim(c)
         PROVE  BudgetOK'
    BY <1>0, <1>6
        DEF Claim, InFlight, Due, kSubset, BudgetOK, Waiting, Claimed, InHand, Ended,
            tables, task, history, TypeOK, HandTypes, Terminal
  <1>7. ASSUME NEW c \in Channel, ClaimFails(c)
         PROVE  BudgetOK'
    BY <1>0, <1>7
        DEF ClaimFails, InFlight, Due, AbortTick, BudgetOK, Waiting, Claimed, InHand,
            Ended, tables, task, history, TypeOK, HandTypes, Terminal
  <1>8. ASSUME NEW d \in Delivery, CallTransport(d)
         PROVE  BudgetOK'
    <2>1. /\ d \in batch /\ row[d] = "in_flight" /\ attempts[d] < MaxEventAttempts
          /\ current' = d /\ batch' = batch \ {d}
          /\ sends' = [sends EXCEPT ![d] = @ + 1]
          /\ UNCHANGED <<row, attempts, restarts>>
      BY <1>8, <1>0, OutboxAssumption
          DEF CallTransport, IsExhausted, HandOK, HeldIsInFlight, Held, tables, TypeOK
    <2> SUFFICES ASSUME NEW x \in Delivery
                 PROVE  (Waiting(x) /\ Claimed(x) /\ InHand(x) /\ Ended(x))'
      BY DEF BudgetOK
    <2>2. Waiting(x) /\ Claimed(x) /\ InHand(x) /\ Ended(x)
      BY <1>0 DEF BudgetOK
    <2>3. CASE x = d
      BY <1>0, <2>1, <2>2, <2>3
          DEF Waiting, Claimed, InHand, Ended, Terminal, TypeOK
    <2>4. CASE x # d
      BY <1>0, <2>1, <2>2, <2>4 DEF Waiting, Claimed, InHand, Ended, TypeOK
    <2> QED
      BY <2>3, <2>4
  <1>9. ASSUME NEW d \in Delivery, GiveUp(d)
         PROVE  BudgetOK'
    <2>1. /\ d \in batch /\ row[d] = "in_flight" /\ attempts[d] >= MaxEventAttempts
          /\ row' = [row EXCEPT ![d] = "dead"]
          /\ attempts' = [attempts EXCEPT ![d] = @ + 1]
          /\ current = NoDelivery /\ batch' = batch \ {d}
          /\ UNCHANGED <<current, sends, restarts>>
      BY <1>9, <1>0
          DEF GiveUp, MarkDead, IsExhausted, HandOK, HeldIsInFlight, Held, history
    <2> SUFFICES ASSUME NEW x \in Delivery
                 PROVE  (Waiting(x) /\ Claimed(x) /\ InHand(x) /\ Ended(x))'
      BY DEF BudgetOK
    <2>2. Waiting(x) /\ Claimed(x) /\ InHand(x) /\ Ended(x)
      BY <1>0 DEF BudgetOK
    <2>3. CASE x = d
      BY <1>0, <2>1, <2>2, <2>3, OutboxAssumption
          DEF Waiting, Claimed, InHand, Ended, Terminal, TypeOK, HandTypes
    <2>4. CASE x # d
      BY <1>0, <2>1, <2>2, <2>4 DEF Waiting, Claimed, InHand, Ended, TypeOK, HandTypes
    <2> QED
      BY <2>3, <2>4
  <1>10. ASSUME NEW outcome \in Outcome, TransportAnswers(outcome)
         PROVE  BudgetOK'
    BY <1>0, <1>10
        DEF TransportAnswers, BudgetOK, Waiting, Claimed, InHand, Ended, tables, task,
            history, TypeOK, HandTypes, Terminal
  <1>11. CASE RecordOutcome
    <2>1. MarkOf(current) /\ current' = NoDelivery /\ UNCHANGED <<batch, sends, restarts>>
      BY <1>11, <1>0, MarksInHand DEF RecordOutcome, history
    <2> SUFFICES ASSUME NEW d \in Delivery
                 PROVE  (Waiting(d) /\ Claimed(d) /\ InHand(d) /\ Ended(d))'
      BY DEF BudgetOK
    <2>2. Waiting(d) /\ Claimed(d) /\ InHand(d) /\ Ended(d)
      BY <1>0 DEF BudgetOK
    <2>3. CASE d = current
      <3>1. /\ row[d] = "in_flight" /\ sends[d] \in Nat /\ restarts \in Nat
            /\ attempts[d] \in 0..MaxEventAttempts - 1 /\ attempts[d] < sends[d]
            /\ sends[d] <= attempts[d] + 1 + restarts
        BY <1>0, <2>1, <2>2, <2>3, OutboxAssumption
            DEF MarkOf, Claimed, InHand, TypeOK
      <3>2. \/ row'[d] = "delivered" /\ attempts'[d] = attempts[d]
            \/ row'[d] = "dead" /\ attempts'[d] = attempts[d] + 1
            \/ row'[d] = "pending" /\ attempts'[d] = attempts[d] + 1
        BY <1>0, <2>1, <2>3 DEF MarkOf, TypeOK
      <3>3. current' # d
        BY <1>0, <2>1 DEF HandTypes
      <3> QED
        BY <2>1, <3>1, <3>2, <3>3, OutboxAssumption
            DEF Waiting, Claimed, InHand, Ended, Terminal
    <2>4. CASE d # current
      <3>1. row'[d] = row[d] /\ attempts'[d] = attempts[d] /\ current' # d
        BY <1>0, <2>1, <2>4 DEF MarkOf, TypeOK, HandTypes
      <3> QED
        BY <2>1, <2>2, <3>1 DEF Waiting, Claimed, InHand, Ended
    <2> QED
      BY <2>3, <2>4
  <1>12. CASE MarkFails
    BY <1>0, <1>12
        DEF MarkFails, AbortTick, BudgetOK, Waiting, Claimed, InHand, Ended, tables,
            task, history, TypeOK, HandTypes, Terminal
  <1>13. ASSUME NEW d \in Delivery, BackoffEnds(d)
         PROVE  BudgetOK'
    BY <1>0, <1>13
        DEF BackoffEnds, BudgetOK, Waiting, Claimed, InHand, Ended, tables, task,
            history, TypeOK, HandTypes, Terminal
  <1>14. CASE RequestStop
    BY <1>0, <1>14
        DEF RequestStop, BudgetOK, Waiting, Claimed, InHand, Ended, tables, task,
            history, TypeOK, HandTypes, Terminal
  <1>15. CASE WorkerStops
    BY <1>0, <1>15
        DEF WorkerStops, BudgetOK, Waiting, Claimed, InHand, Ended, tables, task,
            history, TypeOK, HandTypes, Terminal
  <1>16. CASE Restart
    <2>1. /\ row' = Reclaimed /\ current' = NoDelivery /\ batch' = {}
          /\ restarts' = restarts + 1 /\ UNCHANGED <<attempts, sends>>
      BY <1>16 DEF Restart, AbortTick
    <2> SUFFICES ASSUME NEW x \in Delivery
                 PROVE  (Waiting(x) /\ Claimed(x) /\ InHand(x) /\ Ended(x))'
      BY DEF BudgetOK
    <2>2. Waiting(x) /\ Claimed(x) /\ InHand(x) /\ Ended(x)
      BY <1>0 DEF BudgetOK
    <2>3. row'[x] = IF row[x] = "in_flight" THEN "pending" ELSE row[x]
      BY <2>1 DEF Reclaimed
    <2>4. sends[x] \in Nat /\ attempts[x] \in Nat /\ restarts \in Nat
      BY <1>0 DEF TypeOK
    <2> QED
      BY <1>0, <2>1, <2>2, <2>3, <2>4, OutboxAssumption
          DEF Waiting, Claimed, InHand, Ended, Terminal, HandTypes
  <1>17. CASE UNCHANGED vars
    BY <1>0, <1>17
        DEF BudgetOK, Waiting, Claimed, InHand, Ended, tables, task, history, TypeOK,
            HandTypes, Terminal, vars
  <1> QED
    BY <1>1, <1>2, <1>3, <1>4, <1>5, <1>6, <1>7, <1>8, <1>9, <1>10, <1>11, <1>12,
        <1>13, <1>14, <1>15, <1>16, <1>17
        DEF Next, Worker

\* Every step keeps the ledger true: a row ends on what happened.
LEMMA CauseStep ==
    ASSUME IInv, [Next]_vars
    PROVE  DeliveredWasReceived' /\ DeadHasCause'
  <1>0. TypeOK /\ HandOK /\ BudgetOK /\ DeliveredWasReceived /\ DeadHasCause
        /\ HandTypes
    BY HeldAreDeliveries DEF IInv
  <1>1. ASSUME NEW e \in Event, Enqueue(e)
         PROVE  DeliveredWasReceived' /\ DeadHasCause'
    BY <1>0, <1>1
        DEF Enqueue, DeliveredWasReceived, DeadHasCause, tables, task, history,
            TypeOK, HandTypes
  <1>2. ASSUME NEW c \in Channel, InsertDelivery(c)
         PROVE  DeliveredWasReceived' /\ DeadHasCause'
    BY <1>0, <1>2
        DEF InsertDelivery, Missing, DeliveredWasReceived, DeadHasCause, tables, task,
            history, TypeOK, HandTypes
  <1>3. CASE EnqueueFails
    BY <1>0, <1>3
        DEF EnqueueFails, DeliveredWasReceived, DeadHasCause, tables, task, history,
            TypeOK, HandTypes
  <1>4. CASE StartTick
    BY <1>0, <1>4
        DEF StartTick, DeliveredWasReceived, DeadHasCause, tables, task, history,
            TypeOK, HandTypes
  <1>5. CASE EndTick
    BY <1>0, <1>5
        DEF EndTick, DeliveredWasReceived, DeadHasCause, tables, task, history,
            TypeOK, HandTypes
  <1>6. ASSUME NEW c \in Channel, Claim(c)
         PROVE  DeliveredWasReceived' /\ DeadHasCause'
    BY <1>0, <1>6
        DEF Claim, InFlight, Due, kSubset, DeliveredWasReceived, DeadHasCause, tables,
            task, history, TypeOK, HandTypes
  <1>7. ASSUME NEW c \in Channel, ClaimFails(c)
         PROVE  DeliveredWasReceived' /\ DeadHasCause'
    BY <1>0, <1>7
        DEF ClaimFails, InFlight, Due, AbortTick, DeliveredWasReceived, DeadHasCause,
            tables, task, history, TypeOK, HandTypes
  <1>8. ASSUME NEW d \in Delivery, CallTransport(d)
         PROVE  DeliveredWasReceived' /\ DeadHasCause'
    <2>1. /\ sends' = [sends EXCEPT ![d] = @ + 1]
          /\ UNCHANGED <<row, attempts, received, refused>>
      BY <1>8 DEF CallTransport, tables
    <2> SUFFICES ASSUME NEW x \in Delivery, row[x] = "dead", x \notin refused
                 PROVE  attempts[x] = MaxEventAttempts + 1 /\ sends'[x] >= MaxEventAttempts
      BY <1>0, <2>1 DEF DeliveredWasReceived, DeadHasCause
    <2>2. attempts[x] = MaxEventAttempts + 1 /\ sends[x] >= MaxEventAttempts
      BY <1>0 DEF DeadHasCause
    <2>3. sends[x] \in Nat /\ sends'[x] \in Nat /\ sends'[x] >= sends[x]
      BY <1>0, <2>1 DEF TypeOK
    <2> QED
      BY <2>2, <2>3, OutboxAssumption
  <1>9. ASSUME NEW d \in Delivery, GiveUp(d)
         PROVE  DeliveredWasReceived' /\ DeadHasCause'
    <2>1. /\ row[d] = "in_flight" /\ attempts[d] = MaxEventAttempts
          /\ sends[d] >= MaxEventAttempts
      BY <1>9, <1>0, OutboxAssumption
          DEF GiveUp, IsExhausted, HandOK, HeldIsInFlight, Held, BudgetOK, Claimed, TypeOK
    <2>2. /\ row' = [row EXCEPT ![d] = "dead"]
          /\ attempts' = [attempts EXCEPT ![d] = @ + 1]
          /\ UNCHANGED <<sends, received, refused>>
      BY <1>9 DEF GiveUp, MarkDead, history
    <2> QED
      BY <1>0, <2>1, <2>2 DEF DeliveredWasReceived, DeadHasCause, TypeOK
  <1>10. ASSUME NEW outcome \in Outcome, TransportAnswers(outcome)
         PROVE  DeliveredWasReceived' /\ DeadHasCause'
    BY <1>0, <1>10
        DEF TransportAnswers, DeliveredWasReceived, DeadHasCause, tables, task,
            history, TypeOK, HandTypes
  <1>11. CASE RecordOutcome
    <2>1. MarkOf(current) /\ UNCHANGED <<sends, received, refused>>
      BY <1>11, <1>0, MarksInHand DEF RecordOutcome, history
    <2> SUFFICES ASSUME NEW d \in Delivery
                 PROVE  /\ row'[d] = "delivered" => d \in received
                        /\ row'[d] = "dead" /\ d \notin refused =>
                             /\ attempts'[d] = MaxEventAttempts + 1
                             /\ sends[d] >= MaxEventAttempts
      BY <2>1 DEF DeliveredWasReceived, DeadHasCause
    <2>2. CASE d = current
      BY <1>0, <2>1, <2>2 DEF MarkOf, TypeOK
    <2>3. CASE d # current
      BY <1>0, <2>1, <2>3 DEF MarkOf, TypeOK, DeliveredWasReceived, DeadHasCause
    <2> QED
      BY <2>2, <2>3
  <1>12. CASE MarkFails
    BY <1>0, <1>12
        DEF MarkFails, AbortTick, DeliveredWasReceived, DeadHasCause, tables, task,
            history, TypeOK, HandTypes
  <1>13. ASSUME NEW d \in Delivery, BackoffEnds(d)
         PROVE  DeliveredWasReceived' /\ DeadHasCause'
    BY <1>0, <1>13
        DEF BackoffEnds, DeliveredWasReceived, DeadHasCause, tables, task, history,
            TypeOK, HandTypes
  <1>14. CASE RequestStop
    BY <1>0, <1>14
        DEF RequestStop, DeliveredWasReceived, DeadHasCause, tables, task, history,
            TypeOK, HandTypes
  <1>15. CASE WorkerStops
    BY <1>0, <1>15
        DEF WorkerStops, DeliveredWasReceived, DeadHasCause, tables, task, history,
            TypeOK, HandTypes
  <1>16. CASE Restart
    BY <1>0, <1>16
        DEF Restart, Reclaimed, ChannelsOf, AbortTick, DeliveredWasReceived,
            DeadHasCause, tables, task, history, TypeOK, HandTypes
  <1>17. CASE UNCHANGED vars
    BY <1>0, <1>17
        DEF DeliveredWasReceived, DeadHasCause, tables, task, history, TypeOK,
            HandTypes, vars
  <1> QED
    BY <1>1, <1>2, <1>3, <1>4, <1>5, <1>6, <1>7, <1>8, <1>9, <1>10, <1>11, <1>12,
        <1>13, <1>14, <1>15, <1>16, <1>17
        DEF Next, Worker

\* The invariant survives every step.
LEMMA StepInv == IInv /\ [Next]_vars => IInv'
  BY TypeStep, HandStep, BudgetStep, CauseStep DEF IInv

\* The invariant holds in every reachable state.
THEOREM Inductive == Spec => []IInv
  <1> QED
    BY InitInv, StepInv, PTL DEF Spec

\* Types, and the worker's use of its variables.
THEOREM TypeCorrect == Spec => []TypeOK
  <1>1. IInv => TypeOK
    BY DEF IInv
  <1> QED
    BY Inductive, <1>1, PTL

\* The worker only touches rows it has claimed.
THEOREM HandsAreClaimed == Spec => []HeldIsInFlight
  <1>1. IInv => HeldIsInFlight
    BY DEF IInv, HandOK
  <1> QED
    BY Inductive, <1>1, PTL

\* "delivered" is said only of alerts the receiver got (OutboxWorker._deliver).
THEOREM DeliveriesAreTrue == Spec => []DeliveredWasReceived
  <1>1. IInv => DeliveredWasReceived
    BY DEF IInv
  <1> QED
    BY Inductive, <1>1, PTL

\* A row is given up for a refusal or after its full budget of calls.
THEOREM GivingUpHasCause == Spec => []DeadHasCause
  <1>1. IInv => DeadHasCause
    BY DEF IInv
  <1> QED
    BY Inductive, <1>1, PTL

\* max_event_attempts bounds the calls of a delivery, plus one for each restart.
THEOREM CallsAreBounded == Spec => []SendsBounded
  <1>1. IInv => SendsBounded
    <2> SUFFICES ASSUME IInv, NEW d \in Delivery
                 PROVE  sends[d] <= MaxEventAttempts + restarts
      BY DEF SendsBounded
    <2>1. Waiting(d) /\ Claimed(d) /\ Ended(d)
      BY DEF IInv, BudgetOK
    <2>2. /\ sends[d] \in Nat /\ restarts \in Nat
          /\ row[d] \in {"none", "pending", "in_flight"} \cup Terminal
      BY DEF IInv, TypeOK
    <2> QED
      BY <2>1, <2>2, OutboxAssumption DEF Waiting, Claimed, Ended
  <1> QED
    BY Inductive, <1>1, PTL
\* As long as no database call raises, a step keeps every claimed row in hand.
LEMMA HeldStep ==
    ASSUME IInv, InFlightIsHeld, ~StorageFails, [Next]_vars
    PROVE  InFlightIsHeld'
  <1>0. InFlightIsHeld /\ TypeOK /\ HandTypes /\ HandOK /\ ~StorageFails
    BY HeldAreDeliveries DEF IInv
  <1>1. ASSUME NEW e \in Event, Enqueue(e)
         PROVE  InFlightIsHeld'
    BY <1>0, <1>1
        DEF Enqueue, InFlightIsHeld, Held, tables, task, history, TypeOK, HandTypes
  <1>2. ASSUME NEW c \in Channel, InsertDelivery(c)
         PROVE  InFlightIsHeld'
    BY <1>0, <1>2
        DEF InsertDelivery, Missing, InFlightIsHeld, Held, tables, task, history,
            TypeOK, HandTypes
  <1>3. CASE EnqueueFails
    BY <1>0, <1>3
        DEF EnqueueFails, InFlightIsHeld, Held, tables, task, history, TypeOK,
            HandTypes
  <1>4. CASE StartTick
    BY <1>0, <1>4
        DEF StartTick, InFlightIsHeld, Held, tables, task, history, TypeOK, HandTypes
  <1>5. CASE EndTick
    BY <1>0, <1>5
        DEF EndTick, InFlightIsHeld, Held, tables, task, history, TypeOK, HandTypes
  <1>6. ASSUME NEW c \in Channel, Claim(c)
         PROVE  InFlightIsHeld'
    BY <1>0, <1>6
        DEF Claim, InFlight, Due, kSubset, InFlightIsHeld, Held, tables, task,
            history, TypeOK, HandTypes
  <1>7. ASSUME NEW c \in Channel, ClaimFails(c)
         PROVE  InFlightIsHeld'
    BY <1>0, <1>7
        DEF ClaimFails, InFlight, Due, AbortTick, InFlightIsHeld, Held, tables, task,
            history, TypeOK, HandTypes
  <1>8. ASSUME NEW d \in Delivery, CallTransport(d)
         PROVE  InFlightIsHeld'
    BY <1>0, <1>8
        DEF CallTransport, IsExhausted, InFlightIsHeld, Held, tables, task, history,
            TypeOK, HandTypes
  <1>9. ASSUME NEW d \in Delivery, GiveUp(d)
         PROVE  InFlightIsHeld'
    BY <1>0, <1>9
        DEF GiveUp, MarkDead, IsExhausted, InFlightIsHeld, Held, tables, task,
            history, TypeOK, HandTypes
  <1>10. ASSUME NEW outcome \in Outcome, TransportAnswers(outcome)
         PROVE  InFlightIsHeld'
    BY <1>0, <1>10
        DEF TransportAnswers, InFlightIsHeld, Held, tables, task, history, TypeOK,
            HandTypes
  <1>11. CASE RecordOutcome
    BY <1>0, MarksInHand, <1>11
        DEF RecordOutcome, MarkOf, InFlightIsHeld, Held, tables, task, history,
            TypeOK, HandTypes
  <1>12. CASE MarkFails
    BY <1>0, <1>12
        DEF MarkFails, AbortTick, InFlightIsHeld, Held, tables, task, history, TypeOK,
            HandTypes
  <1>13. ASSUME NEW d \in Delivery, BackoffEnds(d)
         PROVE  InFlightIsHeld'
    BY <1>0, <1>13
        DEF BackoffEnds, InFlightIsHeld, Held, tables, task, history, TypeOK,
            HandTypes
  <1>14. CASE RequestStop
    BY <1>0, <1>14
        DEF RequestStop, InFlightIsHeld, Held, tables, task, history, TypeOK,
            HandTypes
  <1>15. CASE WorkerStops
    BY <1>0, <1>15
        DEF WorkerStops, InFlightIsHeld, Held, tables, task, history, TypeOK,
            HandTypes
  <1>16. CASE Restart
    BY <1>0, <1>16
        DEF Restart, Reclaimed, ChannelsOf, AbortTick, InFlightIsHeld, Held, tables,
            task, history, TypeOK, HandTypes
  <1>17. CASE UNCHANGED vars
    BY <1>0, <1>17
        DEF InFlightIsHeld, Held, tables, task, history, TypeOK, HandTypes, vars
  <1> QED
    BY <1>1, <1>2, <1>3, <1>4, <1>5, <1>6, <1>7, <1>8, <1>9, <1>10, <1>11, <1>12,
        <1>13, <1>14, <1>15, <1>16, <1>17
        DEF Next, Worker

\* If no database call raises, in_flight means that the worker is on the row,
\* also after a crash (storage.py:16).
THEOREM NoneIsStranded ==
    ASSUME ~StorageFails
    PROVE  Spec => []InFlightIsHeld
  <1>1. Init => InFlightIsHeld
    BY DEF Init, InFlightIsHeld
  <1>2. IInv /\ InFlightIsHeld /\ [Next]_vars => InFlightIsHeld'
    BY HeldStep
  <1> QED
    BY Inductive, <1>1, <1>2, PTL DEF Spec
-----------------------------------------------------------------------------
(* Rows appear only by an enqueue. *)

SameRows == \A d \in Delivery : row'[d] = "none" <=> row[d] = "none"

\* The worker writes only to rows that exist, and leaves events and enqueues be.
LEMMA WorkerKeepsRows ==
    ASSUME IInv, Worker
    PROVE  SameRows /\ UNCHANGED <<stored, active, enqueuing>>
  <1> DEFINE Goal == SameRows /\ UNCHANGED <<stored, active, enqueuing>>
  <1>0. /\ TypeOK /\ HandTypes
        /\ \A d \in Held : row[d] = "in_flight"
    BY HeldAreDeliveries DEF IInv, HandOK, HeldIsInFlight
  <1>1. CASE StartTick \/ EndTick \/ MarkFails
    BY <1>1 DEF StartTick, EndTick, MarkFails, AbortTick, tables, SameRows
  <1>2. ASSUME NEW S \in SUBSET Delivery, row' = InFlight(S),
               \A d \in S : row[d] # "none"
        PROVE  SameRows
    BY <1>2 DEF InFlight, SameRows
  <1>3. ASSUME NEW c \in Channel, Claim(c)
        PROVE  Goal
    <2>1. PICK S \in SUBSET Due(c) : row' = InFlight(S)
      BY <1>3 DEF Claim, kSubset
    <2>2. S \in SUBSET Delivery /\ \A d \in S : row[d] # "none"
      BY <2>1 DEF Due
    <2> QED BY <1>2, <1>3, <2>1, <2>2 DEF Claim
  <1>4. ASSUME NEW c \in Channel, ClaimFails(c)
        PROVE  Goal
    <2>1. PICK S \in SUBSET Due(c) : row' = InFlight(S)
      BY <1>4 DEF ClaimFails
    <2>2. S \in SUBSET Delivery /\ \A d \in S : row[d] # "none"
      BY <2>1 DEF Due
    <2> QED BY <1>2, <1>4, <2>1, <2>2 DEF ClaimFails
  <1>5. ASSUME NEW d \in Delivery, CallTransport(d)
        PROVE  Goal
    BY <1>5 DEF CallTransport, tables, SameRows
  <1>6. ASSUME NEW d \in Delivery, GiveUp(d)
        PROVE  Goal
    <2>1. row[d] = "in_flight" /\ row' = [row EXCEPT ![d] = "dead"]
      BY <1>0, <1>6 DEF GiveUp, MarkDead, Held
    <2> QED BY <1>0, <1>6, <2>1 DEF GiveUp, SameRows, TypeOK
  <1>7. ASSUME NEW outcome \in Outcome, TransportAnswers(outcome)
        PROVE  Goal
    BY <1>7 DEF TransportAnswers, tables, SameRows
  <1>8. CASE RecordOutcome
    <2>1. MarkOf(current)
      BY <1>8, MarksInHand DEF IInv
    <2>2. SameRows
      BY <1>0, <2>1 DEF MarkOf, SameRows, TypeOK
    <2> QED BY <1>8, <2>2 DEF RecordOutcome
  <1> QED BY <1>1, <1>3, <1>4, <1>5, <1>6, <1>7, <1>8 DEF Worker

\* Nor does a restart make rows or lose them.
LEMMA RestartKeepsRows ==
    ASSUME Restart
    PROVE  SameRows /\ stored' = stored /\ enqueuing' = NoEvent
  BY DEF Restart, Reclaimed, SameRows
-----------------------------------------------------------------------------
(* An end is final, and the outbox implements AtLeastOnce. *)

\* A delivery ends, on a cause.
Ends(d, end) ==
    /\ row[d] = "in_flight" /\ row' = [row EXCEPT ![d] = end]
    /\ end = "delivered" => d \in received
    /\ UNCHANGED received

\* What a step can do to the table, seen from AtLeastOnce: nothing, queue one
\* delivery, let the receiver get one, or end one.
Effect ==
    \/ /\ \A d \in Delivery : StatusOf(d)' = StatusOf(d)
       /\ \A d \in Delivery : row[d] \in Terminal => row'[d] = row[d]
       /\ \/ UNCHANGED received
          \/ \E d \in Delivery : /\ row[d] = "in_flight"
                                 /\ received' = received \cup {d}
    \/ \E d \in Delivery :
         /\ row[d] = "none" /\ row' = [row EXCEPT ![d] = "pending"]
         /\ UNCHANGED received
    \/ \E d \in Delivery, end \in Terminal : Ends(d, end)

\* Every step has such an effect, and leaves the counters of ended rows alone.
LEMMA StepEffect ==
    ASSUME IInv, [Next]_vars
    PROVE  Effect /\ \A d \in Delivery : row[d] \in Terminal => attempts'[d] = attempts[d]
  <1> DEFINE Goal == /\ Effect
                     /\ \A d \in Delivery : row[d] \in Terminal => attempts'[d] = attempts[d]
  <1>0. TypeOK /\ HandOK /\ HandTypes
    BY HeldAreDeliveries DEF IInv
  <1>1. ASSUME NEW e \in Event, Enqueue(e)
         PROVE  Goal
    BY <1>0, <1>1
        DEF Enqueue, Effect, StatusOf, tables, task, history, TypeOK, Terminal
  <1>2. ASSUME NEW c \in Channel, InsertDelivery(c)
         PROVE  Goal
    BY <1>0, <1>2
        DEF InsertDelivery, Missing, Effect, StatusOf, tables, task, history, TypeOK,
            Terminal
  <1>3. CASE EnqueueFails
    BY <1>0, <1>3
        DEF EnqueueFails, Effect, StatusOf, tables, task, history, TypeOK, Terminal
  <1>4. CASE StartTick
    BY <1>0, <1>4
        DEF StartTick, Effect, StatusOf, tables, task, history, TypeOK, Terminal
  <1>5. CASE EndTick
    BY <1>0, <1>5
        DEF EndTick, Effect, StatusOf, tables, task, history, TypeOK, Terminal
  <1>6. ASSUME NEW c \in Channel, Claim(c)
         PROVE  Goal
    BY <1>0, <1>6
        DEF Claim, InFlight, Due, kSubset, Effect, StatusOf, tables, task, history,
            TypeOK, Terminal, Delivery
  <1>7. ASSUME NEW c \in Channel, ClaimFails(c)
         PROVE  Goal
    BY <1>0, <1>7
        DEF ClaimFails, InFlight, Due, AbortTick, Effect, StatusOf, tables, task,
            history, TypeOK, Terminal
  <1>8. ASSUME NEW d \in Delivery, CallTransport(d)
         PROVE  Goal
    BY <1>0, <1>8
        DEF CallTransport, IsExhausted, Effect, StatusOf, tables, task, history,
            TypeOK, Terminal
  <1>9. ASSUME NEW d \in Delivery, GiveUp(d)
         PROVE  Goal
    BY <1>0, <1>9
        DEF GiveUp, MarkDead, IsExhausted, Effect, StatusOf, tables, task, history,
            TypeOK, Terminal, Ends, HandOK, HeldIsInFlight, Held, HandTypes
  <1>10. ASSUME NEW outcome \in Outcome, TransportAnswers(outcome)
         PROVE  Goal
    BY <1>0, <1>10
        DEF TransportAnswers, Effect, StatusOf, tables, task, history, TypeOK,
            Terminal, HandOK, HeldIsInFlight, Held, Outcome, HandTypes
  <1>11. CASE RecordOutcome
    <2>1. MarkOf(current) /\ UNCHANGED received
      BY <1>11, <1>0, MarksInHand DEF RecordOutcome, history
    <2>2. \A d \in Delivery : row[d] \in Terminal => attempts'[d] = attempts[d]
      BY <1>0, <2>1 DEF MarkOf, TypeOK, Terminal
    <2>3. CASE row' = [row EXCEPT ![current] = "pending"]
      <3>1. \A d \in Delivery : d # current => row'[d] = row[d]
        BY <1>0, <2>3 DEF TypeOK
      <3>2. row[current] = "in_flight" /\ row'[current] = "pending"
        BY <1>0, <2>1, <2>3 DEF MarkOf, TypeOK
      <3>3. \A d \in Delivery : StatusOf(d)' = StatusOf(d)
        BY <3>1, <3>2 DEF StatusOf, Terminal
      <3> QED
        BY <2>1, <2>2, <3>1, <3>2, <3>3 DEF Effect, Terminal
    <2>4. ASSUME NEW end \in Terminal, Ends(current, end)
          PROVE  Effect
      BY <1>0, <2>1, <2>4 DEF Effect, MarkOf
    <2>5. CASE row' = [row EXCEPT ![current] = "delivered"] /\ current \in received
      <3>1. Ends(current, "delivered")
        BY <2>1, <2>5 DEF Ends, MarkOf
      <3> QED
        BY <2>2, <2>4, <3>1 DEF Terminal
    <2>6. CASE row' = [row EXCEPT ![current] = "dead"]
      <3>1. Ends(current, "dead")
        BY <2>1, <2>6 DEF Ends, MarkOf
      <3> QED
        BY <2>2, <2>4, <3>1 DEF Terminal
    <2> QED
      BY <2>1, <2>3, <2>5, <2>6 DEF MarkOf
  <1>12. CASE MarkFails
    BY <1>0, <1>12
        DEF MarkFails, AbortTick, Effect, StatusOf, tables, task, history, TypeOK,
            Terminal
  <1>13. ASSUME NEW d \in Delivery, BackoffEnds(d)
         PROVE  Goal
    BY <1>0, <1>13
        DEF BackoffEnds, Effect, StatusOf, tables, task, history, TypeOK, Terminal
  <1>14. CASE RequestStop
    BY <1>0, <1>14
        DEF RequestStop, Effect, StatusOf, tables, task, history, TypeOK, Terminal
  <1>15. CASE WorkerStops
    BY <1>0, <1>15
        DEF WorkerStops, Effect, StatusOf, tables, task, history, TypeOK, Terminal
  <1>16. CASE Restart
    BY <1>0, <1>16
        DEF Restart, Reclaimed, ChannelsOf, AbortTick, Effect, StatusOf, tables, task,
            history, TypeOK, Terminal
  <1>17. CASE UNCHANGED vars
    BY <1>0, <1>17 DEF Effect, StatusOf, tables, task, history, TypeOK, Terminal, vars
  <1> QED
    BY <1>1, <1>2, <1>3, <1>4, <1>5, <1>6, <1>7, <1>8, <1>9, <1>10, <1>11, <1>12,
        <1>13, <1>14, <1>15, <1>16, <1>17
        DEF Next, Worker

\* A delivery that ended stays as it ended (storage.py:13-21).
THEOREM EndsAreFinal == Spec => TerminalIsFinal
  <1>1. IInv /\ [Next]_vars =>
          [\A d \in Delivery : row[d] \in Terminal =>
             row'[d] = row[d] /\ attempts'[d] = attempts[d]]_vars
    <2> SUFFICES ASSUME IInv, [Next]_vars, NEW d \in Delivery, row[d] \in Terminal
                 PROVE  row'[d] = row[d] /\ attempts'[d] = attempts[d]
      OBVIOUS
    <2>1. row \in [Delivery -> {"none", "pending", "in_flight"} \cup Terminal]
      BY DEF IInv, TypeOK
    <2> QED
      BY <2>1, StepEffect DEF Effect, Ends, Terminal
  <1> QED
    BY Inductive, <1>1, PTL DEF Spec, TerminalIsFinal

\* The outbox implements AtLeastOnce: its tables, claims and restarts come to
\* queueing a delivery, its reception and its end.
THEOREM Implements == Spec => KeepsPromise
  <1> DEFINE status == [d \in Delivery |-> StatusOf(d)]
  <1>1. Init => Promise!Init
    BY DEF Init, Promise!Init, StatusOf, Terminal
  <1>2. IInv /\ [Next]_vars => [Promise!Next]_Promise!vars
    <2> SUFFICES ASSUME IInv, [Next]_vars
                 PROVE  [Promise!Next]_Promise!vars
      OBVIOUS
    <2>0. row \in [Delivery -> {"none", "pending", "in_flight"} \cup Terminal]
      BY DEF IInv, TypeOK
    <2>1. Effect
      BY StepEffect
    <2>2. CASE /\ \A d \in Delivery : StatusOf(d)' = StatusOf(d)
               /\ UNCHANGED received
      <3>1. UNCHANGED status
        BY <2>2
      <3> QED
        BY <2>2, <3>1 DEF Promise!vars
    <2>3. ASSUME \A d \in Delivery : StatusOf(d)' = StatusOf(d),
                 NEW d \in Delivery, row[d] = "in_flight", received' = received \cup {d}
          PROVE  Promise!Next
      <3>1. UNCHANGED status
        BY <2>3
      <3>2. status[d] = "owed"
        BY <2>3 DEF StatusOf, Terminal
      <3>3. Promise!Receive(d)
        BY <2>3, <3>1, <3>2 DEF Promise!Receive
      <3> QED
        BY <3>3 DEF Promise!Next
    <2>4. ASSUME NEW d \in Delivery, row[d] = "none",
                 row' = [row EXCEPT ![d] = "pending"], UNCHANGED received
          PROVE  Promise!Next
      <3>1. status[d] = "unknown"
        BY <2>4 DEF StatusOf, Terminal
      <3>2. status' = [status EXCEPT ![d] = "owed"]
        BY <2>0, <2>4 DEF StatusOf, Terminal
      <3>3. Promise!Queue(d)
        BY <2>4, <3>1, <3>2 DEF Promise!Queue
      <3> QED
        BY <3>3 DEF Promise!Next
    <2>5. ASSUME NEW d \in Delivery, NEW end \in Terminal, Ends(d, end)
          PROVE  Promise!Next
      <3>1. status[d] = "owed"
        BY <2>5 DEF Ends, StatusOf, Terminal
      <3>2. status' = [status EXCEPT ![d] = end]
        BY <2>0, <2>5 DEF Ends, StatusOf, Terminal
      <3>3. Promise!End(d, end)
        BY <2>5, <3>1, <3>2 DEF Ends, Promise!End
      <3> QED
        BY <3>3 DEF Promise!Next, Terminal
    <2> QED
      BY <2>1, <2>2, <2>3, <2>4, <2>5 DEF Effect
  <1> QED
    BY Inductive, <1>1, <1>2, PTL DEF Spec, KeepsPromise, Promise!Spec

==============================================================================
