-------------------------- MODULE ApplicationProofs ---------------------------
(***************************************************************************)
(* Proofs about Application, for any batch size and bounds and with        *)
(* database calls that may raise: types, that nothing uses what shutdown   *)
(* has closed, and that the storage gauge stays down afterwards.  (That    *)
(* shutdown ends is liveness, which TLC checks.)                           *)
(*                                                                         *)
(* The invariant says, for each stage of shutdown, which of the tasks are  *)
(* over by then: each stage is entered only when the task before it ended, *)
(* and no task starts again.                                               *)
(***************************************************************************)
EXTENDS Application, TLAPS

\* Rounds: none before serving, none once the scheduler has returned.
RoundsOver ==
    stage # "serving" => round = "asleep" /\ (stage # "starting" => stop)

\* The statistics task is cancelled, then awaited.
StatisticsOver ==
    /\ stage = "starting" => statistics = "none"
    /\ stage = "statistics" => statistics = "cancelled"
    /\ stage \in {"worker", "clients", "exited"} => statistics = "over"

\* The worker, if there is one, is awaited before anything is closed.
WorkerOver ==
    /\ stage = "starting" => worker = "none"
    /\ stage \in {"clients", "exited"} => worker \in {"none", "over"}

\* What is closed, and the gauge.
ClosedLast ==
    /\ clients = "closed" => stage \in {"clients", "exited"}
    /\ database = "closed" => stage = "exited"
    /\ stage = "exited" => ~healthy

IInv == TypeOK /\ RoundsOver /\ StatisticsOver /\ WorkerOver /\ ClosedLast
-----------------------------------------------------------------------------
\* bootstrap leaves everything open and nothing running.
LEMMA InitInv == Init => IInv
  <1> SUFFICES ASSUME Init PROVE IInv
    OBVIOUS
  <1>1. TypeOK
    <2>1. 0 \in 0..MaxAlerts /\ 0 \in 0..MaxRounds /\ 0 \in 0..BatchSize /\ ~(0 > 0)
      BY ApplicationAssumption
    <2>2. stop \in BOOLEAN /\ workerStop \in BOOLEAN /\ healthy \in BOOLEAN
      BY DEF Init
    <2> QED
      BY <2>1, <2>2 DEF Init, TypeOK, Stages
  <1>2. RoundsOver /\ StatisticsOver /\ WorkerOver /\ ClosedLast
    BY DEF Init, RoundsOver, StatisticsOver, WorkerOver, ClosedLast
  <1> QED
    BY <1>1, <1>2 DEF IInv

\* Every step keeps the types; a claim takes no more rows than there are.
LEMMA TypeStep ==
    ASSUME IInv, [Next]_vars
    PROVE  TypeOK'
  <1>0. TypeOK
    BY DEF IInv
  <1>1. CASE Start
    <2>1. healthy' \in BOOLEAN
      BY <1>1 DEF Start
    <2>2. worker \notin {"posting", "marking"}
      BY <1>1 DEF Start, IInv, WorkerOver
    <2> QED
      BY <1>0, <1>1, <2>1, <2>2
          DEF Start, TypeOK, Stages, scheduler, delivery, resources
  <1>2. CASE Signal
    BY ApplicationAssumption, <1>0, <1>2
        DEF Signal, TypeOK, Stages, scheduler, delivery, resources
  <1>3. CASE StartRound
    BY ApplicationAssumption, <1>0, <1>3
        DEF StartRound, TypeOK, Stages, scheduler, delivery, resources
  <1>4. CASE FinishProbing
    BY ApplicationAssumption, <1>0, <1>4
        DEF FinishProbing, TypeOK, Stages, scheduler, delivery, resources
  <1>5. CASE EnqueueReturns
    BY ApplicationAssumption, <1>0, <1>5
        DEF EnqueueReturns, TypeOK, Stages, scheduler, delivery, resources
  <1>6. CASE StartTick
    BY ApplicationAssumption, <1>0, <1>6
        DEF StartTick, TypeOK, Stages, scheduler, delivery, resources
  <1>7. CASE ClaimReturns
    BY ApplicationAssumption, <1>0, <1>7
        DEF ClaimReturns, Claimable, NextOf, TypeOK, Stages, scheduler, delivery,
            resources
  <1>8. CASE PostReturns
    BY ApplicationAssumption, <1>0, <1>8
        DEF PostReturns, TypeOK, Stages, scheduler, delivery, resources
  <1>9. CASE MarkReturns
    BY ApplicationAssumption, <1>0, <1>9
        DEF MarkReturns, NextOf, TypeOK, Stages, scheduler, delivery, resources
  <1>10. CASE TickFails
    BY ApplicationAssumption, <1>0, <1>10
        DEF TickFails, Claimable, TypeOK, Stages, scheduler, delivery, resources
  <1>11. CASE WorkerEnds
    BY ApplicationAssumption, <1>0, <1>11
        DEF WorkerEnds, TypeOK, Stages, scheduler, delivery, resources
  <1>12. CASE PublishStatistics
    BY ApplicationAssumption, <1>0, <1>12
        DEF PublishStatistics, TypeOK, Stages, scheduler, delivery, resources
  <1>13. CASE SchedulerEnds
    BY ApplicationAssumption, <1>0, <1>13
        DEF SchedulerEnds, TypeOK, Stages, scheduler, delivery, resources
  <1>14. CASE StatisticsEnd
    BY ApplicationAssumption, <1>0, <1>14
        DEF StatisticsEnd, TypeOK, Stages, scheduler, delivery, resources
  <1>15. CASE WorkerStopped
    BY ApplicationAssumption, <1>0, <1>15
        DEF WorkerStopped, WorkerAwaited, TypeOK, Stages, scheduler, delivery,
            resources
  <1>16. CASE Close
    BY ApplicationAssumption, <1>0, <1>16
        DEF Close, TypeOK, Stages, scheduler, delivery, resources
  <1>17. CASE UNCHANGED vars
    BY ApplicationAssumption, <1>0, <1>17
        DEF vars, TypeOK, Stages, scheduler, delivery, resources
  <1> QED
    BY <1>1, <1>2, <1>3, <1>4, <1>5, <1>6, <1>7, <1>8, <1>9, <1>10, <1>11, <1>12,
       <1>13, <1>14, <1>15, <1>16, <1>17
        DEF Next, Scheduler, Worker, Shutdown

\* Every step keeps what is over, over.
LEMMA OverStep ==
    ASSUME IInv, [Next]_vars
    PROVE  (RoundsOver /\ StatisticsOver /\ WorkerOver /\ ClosedLast)'
  <1>1. CASE Start
    BY <1>1 DEF Start, IInv, TypeOK, RoundsOver, StatisticsOver, WorkerOver,
        ClosedLast, scheduler, delivery, resources
  <1>2. CASE Signal
    BY <1>2 DEF Signal, IInv, TypeOK, RoundsOver, StatisticsOver, WorkerOver,
        ClosedLast, scheduler, delivery, resources
  <1>3. CASE StartRound
    BY <1>3 DEF StartRound, IInv, TypeOK, RoundsOver, StatisticsOver, WorkerOver,
        ClosedLast, scheduler, delivery, resources
  <1>4. CASE FinishProbing
    BY <1>4 DEF FinishProbing, IInv, TypeOK, RoundsOver, StatisticsOver, WorkerOver,
        ClosedLast, scheduler, delivery, resources
  <1>5. CASE EnqueueReturns
    BY <1>5 DEF EnqueueReturns, IInv, TypeOK, RoundsOver, StatisticsOver, WorkerOver,
        ClosedLast, scheduler, delivery, resources
  <1>6. CASE StartTick
    BY <1>6 DEF StartTick, IInv, TypeOK, RoundsOver, StatisticsOver, WorkerOver,
        ClosedLast, scheduler, delivery, resources
  <1>7. CASE ClaimReturns
    BY <1>7
        DEF ClaimReturns, Claimable, NextOf, IInv, TypeOK, RoundsOver, StatisticsOver,
            WorkerOver,
        ClosedLast, scheduler, delivery, resources
  <1>8. CASE PostReturns
    BY <1>8 DEF PostReturns, IInv, TypeOK, RoundsOver, StatisticsOver, WorkerOver,
        ClosedLast, scheduler, delivery, resources
  <1>9. CASE MarkReturns
    BY <1>9
        DEF MarkReturns, NextOf, IInv, TypeOK, RoundsOver, StatisticsOver, WorkerOver,
        ClosedLast, scheduler, delivery, resources
  <1>10. CASE TickFails
    BY <1>10
        DEF TickFails, Claimable, IInv, TypeOK, RoundsOver, StatisticsOver,
            WorkerOver,
        ClosedLast, scheduler, delivery, resources
  <1>11. CASE WorkerEnds
    BY <1>11 DEF WorkerEnds, IInv, TypeOK, RoundsOver, StatisticsOver, WorkerOver,
        ClosedLast, scheduler, delivery, resources
  <1>12. CASE PublishStatistics
    BY <1>12
        DEF PublishStatistics, IInv, TypeOK, RoundsOver, StatisticsOver, WorkerOver,
        ClosedLast, scheduler, delivery, resources
  <1>13. CASE SchedulerEnds
    BY <1>13 DEF SchedulerEnds, IInv, TypeOK, RoundsOver, StatisticsOver, WorkerOver,
        ClosedLast, scheduler, delivery, resources
  <1>14. CASE StatisticsEnd
    BY <1>14 DEF StatisticsEnd, IInv, TypeOK, RoundsOver, StatisticsOver, WorkerOver,
        ClosedLast, scheduler, delivery, resources
  <1>15. CASE WorkerStopped
    BY <1>15
        DEF WorkerStopped, WorkerAwaited, IInv, TypeOK, RoundsOver, StatisticsOver,
            WorkerOver,
        ClosedLast, scheduler, delivery, resources
  <1>16. CASE Close
    BY <1>16 DEF Close, IInv, TypeOK, RoundsOver, StatisticsOver, WorkerOver,
        ClosedLast, scheduler, delivery, resources
  <1>17. CASE UNCHANGED vars
    BY <1>17 DEF vars, IInv, TypeOK, RoundsOver, StatisticsOver, WorkerOver,
        ClosedLast, scheduler, delivery, resources
  <1> QED
    BY <1>1, <1>2, <1>3, <1>4, <1>5, <1>6, <1>7, <1>8, <1>9, <1>10, <1>11, <1>12,
       <1>13, <1>14, <1>15, <1>16, <1>17
        DEF Next, Scheduler, Worker, Shutdown

\* The invariant holds in every reachable state.
THEOREM Inductive == Spec => []IInv
  <1>1. IInv /\ [Next]_vars => IInv'
    BY TypeStep, OverStep DEF IInv
  <1> QED
    BY InitInv, <1>1, PTL DEF Spec

\* The types of the application's state.
THEOREM TypeCorrect == Spec => []TypeOK
  <1>1. IInv => TypeOK
    BY DEF IInv
  <1> QED
    BY Inductive, <1>1, PTL

\* What shutdown closes is in nobody's hands (app.py:124-152).
THEOREM ClosedIsUnused == Spec => []NothingAfterClose
  <1>1. IInv => NothingAfterClose
    BY DEF IInv, RoundsOver, StatisticsOver, WorkerOver, ClosedLast, NothingAfterClose
  <1> QED
    BY Inductive, <1>1, PTL

\* After the database is closed the gauge stays down (app.py:150-152, 195-213).
THEOREM ClosedStaysUnhealthy == Spec => ClosedIsUnhealthy
  <1>1. IInv /\ [Next]_vars => [database = "closed" => healthy' = FALSE]_vars
    <2> SUFFICES ASSUME IInv, Next, database = "closed"
                 PROVE  healthy' = FALSE
      OBVIOUS
    <2>1. stage = "exited" /\ healthy = FALSE /\ statistics = "over"
      BY DEF IInv, ClosedLast, StatisticsOver, TypeOK
    <2> QED
      BY <2>1
          DEF Next, Start, Signal, Scheduler, StartRound, FinishProbing, EnqueueReturns,
              Worker, StartTick, ClaimReturns, PostReturns, MarkReturns, TickFails,
              WorkerEnds, PublishStatistics, Shutdown, SchedulerEnds, StatisticsEnd,
              WorkerStopped, WorkerAwaited, Close
  <1> QED
    BY Inductive, <1>1, PTL DEF Spec, ClosedIsUnhealthy
=============================================================================
