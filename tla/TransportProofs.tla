--------------------------- MODULE TransportProofs ----------------------------
(***************************************************************************)
(* Proofs about Transport, for any set of status codes and any number of   *)
(* attempts: the bound on the POSTs, the evidence of a refusal, and that   *)
(* every step of the loop is one the outbox worker's contract allows.      *)
(* (That a call ends, the contract's liveness, is checked by TLC.)         *)
(*                                                                         *)
(* The invariant is what the loop knows at each of its stages: as long as  *)
(* it runs, every answer so far was one it may try again.                  *)
(***************************************************************************)
EXTENDS Transport, TLAPS

Answers == Code \cup {NoCode}

AllTransient(n) == \A i \in 1..n : answers[i] \in Transient

Types ==
    /\ stage \in {"start", "post", "backoff", "done"}
    /\ answers \in Seq(Answers)
    /\ reached \in BOOLEAN

\* What is known while the call runs,
Running ==
    stage # "done" =>
        /\ outcome = "none"
        /\ AllTransient(Len(answers))
        /\ Len(answers) <= MaxAttempts
        /\ stage = "start" => answers = <<>> /\ ~reached
        /\ stage = "post" => Len(answers) < MaxAttempts
        /\ stage = "backoff" => answers # <<>>

\* and of each of its ends.
Done ==
    stage = "done" =>
        /\ Len(answers) <= MaxAttempts
        /\ \/ /\ outcome = "success" /\ reached
              /\ answers # <<>> /\ AllTransient(Len(answers) - 1)
           \/ /\ outcome = "failed"
              /\ answers # <<>> /\ AllTransient(Len(answers) - 1)
              /\ Last \notin Transient \cup 200..299
           \/ /\ outcome = "placeholder"
              /\ kind = "webhook" /\ token = "placeholder" /\ answers = <<>>
           \/ /\ outcome = "error"
              /\ AllTransient(Len(answers))
           \/ /\ outcome = "retries_exhausted"
              /\ AllTransient(Len(answers)) /\ Len(answers) = MaxAttempts

IInv == Types /\ Running /\ Done
-----------------------------------------------------------------------------
\* _should_retry, and what is neither retried nor a success.
LEMMA RetryIsTransient ==
    ASSUME NEW code \in Answers
    PROVE  /\ ShouldRetry(code) <=> code \in Transient
           /\ Success(code) => code \notin Transient
           /\ ~Success(code) => code \notin 200..299
  <1>1. CASE code = NoCode
    BY <1>1, TransportAssumption DEF ShouldRetry, Success, Transient
  <1>2. CASE code \in Code
    <2>1. code \in 100..599 /\ code # NoCode
      BY <1>2, TransportAssumption
    <2> QED
      BY <2>1 DEF ShouldRetry, Success, Transient
  <1> QED
    BY <1>1, <1>2 DEF Answers

\* The call begins without an answer.
LEMMA InitInv == Init => IInv
  <1> SUFFICES ASSUME Init PROVE IInv
    OBVIOUS
  <1>1. answers = <<>> /\ Len(answers) = 0
    BY DEF Init
  <1>2. Types
    <2>1. answers \in Seq(Answers)
      BY DEF Init
    <2>2. stage \in {"start", "post", "backoff", "done"} /\ reached \in BOOLEAN
      BY DEF Init
    <2> QED
      BY <2>1, <2>2 DEF Types
  <1>3. Running /\ Done
    BY <1>1, TransportAssumption DEF Init, Running, Done, AllTransient
  <1> QED
    BY <1>2, <1>3 DEF IInv

\* One more answer.
LEMMA PostStep ==
    ASSUME IInv, Post
    PROVE  IInv'
  <1>1. PICK code \in Answers :
            /\ answers' = Append(answers, code)
            /\ reached' \in IF Success(code) THEN {TRUE} ELSE {reached, TRUE}
            /\ React(code)
    BY DEF Post, Answers
  <1>2. /\ stage = "post" /\ outcome = "none" /\ Len(answers) < MaxAttempts
        /\ AllTransient(Len(answers)) /\ answers \in Seq(Answers) /\ reached \in BOOLEAN
    BY DEF Post, IInv, Types, Running
  <1>3. /\ answers' \in Seq(Answers) /\ Len(answers') = Len(answers) + 1
        /\ Len(answers) \in Nat /\ answers' # <<>>
        /\ answers'[Len(answers')] = code
        /\ \A i \in 1..Len(answers) : answers'[i] = answers[i]
    BY <1>1, <1>2
  <1>4. Len(answers') <= MaxAttempts /\ reached' \in BOOLEAN
    <2>1. Len(answers') <= MaxAttempts
      BY <1>2, <1>3, TransportAssumption
    <2>2. reached' \in BOOLEAN
      BY <1>1, <1>2
    <2> QED
      BY <2>1, <2>2
  <1>5. AllTransient(Len(answers) - 1)' /\ \A i \in 1..Len(answers) : answers'[i] \in Transient
    BY <1>2, <1>3 DEF AllTransient
  <1>6. CASE Success(code)
    BY <1>1, <1>3, <1>4, <1>5, <1>6
        DEF React, End, IInv, Types, Running, Done, AllTransient
  <1>7. CASE ~Success(code) /\ ~ShouldRetry(code)
    <2>1. Last' \notin Transient \cup 200..299
      BY <1>3, <1>7, RetryIsTransient DEF Last
    <2> QED
      BY <1>1, <1>3, <1>4, <1>5, <1>7, <2>1
          DEF React, End, IInv, Types, Running, Done, AllTransient
  <1>8. CASE ~Success(code) /\ ShouldRetry(code)
    <2>1. AllTransient(Len(answers))'
      <3>1. code \in Transient
        BY <1>8, RetryIsTransient
      <3>2. \A i \in 1..Len(answers') : i \in 1..Len(answers) \/ i = Len(answers')
        BY <1>3
      <3> QED
        BY <1>3, <1>5, <3>1, <3>2 DEF AllTransient
    <2> QED
      BY <1>1, <1>2, <1>3, <1>4, <1>8, <2>1 DEF React, IInv, Types, Running, Done
  <1> QED
    BY <1>6, <1>7, <1>8

\* Every step of the loop keeps what it knows.
LEMMA StepInv ==
    ASSUME IInv, [Next]_vars
    PROVE  IInv'
  <1>1. CASE Start
    BY <1>1, TransportAssumption
        DEF Start, End, IInv, Types, Running, Done, AllTransient
  <1>2. CASE Post
    BY <1>2, PostStep
  <1>3. CASE PostRaises
    BY <1>3 DEF PostRaises, End, IInv, Types, Running, Done, AllTransient
  <1>4. CASE BackoffOver
    <2>1. Len(answers) \in Nat
      BY DEF IInv, Types
    <2> QED
      BY <1>4, <2>1, TransportAssumption
          DEF BackoffOver, AttemptsLeft, End, IInv, Types, Running, Done, AllTransient
  <1>5. CASE UNCHANGED vars
    BY <1>5 DEF vars, IInv, Types, Running, Done, AllTransient, Last
  <1> QED
    BY <1>1, <1>2, <1>3, <1>4, <1>5 DEF Next

\* The invariant holds in every reachable state.
THEOREM Inductive == Spec => []IInv
  BY InitInv, StepInv, PTL DEF Spec

\* An alert is refused on the evidence of its last answer or for its token.
THEOREM RefusalsHaveEvidence == Spec => []RefusedOnEvidence
  <1>1. IInv => RefusedOnEvidence
    <2> SUFFICES ASSUME IInv, WorkerVerdict = "refused"
                 PROVE  RefusedOnEvidence
      BY DEF RefusedOnEvidence
    <2>1. stage = "done" /\ outcome \in {"failed", "placeholder"}
      BY DEF IInv, Types, Running, Done, WorkerVerdict
    <2> QED
      BY <2>1 DEF IInv, Done, RefusedOnEvidence
  <1> QED
    BY Inductive, <1>1, PTL

\* At most max_attempts POSTs, and "exhausted" only after the last of them.
THEOREM PostsAreBounded == Spec => []PostsBounded
  <1>1. IInv => PostsBounded
    <2> SUFFICES ASSUME IInv PROVE PostsBounded
      OBVIOUS
    <2>1. Len(answers) \in Nat
      BY DEF IInv, Types
    <2>2. outcome = "retries_exhausted" => stage = "done"
      BY DEF IInv, Running
    <2>3. CASE stage # "done"
      BY <2>1, <2>2, <2>3 DEF IInv, Running, AllTransient, PostsBounded
    <2>4. CASE stage = "done"
      <3>1. \A i \in 1..Len(answers) - 1 : answers[i] \in Transient
        BY <2>1, <2>4 DEF IInv, Done, AllTransient
      <3>2. outcome = "retries_exhausted" => Len(answers) = MaxAttempts /\ Last \in Transient
        BY <2>1, <2>4, TransportAssumption DEF IInv, Done, AllTransient, Last
      <3> QED
        BY <2>4, <3>1, <3>2 DEF IInv, Done, PostsBounded
    <2> QED
      BY <2>3, <2>4
  <1> QED
    BY Inductive, <1>1, PTL

\* Seen from the worker, a call starts as the contract says and every step of
\* it is a step of the contract or none.
THEOREM StepsMeetContract ==
    Spec => /\ Contract!Init
            /\ [][Contract!Next]_<<WorkerVerdict, reached /\ outcome # "none">>
  <1>1. Init => Contract!Init
    BY DEF Init, Contract!Init, WorkerVerdict
  <1>2. IInv /\ IInv' /\ [Next]_vars =>
          [Contract!Next]_<<WorkerVerdict, reached /\ outcome # "none">>
    <2> SUFFICES ASSUME IInv, IInv', [Next]_vars
                 PROVE  [Contract!Next]_<<WorkerVerdict, reached /\ outcome # "none">>
      OBVIOUS
    <2>1. CASE stage = "done" \/ outcome' = outcome
      <3>1. outcome' = outcome /\ (reached' = reached \/ outcome = "none")
        BY <2>1 DEF Next, Start, Post, PostRaises, BackoffOver, vars, IInv, Running
      <3> QED
        BY <3>1 DEF WorkerVerdict
    <2>2. CASE stage # "done" /\ outcome' # outcome
      <3>1. outcome = "none" /\ stage' = "done" /\ Done'
        BY <2>2
            DEF Next, Start, Post, PostRaises, BackoffOver, React, End, vars, IInv,
            Running
      <3>2. WorkerVerdict = "posting"
        BY <3>1 DEF WorkerVerdict
      <3>3. /\ WorkerVerdict' \in {"accepted", "refused", "exhausted"}
            /\ WorkerVerdict' = "accepted" => reached'
        BY <3>1 DEF Done, WorkerVerdict
      <3>4. (reached' /\ outcome' # "none") \in BOOLEAN
        OBVIOUS
      <3>5. WorkerVerdict' = "accepted" => (reached' /\ outcome' # "none") = TRUE
        BY <3>3 DEF WorkerVerdict
      <3>6. Contract!Answer(WorkerVerdict')
        BY <3>2, <3>4, <3>5 DEF Contract!Answer
      <3> QED
        BY <3>3, <3>6 DEF Contract!Next
    <2> QED
      BY <2>1, <2>2
  <1> QED
    BY Inductive, <1>1, <1>2, PTL DEF Spec
=============================================================================
