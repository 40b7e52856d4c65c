------------------------------ MODULE Transport -------------------------------
(***************************************************************************)
(* One transport.send call (notifications.py): at most MaxAttempts POSTs,  *)
(* with a back-off after each one that may be retried.  WebhookNotifier    *)
(* and CuckooNotifier run the same loop; only the webhook looks at a token *)
(* first.                                                                  *)
(*                                                                         *)
(* config.py rejects max_backoff_seconds below 1, so _compute_backoff never*)
(* returns the negative delay that would leave the loop early, and bodies, *)
(* headers and the length of the delays are data.                          *)
(***************************************************************************)
EXTENDS Integers, Sequences

CONSTANTS
    Code,           \* HTTP status codes a receiver may answer with
    NoCode,         \* last_status is None: the POST raised httpx.HTTPError
    MaxAttempts     \* config max_attempts

ASSUME TransportAssumption ==
    Code \subseteq 100..599 /\ NoCode \notin Int /\ MaxAttempts \in Nat \ {0}

VARIABLES
    kind,       \* "webhook" or "cuckoo"
    token,      \* the token variable: "unset", "placeholder" or "real"
    stage,      \* where send is: "start", "post", "backoff" or "done"
    answers,    \* what every POST so far came back with
    outcome,    \* how send ended, "none" before
    reached     \* history: whether some POST reached the receiver and was kept

vars == <<kind, token, stage, answers, outcome, reached>>

Success(code) == code # NoCode /\ 200 <= code /\ code < 300

\* _should_retry
ShouldRetry(code) ==
    code = NoCode \/ code = 429 \/ code = 408 \/ (500 <= code /\ code < 600)

Init ==
    /\ kind \in {"webhook", "cuckoo"}
    /\ token \in {"unset", "placeholder", "real"}
    /\ stage = "start" /\ answers = <<>> /\ outcome = "none" /\ reached = FALSE

End(how) == stage' = "done" /\ outcome' = how

\* _build_headers: a webhook with a placeholder token posts nothing.
Start ==
    /\ stage = "start"
    /\ IF kind = "webhook" /\ token = "placeholder"
       THEN End("placeholder")
       ELSE stage' = "post" /\ UNCHANGED outcome
    /\ UNCHANGED <<kind, token, answers, reached>>

\* What the loop does with the answer to a POST.
React(code) ==
    IF Success(code) THEN End("success")
    ELSE IF ~ShouldRetry(code) THEN End("failed")
    ELSE stage' = "backoff" /\ UNCHANGED outcome

\* The receiver keeps what it answers 2xx; a POST that raised may have been
\* kept too, and so may one the receiver failed on after keeping it.
Post ==
    /\ stage = "post"
    /\ \E code \in Code \cup {NoCode} :
         /\ answers' = Append(answers, code)
         /\ reached' \in IF Success(code) THEN {TRUE} ELSE {reached, TRUE}
         /\ React(code)
    /\ UNCHANGED <<kind, token>>

\* The POST raises something else than httpx.HTTPError, which send does not
\* catch; the receiver may have kept it.
PostRaises ==
    /\ stage = "post"
    /\ End("error")
    /\ reached' \in {reached, TRUE}
    /\ UNCHANGED <<kind, token, answers>>

\* Mutant: one attempt more than configured.
AttemptsLeftOneMore == Len(answers) <= MaxAttempts

AttemptsLeft == Len(answers) < MaxAttempts

\* The delay is over: the next attempt, or RetriesExhausted after the last.
BackoffOver ==
    /\ stage = "backoff"
    /\ IF AttemptsLeft
       THEN stage' = "post" /\ UNCHANGED outcome
       ELSE End("retries_exhausted")
    /\ UNCHANGED <<kind, token, answers, reached>>

Next == Start \/ Post \/ PostRaises \/ BackoffOver

\* A POST runs under the client's timeout and a delay ends.
Spec == Init /\ [][Next]_vars /\ WF_vars(Next)

\* Mutant: RetriesExhausted is caught as the NotificationFailed it extends.
WorkerVerdictBySuperclass ==
    CASE outcome = "none"                             -> "posting"
      [] outcome = "success"                          -> "accepted"
      [] outcome \in {"failed", "placeholder", "retries_exhausted"} -> "refused"
      [] outcome = "error"                            -> "exhausted"

\* Mutant: an error nobody expected is taken for a success.
WorkerVerdictErrorPasses ==
    CASE outcome = "none"                             -> "posting"
      [] outcome \in {"success", "error"}             -> "accepted"
      [] outcome \in {"failed", "placeholder"}        -> "refused"
      [] outcome = "retries_exhausted"                -> "exhausted"

\* The except clauses of OutboxWorker._deliver, in their order.
WorkerVerdict ==
    CASE outcome = "none"                             -> "posting"
      [] outcome = "success"                          -> "accepted"
      [] outcome \in {"retries_exhausted", "error"}   -> "exhausted"
      [] outcome \in {"failed", "placeholder"}        -> "refused"
-----------------------------------------------------------------------------
(* Properties *)

(***************************************************************************)
(* An alert is given up only on the evidence of its last answer, an HTTP   *)
(* status outside the retryable ones, or for a placeholder token; what can *)
(* pass is always tried again by the worker (notifications.py:50-58 and    *)
(* the docstring of OutboxWorker).                                         *)
(***************************************************************************)
Last == answers[Len(answers)]

Transient == {NoCode, 408, 429} \cup 500..599

RefusedOnEvidence ==
    WorkerVerdict = "refused" =>
        \/ kind = "webhook" /\ token = "placeholder" /\ answers = <<>>
        \/ answers # <<>> /\ Last \notin Transient \cup 200..299

(***************************************************************************)
(* A call makes at most MaxAttempts POSTs, stops at the first answer that  *)
(* is final, and says its retries are exhausted only when they are.        *)
(***************************************************************************)
PostsBounded ==
    /\ Len(answers) <= MaxAttempts
    /\ \A i \in 1..Len(answers) - 1 : answers[i] \in Transient
    /\ outcome = "retries_exhausted" => Len(answers) = MaxAttempts /\ Last \in Transient

(***************************************************************************)
(* The loop implements what the outbox worker assumes of it.               *)
(***************************************************************************)
Contract == INSTANCE TransportContract WITH
                call <- WorkerVerdict,
                received <- reached /\ outcome # "none"

MeetsContract == Contract!Spec
=============================================================================
