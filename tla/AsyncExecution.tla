--------------------------- MODULE AsyncExecution ---------------------------
(***************************************************************************)
(* RetryPolicy.ExecuteAsync: each call builds an AsyncExecution, whose     *)
(* steps run on whatever thread starts the call, completes the user's task *)
(* or fires the delay, while another thread may cancel the token between   *)
(* any two of them.  A task is named by the number of the attempt that     *)
(* made it; 0 is no task.  The non-generic overload wraps the user's task  *)
(* (StartAsGenericTask): it turns a cold or missing task into an           *)
(* ArgumentException of the invocation, which is InvocationThrows below.   *)
(***************************************************************************)
EXTENDS RetryLoop

VARIABLES
  pc,            \* where each execution is
  retryCount,    \* _retryCount
  fastFirst,     \* _fastFirstRetry, captured when the call was made
  delay,         \* the delay of the pending retry
  verdict,       \* how the attempt under way ended; "pending" until it does
  previousTask,  \* _previousTask
  token,         \* the cancellation token, and how far the call had got when it was cancelled
  notices,       \* calls of _onRetrying that returned
  result         \* what the caller's task, or the call itself, ended with

vars == <<pc, retryCount, fastFirst, delay, verdict, previousTask, token,
          attempts, notices, slept, result>>

Locations == {"idle", "check", "invoke", "called", "running", "decide",
              "raise", "delay", "done"}
Verdicts == {"pending", "success", "canceled", "transient", "fatal", "quit"}
Kinds == {"none", "completed", "canceled", "faulted", "exhausted", "thrown",
          "misuse", "nullReference", "neverStarted", "stopped", "subscriber"}

NotCancelled == [cancelled |-> FALSE, at |-> "idle", attempts |-> 0, notices |-> 0]

Init ==
  /\ pc = [e \in Executions |-> "idle"]
  /\ retryCount = [e \in Executions |-> 0]
  /\ fastFirst \in [Executions -> BOOLEAN]
  /\ delay = [e \in Executions |-> 0]
  /\ verdict = [e \in Executions |-> "pending"]
  /\ previousTask = [e \in Executions |-> 0]
  /\ token = [e \in Executions |-> NotCancelled]
  /\ attempts = [e \in Executions |-> 0]
  /\ notices = [e \in Executions |-> 0]
  /\ slept = [e \in Executions |-> [retry \in 1..RetryCount |-> 0]]
  /\ result = [e \in Executions |-> NoResult]

-----------------------------------------------------------------------------
(* The pieces of the steps.                                                *)

RetryAllowed_OffByOne(currentRetryCount) == currentRetryCount <= RetryCount
RetryAllowed(currentRetryCount) == currentRetryCount < RetryCount

Clamp_Dropped(d) == d
Clamp(d) == IF d < 0 THEN 0 ELSE d

MustWait_SkipsTheSecond(e) == delay[e] > 0 /\ (retryCount[e] > 2 \/ ~fastFirst[e])
MustWait(e) == delay[e] > 0 /\ (retryCount[e] > 1 \/ ~fastFirst[e])

IsCancellationRequested(e) == token[e].cancelled

GoTo(e, location) == pc' = [pc EXCEPT ![e] = location]

Return(e, kind, task) ==
  /\ GoTo(e, "done")
  /\ result' = [result EXCEPT ![e] = [kind |-> kind, attempt |-> task]]

-----------------------------------------------------------------------------
(* ExecuteAsyncImpl.                                                       *)

ExecuteAsync(e) ==
  /\ pc[e] = "idle"
  /\ GoTo(e, "check")
  /\ UNCHANGED <<retryCount, fastFirst, delay, verdict, previousTask, token,
                 attempts, notices, slept, result>>

ProceedUnlessCancelled_Unchecked(e) ==
  /\ pc[e] = "check"
  /\ GoTo(e, "invoke")
  /\ UNCHANGED <<retryCount, fastFirst, delay, verdict, previousTask, token,
                 attempts, notices, slept, result>>

ProceedUnlessCancelled(e) ==
  /\ pc[e] = "check"
  /\ ~IsCancellationRequested(e)
  /\ GoTo(e, "invoke")
  /\ UNCHANGED <<retryCount, fastFirst, delay, verdict, previousTask, token,
                 attempts, notices, slept, result>>

\* Cancelled after a failure, the call ends with the failed task.
StopBeforeAttempt(e) ==
  /\ pc[e] = "check"
  /\ IsCancellationRequested(e)
  /\ IF previousTask[e] # 0
     THEN Return(e, "stopped", previousTask[e])
     ELSE Return(e, "neverStarted", 0)
  /\ UNCHANGED <<retryCount, fastFirst, delay, verdict, previousTask, token,
                 attempts, notices, slept>>

InvokeTaskFunc(e) ==
  /\ pc[e] = "invoke"
  /\ GoTo(e, "called")
  /\ attempts' = [attempts EXCEPT ![e] = @ + 1]
  /\ verdict' = [verdict EXCEPT ![e] = "pending"]
  /\ UNCHANGED <<retryCount, fastFirst, delay, previousTask, token, notices,
                 slept, result>>

\* The task is under way, or completed with anything but success.
FuncReturnsTask(e) ==
  /\ pc[e] = "called"
  /\ GoTo(e, "running")
  /\ UNCHANGED <<retryCount, fastFirst, delay, verdict, previousTask, token,
                 attempts, notices, slept, result>>

FuncReturnsCompletedTask(e) ==
  /\ pc[e] = "called"
  /\ verdict' = [verdict EXCEPT ![e] = "success"]
  /\ Return(e, "completed", attempts[e])
  /\ UNCHANGED <<retryCount, fastFirst, delay, previousTask, token, attempts,
                 notices, slept>>

\* InvalidOperationException for a task that was never started, and
\* NullReferenceException at the first use of a missing one.
FuncReturnsUnusableTask(e) ==
  /\ pc[e] = "called"
  /\ \E kind \in {"misuse", "nullReference"} : Return(e, kind, attempts[e])
  /\ UNCHANGED <<retryCount, fastFirst, delay, verdict, previousTask, token,
                 attempts, notices, slept>>

\* A transient exception of the invocation itself becomes a faulted task.
InvocationThrows(e) ==
  /\ pc[e] = "called"
  /\ \/ /\ verdict' = [verdict EXCEPT ![e] = "transient"]
        /\ GoTo(e, "decide")
        /\ UNCHANGED result
     \/ /\ verdict' = [verdict EXCEPT ![e] = "fatal"]
        /\ Return(e, "thrown", attempts[e])
  /\ UNCHANGED <<retryCount, fastFirst, delay, previousTask, token, attempts,
                 notices, slept>>

\* RetryLimitExceededException: its inner exception is thrown; without one
\* the local task stays null and its Status is read all the same.
InvocationThrowsRetryLimitExceeded(e) ==
  /\ pc[e] = "called"
  /\ verdict' = [verdict EXCEPT ![e] = "quit"]
  /\ \E kind \in {"thrown", "nullReference"} : Return(e, kind, attempts[e])
  /\ UNCHANGED <<retryCount, fastFirst, delay, previousTask, token, attempts,
                 notices, slept>>

-----------------------------------------------------------------------------
(* The user's task, and ExecuteAsyncContinueWith.                          *)

TaskEnds(e) ==
  /\ pc[e] = "running"
  /\ \E v \in Verdicts \ {"pending"} : verdict' = [verdict EXCEPT ![e] = v]
  /\ GoTo(e, "decide")
  /\ UNCHANGED <<retryCount, fastFirst, delay, previousTask, token, attempts,
                 notices, slept, result>>

ReturnUnfaulted(e) ==
  /\ pc[e] = "decide"
  /\ \/ verdict[e] = "success" /\ Return(e, "completed", attempts[e])
     \/ verdict[e] = "canceled" /\ Return(e, "canceled", attempts[e])
  /\ UNCHANGED <<retryCount, fastFirst, delay, verdict, previousTask, token,
                 attempts, notices, slept>>

ReturnFailure(e) ==
  /\ pc[e] = "decide"
  /\ \/ /\ verdict[e] = "transient"
        /\ IsCancellationRequested(e)
        /\ Return(e, "stopped", attempts[e])
     \/ /\ verdict[e] \in {"fatal", "quit"}
        /\ Return(e, "faulted", attempts[e])
  /\ UNCHANGED <<retryCount, fastFirst, delay, verdict, previousTask, token,
                 attempts, notices, slept>>

\* A transient failure, and nobody has cancelled: ask the strategy.
Consult(e) ==
  /\ pc[e] = "decide"
  /\ verdict[e] = "transient"
  /\ ~IsCancellationRequested(e)
  /\ retryCount' = [retryCount EXCEPT ![e] = @ + 1]
  /\ \/ /\ RetryAllowed(retryCount[e])
        /\ \E d \in Delays[retryCount[e]] : delay' = [delay EXCEPT ![e] = Clamp(d)]
        /\ GoTo(e, "raise")
        /\ UNCHANGED result
     \/ /\ ~RetryAllowed(retryCount[e])
        /\ Return(e, "exhausted", attempts[e])
        /\ UNCHANGED delay
  /\ UNCHANGED <<fastFirst, verdict, previousTask, token, attempts, notices,
                 slept>>

OnRetrying_ForgetsTheTask(e) ==
  /\ pc[e] = "raise"
  /\ notices' = [notices EXCEPT ![e] = @ + 1]
  /\ GoTo(e, IF MustWait(e) THEN "delay" ELSE "check")
  /\ UNCHANGED <<retryCount, fastFirst, delay, verdict, previousTask, token,
                 attempts, slept, result>>

OnRetrying(e) ==
  /\ pc[e] = "raise"
  /\ notices' = [notices EXCEPT ![e] = @ + 1]
  /\ previousTask' = [previousTask EXCEPT ![e] = attempts[e]]
  /\ GoTo(e, IF MustWait(e) THEN "delay" ELSE "check")
  /\ UNCHANGED <<retryCount, fastFirst, delay, verdict, token, attempts, slept,
                 result>>

\* What a subscriber throws faults the caller's task.
SubscriberThrows(e) ==
  /\ pc[e] = "raise"
  /\ Return(e, "subscriber", attempts[e])
  /\ UNCHANGED <<retryCount, fastFirst, delay, verdict, previousTask, token,
                 attempts, notices, slept>>

\* The delay does not observe the token.
DelayElapses(e) ==
  /\ pc[e] = "delay"
  /\ slept' = [slept EXCEPT ![e][retryCount[e]] = delay[e]]
  /\ GoTo(e, "check")
  /\ UNCHANGED <<retryCount, fastFirst, delay, verdict, previousTask, token,
                 attempts, notices, result>>

-----------------------------------------------------------------------------

\* The owner of the token cancels it, from any thread, at any time.
Cancel(e) ==
  /\ ~token[e].cancelled
  /\ pc[e] # "done"
  /\ token' = [token EXCEPT ![e] = [cancelled |-> TRUE, at |-> pc[e],
                                    attempts |-> attempts[e], notices |-> notices[e]]]
  /\ UNCHANGED <<pc, retryCount, fastFirst, delay, verdict, previousTask,
                 attempts, notices, slept, result>>

ExecutionStep(e) ==
  \/ ProceedUnlessCancelled(e)
  \/ StopBeforeAttempt(e)
  \/ InvokeTaskFunc(e)
  \/ FuncReturnsTask(e)
  \/ FuncReturnsCompletedTask(e)
  \/ FuncReturnsUnusableTask(e)
  \/ InvocationThrows(e)
  \/ InvocationThrowsRetryLimitExceeded(e)
  \/ TaskEnds(e)
  \/ ReturnUnfaulted(e)
  \/ ReturnFailure(e)
  \/ Consult(e)
  \/ OnRetrying(e)
  \/ SubscriberThrows(e)
  \/ DelayElapses(e)

Next == \E e \in Executions : ExecuteAsync(e) \/ ExecutionStep(e) \/ Cancel(e)

(***************************************************************************)
(* The scheduler runs every continuation, timers fire, and the user's task *)
(* ends; nothing forces a caller to start or a token to be cancelled.      *)
(***************************************************************************)
Spec == Init /\ [][Next]_vars /\ \A e \in Executions : WF_vars(ExecutionStep(e))

-----------------------------------------------------------------------------
(* Properties; those of both loops are in RetryLoop.                       *)

TypeOK ==
  /\ pc \in [Executions -> Locations]
  /\ retryCount \in [Executions -> Nat]
  /\ fastFirst \in [Executions -> BOOLEAN]
  /\ delay \in [Executions -> Nat]
  /\ verdict \in [Executions -> Verdicts]
  /\ previousTask \in [Executions -> Nat]
  /\ token \in [Executions -> [cancelled : BOOLEAN, at : Locations,
                               attempts : Nat, notices : Nat]]
  /\ attempts \in [Executions -> Nat]
  /\ notices \in [Executions -> Nat]
  /\ slept \in [Executions -> Pauses]
  /\ result \in [Executions -> [kind : Kinds, attempt : Nat]]

(***************************************************************************)
(* Cancelling stops the retrying, whether the token is cancelled while a   *)
(* task runs, during the notice or during the delay: of the attempts, only *)
(* one whose check of the token had already passed may still begin, and no *)
(* subscriber hears of a retry that will not happen, save of the one that  *)
(* is being announced.                                                     *)
(***************************************************************************)
CancellationStopsRetrying ==
  \A e \in Executions : token[e].cancelled =>
    /\ attempts[e] <= token[e].attempts + (IF token[e].at = "invoke" THEN 1 ELSE 0)
    /\ notices[e] <= token[e].notices + (IF token[e].at = "raise" THEN 1 ELSE 0)

(***************************************************************************)
(* The caller learns the outcome of the last attempt made: a call stopped  *)
(* by its token after a failure ends with that failure, and only a call    *)
(* that never made an attempt ends as a bare cancellation.                 *)
(***************************************************************************)
LastFailureSurvives ==
  \A e \in Executions : pc[e] = "done" => result[e].attempt = attempts[e]

(***************************************************************************)
(* The asynchronous loop implements the same abstract promise as the       *)
(* synchronous one.                                                        *)
(***************************************************************************)
StatusOf(location, begun) ==
  CASE location \in {"idle", "check", "invoke"} /\ begun = 0 -> "ready"
    [] location \in {"called", "running", "decide", "raise"} -> "running"
    [] location \in {"check", "invoke", "delay"} /\ begun > 0 -> "backoff"
    [] location = "done" -> "done"

EndingOf(kind) ==
  CASE kind = "none" -> "none"
    [] kind = "completed" -> "success"
    [] kind \in {"canceled", "faulted", "thrown", "misuse", "nullReference"} -> "fatal"
    [] kind = "exhausted" -> "exhausted"
    [] kind \in {"neverStarted", "stopped", "subscriber"} -> "withdrawn"

Promise ==
  INSTANCE RetryExecution WITH
    status <- [e \in Executions |-> StatusOf(pc[e], attempts[e])],
    ending <- [e \in Executions |-> EndingOf(result[e].kind)]

KeepsPromise == Promise!Spec
=============================================================================
