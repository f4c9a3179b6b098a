----------------------------- MODULE RetryPolicy -----------------------------
(***************************************************************************)
(* RetryPolicy.ExecuteAction: threads that run the synchronous retry loop  *)
(* of one shared policy.  The loop variables (retryCount, delay, the       *)
(* pending exception) are locals of each call; the policy object shares    *)
(* the strategy, whose FastFirstRetry property anyone may set at any time  *)
(* and which the loop reads anew before every pause.                       *)
(* An attempt is named by its number, and so is the exception it throws.   *)
(***************************************************************************)
EXTENDS RetryLoop

VARIABLES
  pc,          \* where each call is in the loop
  retryCount,  \* the local of ExecuteAction
  delay,       \* the local of ExecuteAction, after the extra check
  fastFirst,   \* RetryStrategy.FastFirstRetry, shared and settable
  notices,     \* calls of OnRetrying that returned
  result       \* what the caller got: how the call ended, from which attempt

vars == <<pc, retryCount, delay, fastFirst, attempts, notices, slept, result>>

Locations == {"idle", "func", "raise", "gate", "delay", "done"}
Kinds == {"none", "value", "error", "exhausted", "inner", "default", "subscriber"}

Init ==
  /\ pc = [e \in Executions |-> "idle"]
  /\ retryCount = [e \in Executions |-> 0]
  /\ delay = [e \in Executions |-> 0]
  /\ fastFirst \in BOOLEAN
  /\ attempts = [e \in Executions |-> 0]
  /\ notices = [e \in Executions |-> 0]
  /\ slept = [e \in Executions |-> [retry \in 1..RetryCount |-> 0]]
  /\ result = [e \in Executions |-> NoResult]

-----------------------------------------------------------------------------
(* Plausible mistakes in the loop; each replaces the definition it is      *)
(* named after to show that a property notices it.                         *)

Clamp_Dropped(d) == d
MustWait_SkipsTheSecond(e) == retryCount[e] > 2 \/ ~fastFirst
SubscriberThrows_CaughtByTheLoop(e) ==
  /\ pc[e] = "raise"
  /\ pc' = [pc EXCEPT ![e] = "gate"]
  /\ UNCHANGED <<retryCount, delay, fastFirst, attempts, notices, slept,
                 result>>

-----------------------------------------------------------------------------
(* The steps of the loop.                                                  *)

\* The ShouldRetry handlers allow a retry below the count, and never after.
RetryAllowed(currentRetryCount) == currentRetryCount < RetryCount

\* The extra check in the delay interval.
Clamp(d) == IF d < 0 THEN 0 ELSE d

\* The loop pauses before every retry but a fast first one.
MustWait(e) == retryCount[e] > 1 \/ ~fastFirst

InvokeFunc(e) ==
  /\ pc' = [pc EXCEPT ![e] = "func"]
  /\ attempts' = [attempts EXCEPT ![e] = @ + 1]

Return(e, kind) ==
  /\ pc' = [pc EXCEPT ![e] = "done"]
  /\ result' = [result EXCEPT ![e] = [kind |-> kind, attempt |-> attempts[e]]]

ExecuteAction(e) ==
  /\ pc[e] = "idle"
  /\ InvokeFunc(e)
  /\ UNCHANGED <<retryCount, delay, fastFirst, notices, slept, result>>

FuncReturns(e) ==
  /\ pc[e] = "func"
  /\ Return(e, "value")
  /\ UNCHANGED <<retryCount, delay, fastFirst, attempts, notices, slept>>

\* func throws RetryLimitExceededException, with or without an inner exception.
FuncThrowsRetryLimitExceeded(e) ==
  /\ pc[e] = "func"
  /\ \E kind \in {"inner", "default"} : Return(e, kind)
  /\ UNCHANGED <<retryCount, delay, fastFirst, attempts, notices, slept>>

FuncThrowsNonTransient(e) ==
  /\ pc[e] = "func"
  /\ Return(e, "error")
  /\ UNCHANGED <<retryCount, delay, fastFirst, attempts, notices, slept>>

FuncThrowsTransient(e) ==
  /\ pc[e] = "func"
  /\ retryCount' = [retryCount EXCEPT ![e] = @ + 1]
  /\ \/ /\ RetryAllowed(retryCount[e])
        /\ \E d \in Delays[retryCount[e]] : delay' = [delay EXCEPT ![e] = Clamp(d)]
        /\ pc' = [pc EXCEPT ![e] = "raise"]
        /\ UNCHANGED result
     \/ /\ ~RetryAllowed(retryCount[e])
        /\ Return(e, "exhausted")
        /\ UNCHANGED delay
  /\ UNCHANGED <<fastFirst, attempts, notices, slept>>

\* OnRetrying runs outside the try: what a subscriber throws leaves the loop.
OnRetrying(e) ==
  /\ pc[e] = "raise"
  /\ notices' = [notices EXCEPT ![e] = @ + 1]
  /\ pc' = [pc EXCEPT ![e] = "gate"]
  /\ UNCHANGED <<retryCount, delay, fastFirst, attempts, slept, result>>

SubscriberThrows(e) ==
  /\ pc[e] = "raise"
  /\ Return(e, "subscriber")
  /\ UNCHANGED <<retryCount, delay, fastFirst, attempts, notices, slept>>

Pause(e) ==
  /\ pc[e] = "gate"
  /\ MustWait(e)
  /\ pc' = [pc EXCEPT ![e] = "delay"]
  /\ UNCHANGED <<retryCount, delay, fastFirst, attempts, notices, slept,
                 result>>

RetryAtOnce(e) ==
  /\ pc[e] = "gate"
  /\ ~MustWait(e)
  /\ InvokeFunc(e)
  /\ UNCHANGED <<retryCount, delay, fastFirst, notices, slept, result>>

\* Task.Delay(delay).Wait(): a delay of -1 would never elapse.
DelayElapses(e) ==
  /\ pc[e] = "delay"
  /\ delay[e] >= 0
  /\ slept' = [slept EXCEPT ![e][retryCount[e]] = delay[e]]
  /\ InvokeFunc(e)
  /\ UNCHANGED <<retryCount, delay, fastFirst, notices, result>>

\* The setter of RetryStrategy.FastFirstRetry, from any thread.
SetFastFirstRetry ==
  /\ fastFirst' = ~fastFirst
  /\ UNCHANGED <<pc, retryCount, delay, attempts, notices, slept, result>>

LoopStep(e) ==
  \/ FuncReturns(e)
  \/ FuncThrowsRetryLimitExceeded(e)
  \/ FuncThrowsNonTransient(e)
  \/ FuncThrowsTransient(e)
  \/ OnRetrying(e)
  \/ SubscriberThrows(e)
  \/ Pause(e)
  \/ RetryAtOnce(e)
  \/ DelayElapses(e)

Next ==
  \/ \E e \in Executions : ExecuteAction(e) \/ LoopStep(e)
  \/ SetFastFirstRetry

(***************************************************************************)
(* The thread of a started call keeps running: func and the subscribers    *)
(* return or throw, and a delay of at least 0 elapses.                     *)
(***************************************************************************)
Spec == Init /\ [][Next]_vars /\ \A e \in Executions : WF_vars(LoopStep(e))

-----------------------------------------------------------------------------
(* Properties; those of both loops are in RetryLoop.                       *)

TypeOK ==
  /\ pc \in [Executions -> Locations]
  /\ retryCount \in [Executions -> Nat]
  /\ delay \in [Executions -> Nat]
  /\ fastFirst \in BOOLEAN
  /\ attempts \in [Executions -> Nat]
  /\ notices \in [Executions -> Nat]
  /\ slept \in [Executions -> Pauses]
  /\ result \in [Executions -> [kind : Kinds, attempt : Nat]]

(***************************************************************************)
(* A transient error reaches the caller only after the whole budget was    *)
(* spent, and it is the error of the last attempt.                         *)
(***************************************************************************)
NeverGivesUpEarly ==
  \A e \in Executions :
    result[e].kind = "exhausted" => result[e].attempt = RetryCount + 1

(***************************************************************************)
(* By the time an attempt runs, Retrying has been raised exactly once for  *)
(* each failed attempt before it: what TransactionRetryScope (new scope)   *)
(* and RetryDelegatingHandler (dispose the response) rely on.              *)
(***************************************************************************)
EveryRetryAnnounced ==
  \A e \in Executions : pc[e] = "func" => notices[e] + 1 = attempts[e]

(***************************************************************************)
(* The loop implements the abstract promise to the caller: an attempt is   *)
(* under way until its failure has been announced, then the call backs off.*)
(***************************************************************************)
StatusOf(location) ==
  CASE location = "idle" -> "ready"
    [] location \in {"func", "raise"} -> "running"
    [] location \in {"gate", "delay"} -> "backoff"
    [] location = "done" -> "done"

EndingOf(kind) ==
  CASE kind = "none" -> "none"
    [] kind = "value" -> "success"
    [] kind \in {"error", "inner", "default"} -> "fatal"
    [] kind = "exhausted" -> "exhausted"
    [] kind = "subscriber" -> "withdrawn"

Promise ==
  INSTANCE RetryExecution WITH
    status <- [e \in Executions |-> StatusOf(pc[e])],
    ending <- [e \in Executions |-> EndingOf(result[e].kind)]

KeepsPromise == Promise!Spec
=============================================================================
