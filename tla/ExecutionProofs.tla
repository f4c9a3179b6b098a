--------------------------- MODULE ExecutionProofs ---------------------------
(***************************************************************************)
(* Theorems about the two loops of a policy, for every set of calls, every *)
(* budget and every strategy: the attempt bound, the pauses, whose outcome *)
(* the caller gets, what cancellation stops, and that both loops implement *)
(* the same promise.  First the asynchronous loop; then the synchronous    *)
(* one, whose variables have the same names, as the instance Sync.  What   *)
(* RetryLoop says of calls is the same formula about either.               *)
(***************************************************************************)
EXTENDS AsyncExecution, TLAPS

Sync == INSTANCE RetryPolicy

-----------------------------------------------------------------------------
(***************************************************************************)
(* The asynchronous loop.                                                  *)
(***************************************************************************)

\* The counters of one execution at each point.
Counters(e) ==
  /\ pc[e] = "idle" => attempts[e] = 0 /\ retryCount[e] = 0
  /\ pc[e] \in {"idle", "check", "invoke", "delay"} =>
       /\ attempts[e] = retryCount[e]
       /\ previousTask[e] = attempts[e]
       /\ retryCount[e] <= RetryCount
  /\ pc[e] \in {"called", "running", "decide"} =>
       /\ attempts[e] = retryCount[e] + 1
       /\ retryCount[e] <= RetryCount
  /\ pc[e] = "raise" =>
       /\ attempts[e] = retryCount[e]
       /\ retryCount[e] <= RetryCount
  /\ pc[e] \in {"raise", "delay"} => attempts[e] > 0
  /\ pc[e] = "done" => attempts[e] <= RetryCount + 1

\* An execution that was cancelled is past its check of the token only if it
\* was when the token was cancelled.
Cancellation(e) ==
  token[e].cancelled =>
    /\ attempts[e] <= token[e].attempts + (IF token[e].at = "invoke" THEN 1 ELSE 0)
    /\ notices[e] <= token[e].notices + (IF token[e].at = "raise" THEN 1 ELSE 0)
    /\ pc[e] = "invoke" => token[e].at = "invoke" /\ attempts[e] = token[e].attempts
    /\ pc[e] = "raise" => token[e].at = "raise" /\ notices[e] = token[e].notices

Results(e) ==
  /\ pc[e] = "done" <=> result[e].kind # "none"
  /\ pc[e] = "done" => result[e].attempt = attempts[e]
  /\ result[e].kind = "exhausted" => result[e].attempt = RetryCount + 1

Ind(e) == Counters(e) /\ Cancellation(e) /\ Results(e)

IInv == TypeOK /\ \A e \in Executions : Ind(e)

(***************************************************************************)
(* The extra check leaves a delay that is not negative.                    *)
(***************************************************************************)
LEMMA ClampIsWaitable == ASSUME NEW d \in Int PROVE Clamp(d) \in Nat
BY DEF Clamp

(***************************************************************************)
(* Returning an attempt's outcome keeps the types of what it assigns.      *)
(***************************************************************************)
LEMMA ReturnType ==
  ASSUME TypeOK, NEW e \in Executions, NEW kind \in Kinds, NEW task \in Nat,
         Return(e, kind, task)
  PROVE  /\ pc' \in [Executions -> Locations]
         /\ result' \in [Executions -> [kind : Kinds, attempt : Nat]]
<1>1. [kind |-> kind, attempt |-> task] \in [kind : Kinds, attempt : Nat]
  OBVIOUS
<1> QED
  BY <1>1 DEF TypeOK, Return, GoTo, Locations

(***************************************************************************)
(* A refused retry means that the budget is spent.                         *)
(***************************************************************************)
LEMMA RefusedIsSpent ==
  ASSUME IInv, NEW e \in Executions, pc[e] = "decide", ~RetryAllowed(retryCount[e])
  PROVE  attempts[e] = RetryCount + 1
<1>1. retryCount[e] \in Nat /\ attempts[e] = retryCount[e] + 1 /\ retryCount[e] <= RetryCount
  BY DEF IInv, Ind, TypeOK, Counters
<1>2. ~(retryCount[e] < RetryCount)
  BY DEF RetryAllowed
<1> QED
  BY <1>1, <1>2, RetryCountAssumption

(***************************************************************************)
(* The invariant holds before any call of ExecuteAsync.                    *)
(***************************************************************************)
LEMMA InitIInv == Init => IInv
<1>1. [retry \in 1..RetryCount |-> 0] \in Pauses
  BY DEF Pauses
<1> QED
  BY <1>1, RetryCountAssumption
  DEF Init, IInv, Ind, TypeOK, Counters, Cancellation, Results, NoResult,
      NotCancelled, Locations, Verdicts, Kinds

(***************************************************************************)
(* A pause is recorded with the retry that it comes before.                *)
(***************************************************************************)
LEMMA PauseRecorded ==
  ASSUME TypeOK, NEW e \in Executions, DelayElapses(e), retryCount[e] \in 1..RetryCount
  PROVE  /\ slept' \in [Executions -> Pauses]
         /\ slept'[e][retryCount[e]] = delay[e]
         /\ \A retry \in 1..RetryCount : retry # retryCount[e] => slept'[e][retry] = slept[e][retry]
         /\ \A f \in Executions \ {e} : slept'[f] = slept[f]
<1> DEFINE pauses == [slept[e] EXCEPT ![retryCount[e]] = delay[e]]
<1>1. slept \in [Executions -> Pauses] /\ slept[e] \in Pauses /\ delay[e] \in Nat
  BY DEF TypeOK
<1>2. /\ pauses \in Pauses
      /\ pauses[retryCount[e]] = delay[e]
      /\ \A retry \in 1..RetryCount : retry # retryCount[e] => pauses[retry] = slept[e][retry]
  BY <1>1 DEF Pauses
<1>3. slept' = [slept EXCEPT ![e] = pauses]
  BY DEF DelayElapses
<1> HIDE DEF pauses
<1> QED
  BY <1>1, <1>2, <1>3

(***************************************************************************)
(* Every step of an execution, and the cancellation of a token, keeps it.  *)
(***************************************************************************)
LEMMA NextIInv == IInv /\ [Next]_vars => IInv'
<1> SUFFICES ASSUME IInv, [Next]_vars PROVE IInv'
  OBVIOUS
<1> USE RetryCountAssumption
        DEF IInv, Ind, TypeOK, Counters, Cancellation, Results, Locations,
            Verdicts, Kinds, GoTo, Return, IsCancellationRequested
<1>1. ASSUME NEW e \in Executions, ExecuteAsync(e) PROVE IInv'
  BY <1>1 DEF ExecuteAsync
<1>2. ASSUME NEW e \in Executions, ProceedUnlessCancelled(e) PROVE IInv'
  BY <1>2 DEF ProceedUnlessCancelled
<1>3. ASSUME NEW e \in Executions, StopBeforeAttempt(e) PROVE IInv'
  <2>1. TypeOK'
    <3>1. PICK kind \in Kinds, task \in Nat : Return(e, kind, task)
      BY <1>3 DEF StopBeforeAttempt
    <3>2. /\ pc' \in [Executions -> Locations]
          /\ result' \in [Executions -> [kind : Kinds, attempt : Nat]]
      BY <3>1, ReturnType
    <3> QED
      BY <1>3, <3>2 DEF StopBeforeAttempt
  <2>2. Ind(e)'
    BY <1>3 DEF StopBeforeAttempt
  <2>3. ASSUME NEW f \in Executions \ {e} PROVE Ind(f)'
    BY <1>3 DEF StopBeforeAttempt
  <2> QED
    BY <2>1, <2>2, <2>3
<1>4. ASSUME NEW e \in Executions, InvokeTaskFunc(e) PROVE IInv'
  BY <1>4 DEF InvokeTaskFunc
<1>5. ASSUME NEW e \in Executions, FuncReturnsTask(e) PROVE IInv'
  BY <1>5 DEF FuncReturnsTask
<1>6. ASSUME NEW e \in Executions, FuncReturnsCompletedTask(e) PROVE IInv'
  <2>1. TypeOK'
    BY <1>6 DEF FuncReturnsCompletedTask
  <2>2. Ind(e)'
    BY <1>6 DEF FuncReturnsCompletedTask
  <2>3. ASSUME NEW f \in Executions \ {e} PROVE Ind(f)'
    BY <1>6 DEF FuncReturnsCompletedTask
  <2> QED
    BY <2>1, <2>2, <2>3
<1>7. ASSUME NEW e \in Executions, FuncReturnsUnusableTask(e) PROVE IInv'
  <2>1. TypeOK'
    BY <1>7 DEF FuncReturnsUnusableTask
  <2>2. Ind(e)'
    BY <1>7 DEF FuncReturnsUnusableTask
  <2>3. ASSUME NEW f \in Executions \ {e} PROVE Ind(f)'
    BY <1>7 DEF FuncReturnsUnusableTask
  <2> QED
    BY <2>1, <2>2, <2>3
<1>8. ASSUME NEW e \in Executions, InvocationThrows(e) PROVE IInv'
  <2>1. TypeOK'
    <3>1. CASE GoTo(e, "decide") /\ UNCHANGED result
      BY <1>8, <3>1 DEF InvocationThrows
    <3>2. CASE Return(e, "thrown", attempts[e])
      <4>1. /\ pc' \in [Executions -> Locations]
            /\ result' \in [Executions -> [kind : Kinds, attempt : Nat]]
        BY <3>2, ReturnType
      <4> QED
        BY <1>8, <4>1 DEF InvocationThrows
    <3> QED
      BY <1>8, <3>1, <3>2 DEF InvocationThrows
  <2>2. Ind(e)'
    BY <1>8 DEF InvocationThrows
  <2>3. ASSUME NEW f \in Executions \ {e} PROVE Ind(f)'
    BY <1>8 DEF InvocationThrows
  <2> QED
    BY <2>1, <2>2, <2>3
<1>9. ASSUME NEW e \in Executions, InvocationThrowsRetryLimitExceeded(e) PROVE IInv'
  <2>1. TypeOK'
    BY <1>9 DEF InvocationThrowsRetryLimitExceeded
  <2>2. Ind(e)'
    BY <1>9 DEF InvocationThrowsRetryLimitExceeded
  <2>3. ASSUME NEW f \in Executions \ {e} PROVE Ind(f)'
    BY <1>9 DEF InvocationThrowsRetryLimitExceeded
  <2> QED
    BY <2>1, <2>2, <2>3
<1>10. ASSUME NEW e \in Executions, TaskEnds(e) PROVE IInv'
  BY <1>10 DEF TaskEnds
<1>11. ASSUME NEW e \in Executions, ReturnUnfaulted(e) PROVE IInv'
  <2>1. TypeOK'
    <3>1. PICK kind \in Kinds, task \in Nat : Return(e, kind, task)
      BY <1>11 DEF ReturnUnfaulted
    <3>2. /\ pc' \in [Executions -> Locations]
          /\ result' \in [Executions -> [kind : Kinds, attempt : Nat]]
      BY <3>1, ReturnType
    <3> QED
      BY <1>11, <3>2 DEF ReturnUnfaulted
  <2>2. Ind(e)'
    BY <1>11 DEF ReturnUnfaulted
  <2>3. ASSUME NEW f \in Executions \ {e} PROVE Ind(f)'
    BY <1>11 DEF ReturnUnfaulted
  <2> QED
    BY <2>1, <2>2, <2>3
<1>12. ASSUME NEW e \in Executions, ReturnFailure(e) PROVE IInv'
  <2>1. TypeOK'
    <3>1. PICK kind \in Kinds, task \in Nat : Return(e, kind, task)
      BY <1>12 DEF ReturnFailure
    <3>2. /\ pc' \in [Executions -> Locations]
          /\ result' \in [Executions -> [kind : Kinds, attempt : Nat]]
      BY <3>1, ReturnType
    <3> QED
      BY <1>12, <3>2 DEF ReturnFailure
  <2>2. Ind(e)'
    BY <1>12 DEF ReturnFailure
  <2>3. ASSUME NEW f \in Executions \ {e} PROVE Ind(f)'
    BY <1>12 DEF ReturnFailure
  <2> QED
    BY <2>1, <2>2, <2>3
<1>13. ASSUME NEW e \in Executions, Consult(e) PROVE IInv'
  <2>1. CASE RetryAllowed(retryCount[e])
    <3>1. retryCount[e] \in 0..(RetryCount - 1)
      BY <1>13, <2>1 DEF Consult, RetryAllowed
    <3>2. PICK d \in Delays[retryCount[e]] : delay' = [delay EXCEPT ![e] = Clamp(d)]
      BY <1>13, <2>1 DEF Consult
    <3>3. Clamp(d) \in Nat
      BY <3>1, <3>2, DelaysAssumption, ClampIsWaitable
    <3>4. TypeOK'
      <4>1. /\ pc' \in [Executions -> Locations] /\ delay' \in [Executions -> Nat]
            /\ retryCount' \in [Executions -> Nat]
        BY <1>13, <2>1, <3>2, <3>3 DEF Consult
      <4> QED
        BY <1>13, <2>1, <4>1 DEF Consult
    <3>5. ASSUME NEW f \in Executions PROVE Ind(f)'
      BY <1>13, <2>1, <3>1 DEF Consult
    <3> QED
      BY <3>4, <3>5
  <2>2. CASE ~RetryAllowed(retryCount[e])
    <3>1. attempts[e] = RetryCount + 1
      BY <1>13, <2>2, RefusedIsSpent DEF Consult
    <3>2. TypeOK'
      <4>1. Return(e, "exhausted", attempts[e])
        BY <1>13, <2>2 DEF Consult
      <4>2. /\ pc' \in [Executions -> Locations]
            /\ result' \in [Executions -> [kind : Kinds, attempt : Nat]]
        BY <4>1, ReturnType
      <4> QED
        BY <1>13, <2>2, <4>2 DEF Consult
    <3>3. ASSUME NEW f \in Executions PROVE Ind(f)'
      <4>1. CASE f = e
        BY <1>13, <2>2, <3>1, <4>1 DEF Consult
      <4>2. CASE f # e
        BY <1>13, <2>2, <4>2 DEF Consult
      <4> QED
        BY <4>1, <4>2
    <3> QED
      BY <3>2, <3>3
  <2> QED
    BY <2>1, <2>2
<1>14. ASSUME NEW e \in Executions, OnRetrying(e) PROVE IInv'
  BY <1>14 DEF OnRetrying
<1>15. ASSUME NEW e \in Executions, SubscriberThrows(e) PROVE IInv'
  BY <1>15 DEF SubscriberThrows
<1>16. ASSUME NEW e \in Executions, DelayElapses(e) PROVE IInv'
  <2>1. retryCount[e] \in 1..RetryCount
    BY <1>16 DEF DelayElapses
  <2>2. slept' \in [Executions -> Pauses]
    BY <1>16, <2>1, PauseRecorded
  <2>3. TypeOK'
    BY <1>16, <2>2 DEF DelayElapses
  <2>4. ASSUME NEW f \in Executions PROVE Ind(f)'
    BY <1>16 DEF DelayElapses
  <2> QED
    BY <2>3, <2>4
<1>17. ASSUME NEW e \in Executions, Cancel(e) PROVE IInv'
  BY <1>17 DEF Cancel
<1>18. CASE UNCHANGED vars
  BY <1>18 DEF vars
<1> QED
  BY <1>1, <1>2, <1>3, <1>4, <1>5, <1>6, <1>7, <1>8, <1>9, <1>10, <1>11, <1>12,
     <1>13, <1>14, <1>15, <1>16, <1>17, <1>18
  DEF Next, ExecutionStep

(***************************************************************************)
(* The invariant holds throughout every behaviour of the policy.           *)
(***************************************************************************)
THEOREM Invariance == Spec => []IInv
BY InitIInv, NextIInv, PTL DEF Spec

(***************************************************************************)
(* Every variable keeps its type; no negative delay is ever waited for.    *)
(***************************************************************************)
THEOREM TypeCorrect == Spec => []TypeOK
<1>1. IInv => TypeOK
  BY DEF IInv
<1> QED
  BY <1>1, Invariance, PTL

(***************************************************************************)
(* _taskFunc is invoked at most RetryCount + 1 times by each call.         *)
(***************************************************************************)
THEOREM AttemptsBounded == Spec => []AttemptBudget
<1>1. ASSUME IInv PROVE AttemptBudget
  <2> SUFFICES ASSUME NEW e \in Executions PROVE attempts[e] <= RetryCount + 1
    BY DEF AttemptBudget
  <2>1. /\ pc[e] \in Locations /\ attempts[e] \in Nat /\ retryCount[e] \in Nat
        /\ Counters(e)
    BY <1>1 DEF IInv, Ind, TypeOK
  <2> QED
    BY <2>1, RetryCountAssumption DEF Counters, Locations
<1> QED
  BY <1>1, Invariance, PTL

(***************************************************************************)
(* After the token is cancelled no attempt begins, save one whose check of *)
(* the token had passed; and no notice is raised, save one in progress.    *)
(***************************************************************************)
THEOREM CancellationStops == Spec => []CancellationStopsRetrying
<1>1. IInv => CancellationStopsRetrying
  BY DEF IInv, Ind, Cancellation, CancellationStopsRetrying
<1> QED
  BY <1>1, Invariance, PTL

(***************************************************************************)
(* The outcome the caller gets is that of the last attempt made.           *)
(***************************************************************************)
THEOREM LastOutcomeDelivered == Spec => []LastFailureSurvives
<1>1. IInv => LastFailureSurvives
  BY DEF IInv, Ind, Results, LastFailureSurvives
<1> QED
  BY <1>1, Invariance, PTL
-----------------------------------------------------------------------------
(* The pauses.                                                             *)

\* The retries that have been waited for.
Begun(e) == IF pc[e] \in {"check", "invoke"} THEN retryCount[e] ELSE attempts[e] - 1

\* The delay that is pending is an answer to the retry that is pending; the
\* retries that have been waited for were, but for the first, each for an
\* answer of its own, which may be zero; the others have no pause yet.
Paused(e) ==
  /\ pc[e] \in {"raise", "delay"} => delay[e] \in Prescribed(retryCount[e])
  /\ \A retry \in 2..Begun(e) : slept[e][retry] \in Prescribed(retry)
  /\ \A retry \in 1..RetryCount :
       slept[e][retry] # 0 =>
         retry < retryCount[e] \/ (retry = retryCount[e] /\ pc[e] \notin {"raise", "delay"})

(***************************************************************************)
(* A step that neither consults the strategy nor ends a pause leaves the   *)
(* pauses as they are.                                                     *)
(***************************************************************************)
LEMMA PausedMoves ==
  ASSUME NEW e \in Executions, Paused(e),
         slept'[e] = slept[e], retryCount'[e] = retryCount[e], Begun(e)' = Begun(e),
         pc[e] \notin {"raise", "delay"}, pc'[e] \notin {"raise", "delay"}
  PROVE  Paused(e)'
BY DEF Paused, Prescribed, Clamp

(***************************************************************************)
(* Asking for a retry keeps the pauses of those before, and the delay that *)
(* is pending is the answer.                                               *)
(***************************************************************************)
LEMMA ConsultPauses ==
  ASSUME IInv, NEW f \in Executions, Paused(f), Consult(f)
  PROVE  Paused(f)'
<1>0. /\ retryCount[f] \in Nat /\ attempts[f] \in Nat /\ pc[f] = "decide" /\ TypeOK
      /\ attempts[f] = retryCount[f] + 1 /\ retryCount[f] <= RetryCount
  BY DEF IInv, Ind, TypeOK, Counters, Consult
<1>1. attempts' = attempts /\ slept' = slept /\ retryCount'[f] = retryCount[f] + 1
  BY <1>0 DEF TypeOK, Consult
<1>2. pc'[f] \in {"raise", "done"} /\ Begun(f) = attempts[f] - 1 /\ Begun(f)' = attempts[f] - 1
  BY <1>0, <1>1 DEF TypeOK, Consult, GoTo, Return, Begun
<1>3. \A retry \in 2..Begun(f)' : slept'[f][retry] \in Prescribed(retry)
  BY <1>1, <1>2 DEF Paused
<1>4. \A retry \in 1..RetryCount : slept'[f][retry] # 0 => retry < retryCount'[f]
  BY <1>0, <1>1 DEF Paused
<1>5. pc'[f] = "raise" => delay'[f] \in {Clamp(x) : x \in Delays[retryCount'[f] - 1]}
  <2> HAVE pc'[f] = "raise"
  <2>1. PICK d \in Delays[retryCount[f]] : delay'[f] = Clamp(d)
    BY <1>0 DEF TypeOK, Consult, GoTo, Return
  <2>2. Clamp(d) \in {Clamp(x) : x \in Delays[retryCount[f]]}
    OBVIOUS
  <2>3. retryCount'[f] - 1 = retryCount[f]
    BY <1>0, <1>1
  <2> QED
    BY <2>1, <2>2, <2>3
<1> QED
  BY <1>2, <1>3, <1>4, <1>5 DEF Paused, Prescribed, Clamp

(***************************************************************************)
(* The notice leads to the pause, past it on the first retry of a fast     *)
(* call, or past it where the answer is zero, which counts as the pause.   *)
(***************************************************************************)
LEMMA NoticePauses ==
  ASSUME IInv, NEW f \in Executions, Paused(f), OnRetrying(f)
  PROVE  Paused(f)'
<1>0. /\ retryCount[f] \in 1..RetryCount /\ pc[f] = "raise" /\ TypeOK
      /\ attempts[f] = retryCount[f] /\ delay[f] \in Nat /\ retryCount[f] \in Nat
  BY RetryCountAssumption DEF IInv, Ind, TypeOK, Counters, OnRetrying
<1>1. /\ attempts' = attempts /\ slept' = slept /\ retryCount' = retryCount /\ delay' = delay
      /\ pc'[f] = IF MustWait(f) THEN "delay" ELSE "check"
  BY <1>0 DEF TypeOK, OnRetrying, GoTo
<1>2. Begun(f) = retryCount[f] - 1
  BY <1>0 DEF Begun
<1>3. CASE MustWait(f)
  BY <1>0, <1>1, <1>2, <1>3 DEF Paused, Begun, Prescribed, Clamp
<1>4. CASE ~MustWait(f)
  <2>1. pc'[f] = "check" /\ Begun(f)' = retryCount[f]
    BY <1>1, <1>4 DEF Begun
  <2>2. slept[f][retryCount[f]] = 0
    BY <1>0 DEF Paused
  <2>3. retryCount[f] > 1 => delay[f] = 0
    BY <1>0, <1>4 DEF MustWait
  <2>4. \A retry \in 2..retryCount[f] : slept[f][retry] \in Prescribed(retry)
    <3> TAKE retry \in 2..retryCount[f]
    <3>1. CASE retry = retryCount[f]
      BY <1>0, <2>2, <2>3, <3>1 DEF Paused
    <3>2. CASE retry # retryCount[f]
      <4>1. retry \in 2..Begun(f)
        BY <1>0, <1>2, <3>2
      <4> QED
        BY <4>1 DEF Paused
    <3> QED
      BY <3>1, <3>2
  <2>5. \A retry \in 1..RetryCount : slept[f][retry] # 0 => retry < retryCount[f]
    BY <1>0 DEF Paused
  <2> QED
    BY <1>1, <2>1, <2>4, <2>5 DEF Paused, Prescribed, Clamp
<1> QED
  BY <1>3, <1>4

(***************************************************************************)
(* The end of a delay is the pause before the retry that was asked for.    *)
(***************************************************************************)
LEMMA DelayPauses ==
  ASSUME IInv, NEW f \in Executions, Paused(f), DelayElapses(f)
  PROVE  Paused(f)'
<1>0. /\ retryCount[f] \in 1..RetryCount /\ pc[f] = "delay" /\ TypeOK
      /\ attempts[f] = retryCount[f] /\ delay[f] \in Nat /\ retryCount[f] \in Nat
  BY RetryCountAssumption DEF IInv, Ind, TypeOK, Counters, DelayElapses
<1>1. retryCount' = retryCount /\ attempts' = attempts /\ pc'[f] = "check"
  BY <1>0 DEF TypeOK, DelayElapses, GoTo
<1>2. /\ slept'[f][retryCount[f]] = delay[f]
      /\ \A retry \in 1..RetryCount : retry # retryCount[f] => slept'[f][retry] = slept[f][retry]
  BY <1>0, PauseRecorded
<1>3. Begun(f)' = retryCount[f] /\ Begun(f) = retryCount[f] - 1
  BY <1>0, <1>1 DEF Begun
<1>4. \A retry \in 2..retryCount[f] : slept'[f][retry] \in Prescribed(retry)
  <2> TAKE retry \in 2..retryCount[f]
  <2>1. CASE retry = retryCount[f]
    BY <1>0, <1>2, <2>1 DEF Paused
  <2>2. CASE retry # retryCount[f]
    <3>1. retry \in 2..Begun(f) /\ retry \in 1..RetryCount
      BY <1>0, <1>3, <2>2, RetryCountAssumption
    <3> QED
      BY <1>2, <2>2, <3>1 DEF Paused
  <2> QED
    BY <2>1, <2>2
<1>5. \A retry \in 1..RetryCount : slept'[f][retry] # 0 => retry <= retryCount[f]
  BY <1>0, <1>2 DEF Paused
<1> QED
  BY <1>0, <1>1, <1>3, <1>4, <1>5 DEF Paused, Prescribed, Clamp

(***************************************************************************)
(* Every step keeps the pauses of every call.                              *)
(***************************************************************************)
LEMMA PausedStep ==
  ASSUME IInv, [Next]_vars, NEW f \in Executions, Paused(f)
  PROVE  Paused(f)'
<1>0. /\ retryCount[f] \in Nat /\ attempts[f] \in Nat /\ Counters(f) /\ TypeOK
      /\ pc[f] \in Locations
  BY DEF IInv, Ind, TypeOK
<1>1. ASSUME pc'[f] = pc[f], delay'[f] = delay[f], retryCount'[f] = retryCount[f],
             attempts'[f] = attempts[f], slept'[f] = slept[f]
      PROVE  Paused(f)'
  BY <1>1 DEF Paused, Begun, Prescribed, Clamp
<1>2. ASSUME NEW e \in Executions, e # f, ExecuteAsync(e) \/ ExecutionStep(e) \/ Cancel(e)
      PROVE  Paused(f)'
  <2>1. /\ pc'[f] = pc[f] /\ delay'[f] = delay[f] /\ retryCount'[f] = retryCount[f]
        /\ attempts'[f] = attempts[f] /\ slept'[f] = slept[f]
    BY <1>0, <1>2 DEF TypeOK, ExecutionStep, ExecuteAsync, Cancel, ProceedUnlessCancelled,
         StopBeforeAttempt, InvokeTaskFunc, FuncReturnsTask, FuncReturnsCompletedTask,
         FuncReturnsUnusableTask, InvocationThrows, InvocationThrowsRetryLimitExceeded,
         TaskEnds, ReturnUnfaulted, ReturnFailure, Consult, OnRetrying, SubscriberThrows,
         DelayElapses, GoTo, Return
  <2> QED
    BY <1>1, <2>1
<1>3. CASE Cancel(f) \/ UNCHANGED vars
  BY <1>1, <1>3 DEF Cancel, vars
<1>4. CASE ExecuteAsync(f)
  <2>1. pc'[f] = "check" /\ pc[f] = "idle" /\ slept' = slept /\ retryCount' = retryCount
    BY <1>0, <1>4 DEF TypeOK, ExecuteAsync, GoTo
  <2>2. retryCount[f] = 0
    BY <1>0, <2>1 DEF Counters
  <2> QED
    BY <2>1, <2>2 DEF Paused, Begun
<1>5. CASE ProceedUnlessCancelled(f)
  <2>1. /\ pc[f] = "check" /\ pc'[f] = "invoke" /\ slept' = slept /\ retryCount' = retryCount
        /\ attempts' = attempts
    BY <1>0, <1>5 DEF TypeOK, ProceedUnlessCancelled, GoTo
  <2> QED
    BY <2>1, PausedMoves DEF Begun
<1>6. CASE InvokeTaskFunc(f)
  <2>1. /\ pc[f] = "invoke" /\ pc'[f] = "called" /\ slept' = slept /\ retryCount' = retryCount
        /\ attempts'[f] = attempts[f] + 1
    BY <1>0, <1>6 DEF TypeOK, InvokeTaskFunc, GoTo
  <2>2. attempts'[f] - 1 = retryCount[f]
    BY <1>0, <2>1 DEF Counters
  <2> QED
    BY <2>1, <2>2, PausedMoves DEF Begun
<1>7. CASE \/ FuncReturnsTask(f) \/ FuncReturnsCompletedTask(f) \/ FuncReturnsUnusableTask(f)
           \/ InvocationThrows(f) \/ InvocationThrowsRetryLimitExceeded(f) \/ TaskEnds(f)
           \/ ReturnUnfaulted(f) \/ ReturnFailure(f)
  <2>1. /\ pc[f] \in {"called", "running", "decide"} /\ pc'[f] \in {"running", "decide", "done"}
        /\ slept' = slept /\ retryCount' = retryCount /\ attempts' = attempts
    BY <1>0, <1>7 DEF TypeOK, FuncReturnsTask, FuncReturnsCompletedTask,
         FuncReturnsUnusableTask, InvocationThrows, InvocationThrowsRetryLimitExceeded,
         TaskEnds, ReturnUnfaulted, ReturnFailure, GoTo, Return
  <2> QED
    BY <2>1, PausedMoves DEF Begun
<1>8. CASE StopBeforeAttempt(f)
  <2>1. /\ pc[f] = "check" /\ pc'[f] = "done"
        /\ slept' = slept /\ retryCount' = retryCount /\ attempts' = attempts
    BY <1>0, <1>8 DEF TypeOK, StopBeforeAttempt, GoTo, Return
  <2>2. \A retry \in 2..(attempts[f] - 1) : retry \in 2..Begun(f)
    BY <1>0, <2>1 DEF Counters, Begun
  <2> QED
    BY <2>1, <2>2 DEF Paused, Begun
<1>9. CASE SubscriberThrows(f)
  <2>1. /\ pc[f] = "raise" /\ pc'[f] = "done"
        /\ slept' = slept /\ retryCount' = retryCount /\ attempts' = attempts
    BY <1>0, <1>9 DEF TypeOK, SubscriberThrows, GoTo, Return
  <2> QED
    BY <2>1 DEF Paused, Begun
<1>10. CASE Consult(f) \/ OnRetrying(f) \/ DelayElapses(f)
  BY <1>10, ConsultPauses, NoticePauses, DelayPauses
<1> QED
  BY <1>2, <1>3, <1>4, <1>5, <1>6, <1>7, <1>8, <1>9, <1>10 DEF Next, ExecutionStep

(***************************************************************************)
(* Between two attempts of a call it has waited for what the strategy      *)
(* answered to that retry, all but the first retry.                        *)
(***************************************************************************)
THEOREM RetriesSpaced == Spec => []NoHammering
<1> DEFINE AllPaused == \A e \in Executions : Paused(e)
<1>1. Init => AllPaused
  <2> SUFFICES ASSUME Init, NEW e \in Executions PROVE Paused(e)
    OBVIOUS
  <2>1. /\ pc[e] = "idle" /\ attempts[e] - 1 = -1
        /\ \A retry \in 1..RetryCount : slept[e][retry] = 0
    BY DEF Init
  <2> QED
    BY <2>1 DEF Paused, Begun
<1>2. IInv /\ AllPaused /\ [Next]_vars => AllPaused'
  BY PausedStep
<1>3. IInv /\ AllPaused => NoHammering
  <2> SUFFICES ASSUME IInv, NEW e \in Executions, Paused(e),
                      NEW retry \in 2..(attempts[e] - 1)
               PROVE  slept[e][retry] \in Prescribed(retry)
    BY DEF NoHammering
  <2>1. retry \in 2..Begun(e)
    BY DEF IInv, Ind, TypeOK, Counters, Begun
  <2> QED
    BY <2>1 DEF Paused
<1> QED
  BY <1>1, <1>2, <1>3, Invariance, PTL DEF Spec

-----------------------------------------------------------------------------
(* The promise.                                                            *)

\* The mapped variables.
StatusMap == [e \in Executions |-> StatusOf(pc[e], attempts[e])]
EndingMap == [e \in Executions |-> EndingOf(result[e].kind)]

(***************************************************************************)
(* A step within the loop shows only at its own call, if at all.           *)
(***************************************************************************)
LEMMA StatusStep ==
  ASSUME IInv, NEW e \in Executions, NEW l \in Locations,
         pc' = [pc EXCEPT ![e] = l], UNCHANGED attempts
  PROVE  StatusMap' = [StatusMap EXCEPT ![e] = StatusOf(l, attempts[e])]
BY DEF IInv, TypeOK, StatusMap

LEMMA SilentStep ==
  ASSUME IInv, NEW e \in Executions, NEW l \in Locations,
         pc' = [pc EXCEPT ![e] = l], UNCHANGED <<attempts, notices, result>>,
         StatusOf(l, attempts[e]) = StatusOf(pc[e], attempts[e])
  PROVE  UNCHANGED <<StatusMap, attempts, notices, EndingMap>>
<1>1. StatusMap' = [StatusMap EXCEPT ![e] = StatusOf(pc[e], attempts[e])]
  BY StatusStep
<1>2. StatusMap' = StatusMap
  BY <1>1 DEF StatusMap
<1> QED
  BY <1>2 DEF EndingMap

LEMMA EndingStep ==
  ASSUME IInv, NEW e \in Executions, NEW k \in Kinds, NEW task \in Nat,
         Return(e, k, task)
  PROVE  EndingMap' = [EndingMap EXCEPT ![e] = EndingOf(k)]
BY DEF IInv, TypeOK, EndingMap, Return

(***************************************************************************)
(* The end of a call is an ending of the promise; one that made no attempt *)
(* of its own to end with was withdrawn.                                   *)
(***************************************************************************)
LEMMA ReturnRefines ==
  ASSUME IInv, NEW e \in Executions, NEW k \in Kinds, NEW task \in Nat,
         Return(e, k, task),
         pc[e] \in {"check", "called", "decide", "raise"}, k # "none",
         pc[e] = "check" => k \in {"neverStarted", "stopped"},
         k = "exhausted" => attempts[e] = RetryCount + 1,
         UNCHANGED <<attempts, notices>>
  PROVE  Promise!Next
<1> DEFINE why == EndingOf(k)
<1>1. StatusMap' = [StatusMap EXCEPT ![e] = "done"]
  <2>1. pc' = [pc EXCEPT ![e] = "done"]
    BY DEF Return, GoTo
  <2>2. StatusOf("done", attempts[e]) = "done"
    BY DEF StatusOf
  <2> QED
    BY <2>1, <2>2, StatusStep DEF Locations
<1>2. EndingMap' = [EndingMap EXCEPT ![e] = why]
  BY EndingStep
<1>3. attempts[e] \in Nat
  BY DEF IInv, TypeOK
<1>4. /\ pc[e] # "check" => StatusMap[e] = "running"
      /\ StatusMap[e] # "done"
  BY <1>3 DEF StatusMap, StatusOf
<1>5. /\ why \in {"success", "fatal", "exhausted", "withdrawn"}
      /\ why = "exhausted" => attempts[e] = RetryCount + 1
      /\ pc[e] = "check" => why = "withdrawn"
  BY DEF EndingOf, Kinds
<1>6. CASE why = "withdrawn"
  BY <1>1, <1>2, <1>4, <1>6
  DEF Promise!Next, Promise!Step, Promise!Withdraw, StatusMap, EndingMap
<1>7. CASE why # "withdrawn"
  BY <1>1, <1>2, <1>4, <1>5, <1>7
  DEF Promise!Next, Promise!Step, Promise!Finish, StatusMap, EndingMap
<1> QED
  BY <1>6, <1>7

(***************************************************************************)
(* An invocation of _taskFunc is the beginning of an attempt.              *)
(***************************************************************************)
LEMMA InvokeRefines ==
  ASSUME IInv, NEW e \in Executions, InvokeTaskFunc(e)
  PROVE  Promise!Next
<1>1. /\ pc[e] = "invoke" /\ pc' = [pc EXCEPT ![e] = "called"]
      /\ attempts' = [attempts EXCEPT ![e] = @ + 1]
      /\ UNCHANGED <<notices, result>>
  BY DEF InvokeTaskFunc, GoTo
<1>2. StatusOf("called", attempts[e] + 1) = "running"
  BY DEF StatusOf
<1>3. StatusMap' = [StatusMap EXCEPT ![e] = "running"]
  BY <1>1, <1>2 DEF IInv, TypeOK, StatusMap
<1>4. StatusMap[e] \in {"ready", "backoff"}
  BY <1>1 DEF IInv, TypeOK, StatusMap, StatusOf
<1>5. UNCHANGED EndingMap
  BY <1>1 DEF EndingMap
<1> QED
  BY <1>1, <1>3, <1>4, <1>5
  DEF Promise!Next, Promise!Step, Promise!Begin, StatusMap, EndingMap

(***************************************************************************)
(* The notice raised by _onRetrying is the promise's Retry.                *)
(***************************************************************************)
LEMMA NoticeRefines ==
  ASSUME IInv, NEW e \in Executions, OnRetrying(e)
  PROVE  Promise!Next
<1>1. /\ attempts[e] \in Nat /\ attempts[e] > 0 /\ attempts[e] <= RetryCount
      /\ pc[e] = "raise"
  BY RetryCountAssumption DEF IInv, Ind, TypeOK, Counters, OnRetrying
<1>2. StatusMap' = [StatusMap EXCEPT ![e] = "backoff"]
  <2>1. PICK l \in {"delay", "check"} : pc' = [pc EXCEPT ![e] = l]
    BY DEF OnRetrying, GoTo
  <2>2. StatusOf(l, attempts[e]) = "backoff"
    BY <1>1, <2>1 DEF StatusOf
  <2>3. UNCHANGED attempts
    BY DEF OnRetrying
  <2>4. l \in Locations
    BY DEF Locations
  <2>5. StatusMap' = [StatusMap EXCEPT ![e] = StatusOf(l, attempts[e])]
    BY <2>1, <2>3, <2>4, StatusStep
  <2> QED
    BY <2>2, <2>5
<1>3. StatusMap[e] = "running"
  BY <1>1 DEF StatusMap, StatusOf
<1>4. /\ notices' = [notices EXCEPT ![e] = @ + 1]
      /\ UNCHANGED <<attempts, EndingMap>>
  BY DEF OnRetrying, EndingMap
<1> QED
  BY <1>1, <1>2, <1>3, <1>4
  DEF Promise!Next, Promise!Step, Promise!Retry, StatusMap, EndingMap

(***************************************************************************)
(* Every step of the loop is a step of the promise or a stutter.           *)
(***************************************************************************)
LEMMA StepRefines == IInv /\ [Next]_vars => [Promise!Next]_(Promise!vars)
<1> SUFFICES ASSUME IInv, [Next]_vars PROVE [Promise!Next]_(Promise!vars)
  OBVIOUS
<1> DEFINE Silent == UNCHANGED <<StatusMap, attempts, notices, EndingMap>>
<1>0. Silent => UNCHANGED Promise!vars
  BY DEF Promise!vars, StatusMap, EndingMap
<1>a. \A e \in Executions : attempts[e] \in Nat /\ previousTask[e] \in Nat
  BY DEF IInv, TypeOK
<1>1. ASSUME NEW e \in Executions, ExecuteAsync(e) PROVE Silent
  <2>1. attempts[e] = 0
    BY <1>1 DEF ExecuteAsync, IInv, Ind, Counters
  <2>2. StatusOf("check", attempts[e]) = StatusOf("idle", attempts[e])
    BY <2>1 DEF StatusOf
  <2> QED
    BY <1>1, <2>2, SilentStep DEF ExecuteAsync, GoTo, Locations
<1>2. ASSUME NEW e \in Executions, ProceedUnlessCancelled(e) PROVE Silent
  <2>1. StatusOf("invoke", attempts[e]) = StatusOf("check", attempts[e])
    <3>1. CASE attempts[e] = 0
      BY <3>1 DEF StatusOf
    <3>2. CASE attempts[e] > 0
      BY <3>2, <1>a DEF StatusOf
    <3> QED
      BY <3>1, <3>2, <1>a
  <2> QED
    BY <1>2, <2>1, SilentStep DEF ProceedUnlessCancelled, GoTo, Locations
<1>3. ASSUME NEW e \in Executions, StopBeforeAttempt(e) PROVE Promise!Next
  BY <1>a, <1>3, ReturnRefines DEF StopBeforeAttempt, Kinds
<1>4. ASSUME NEW e \in Executions, InvokeTaskFunc(e) PROVE Promise!Next
  BY <1>4, InvokeRefines
<1>5. ASSUME NEW e \in Executions, FuncReturnsTask(e) PROVE Silent
  <2>1. StatusOf("running", attempts[e]) = StatusOf("called", attempts[e])
    BY DEF StatusOf
  <2> QED
    BY <1>5, <2>1, SilentStep DEF FuncReturnsTask, GoTo, Locations
<1>6. ASSUME NEW e \in Executions, FuncReturnsCompletedTask(e) PROVE Promise!Next
  BY <1>a, <1>6, ReturnRefines DEF FuncReturnsCompletedTask, Kinds
<1>7. ASSUME NEW e \in Executions, FuncReturnsUnusableTask(e) PROVE Promise!Next
  BY <1>a, <1>7, ReturnRefines DEF FuncReturnsUnusableTask, Kinds
<1>8. ASSUME NEW e \in Executions, InvocationThrows(e) PROVE Promise!Next \/ Silent
  <2>1. StatusOf("decide", attempts[e]) = StatusOf("called", attempts[e])
    BY DEF StatusOf
  <2>2. CASE GoTo(e, "decide") /\ UNCHANGED result
    BY <1>8, <2>1, <2>2, SilentStep DEF InvocationThrows, GoTo, Locations
  <2>3. CASE Return(e, "thrown", attempts[e])
    BY <1>a, <1>8, <2>3, ReturnRefines DEF InvocationThrows, Kinds
  <2> QED
    BY <1>8, <2>2, <2>3 DEF InvocationThrows
<1>9. ASSUME NEW e \in Executions, InvocationThrowsRetryLimitExceeded(e)
      PROVE  Promise!Next
  BY <1>a, <1>9, ReturnRefines DEF InvocationThrowsRetryLimitExceeded, Kinds
<1>10. ASSUME NEW e \in Executions, TaskEnds(e) PROVE Silent
  <2>1. StatusOf("decide", attempts[e]) = StatusOf("running", attempts[e])
    BY DEF StatusOf
  <2> QED
    BY <1>10, <2>1, SilentStep DEF TaskEnds, GoTo, Locations
<1>11. ASSUME NEW e \in Executions, ReturnUnfaulted(e) PROVE Promise!Next
  BY <1>a, <1>11, ReturnRefines DEF ReturnUnfaulted, Kinds
<1>12. ASSUME NEW e \in Executions, ReturnFailure(e) PROVE Promise!Next
  BY <1>a, <1>12, ReturnRefines DEF ReturnFailure, Kinds
<1>13. ASSUME NEW e \in Executions, Consult(e) PROVE Promise!Next \/ Silent
  <2>1. pc[e] = "decide" /\ UNCHANGED <<attempts, notices>>
    BY <1>13 DEF Consult
  <2>2. StatusOf("raise", attempts[e]) = StatusOf("decide", attempts[e])
    BY DEF StatusOf
  <2>3. CASE RetryAllowed(retryCount[e])
    BY <1>13, <2>1, <2>2, <2>3, SilentStep DEF Consult, GoTo, Locations
  <2>4. CASE ~RetryAllowed(retryCount[e])
    <3>1. attempts[e] = RetryCount + 1
      BY <2>1, <2>4, RetryCountAssumption
      DEF RetryAllowed, IInv, Ind, TypeOK, Counters
    <3>2. Return(e, "exhausted", attempts[e])
      BY <1>13, <2>4 DEF Consult
    <3> QED
      BY <1>a, <2>1, <3>1, <3>2, ReturnRefines DEF Kinds
  <2> QED
    BY <2>3, <2>4
<1>14. ASSUME NEW e \in Executions, OnRetrying(e) PROVE Promise!Next
  BY <1>14, NoticeRefines
<1>15. ASSUME NEW e \in Executions, SubscriberThrows(e) PROVE Promise!Next
  BY <1>a, <1>15, ReturnRefines DEF SubscriberThrows, Kinds
<1>16. ASSUME NEW e \in Executions, DelayElapses(e) PROVE Silent
  <2>1. attempts[e] > 0
    BY <1>16 DEF DelayElapses, IInv, Ind, Counters
  <2>2. StatusOf("check", attempts[e]) = StatusOf("delay", attempts[e])
    BY <1>a, <2>1 DEF StatusOf
  <2> QED
    BY <1>16, <2>2, SilentStep DEF DelayElapses, GoTo, Locations
<1>17. ASSUME NEW e \in Executions, Cancel(e) PROVE Silent
  BY <1>17 DEF Cancel, StatusMap, EndingMap
<1>18. CASE UNCHANGED vars
  BY <1>18, <1>0 DEF vars, StatusMap, EndingMap
<1> QED
  BY <1>0, <1>1, <1>2, <1>3, <1>4, <1>5, <1>6, <1>7, <1>8, <1>9, <1>10, <1>11,
     <1>12, <1>13, <1>14, <1>15, <1>16, <1>17, <1>18
  DEF Next, ExecutionStep

(***************************************************************************)
(* The safety part of the promise: every behaviour of ExecuteAsync, seen   *)
(* through the mapping, is a behaviour of RetryExecution.                  *)
(***************************************************************************)
THEOREM Refinement == Spec => Promise!Init /\ [][Promise!Next]_(Promise!vars)
<1>1. Init => Promise!Init
  BY DEF Init, Promise!Init, StatusOf, EndingOf, NoResult
<1> QED
  BY <1>1, Invariance, StepRefines, PTL DEF Spec

-----------------------------------------------------------------------------
(***************************************************************************)
(* The synchronous loop.  The inductive invariant ties the loop's counter  *)
(* to the attempts made and the notices raised at each point of the loop;  *)
(* the bounds, the announcement discipline and the implementation of the   *)
(* promise follow from it.                                                 *)
(***************************************************************************)

\* The counters of one call, at each point of the loop.
SyncCounters(e) ==
  /\ pc[e] = "idle" =>
       /\ attempts[e] = 0
       /\ retryCount[e] = 0
       /\ notices[e] = 0
  /\ pc[e] = "func" =>
       /\ attempts[e] = retryCount[e] + 1
       /\ notices[e] = retryCount[e]
       /\ retryCount[e] <= RetryCount
  /\ pc[e] = "raise" =>
       /\ attempts[e] = retryCount[e]
       /\ notices[e] + 1 = retryCount[e]
       /\ retryCount[e] <= RetryCount
  /\ pc[e] \in {"gate", "delay"} =>
       /\ attempts[e] = retryCount[e]
       /\ notices[e] = retryCount[e]
       /\ retryCount[e] <= RetryCount
  /\ pc[e] \in {"raise", "gate", "delay"} => retryCount[e] > 0
  /\ pc[e] = "done" => attempts[e] <= RetryCount + 1

\* A call has a result exactly when it has ended.
SyncResults(e) ==
  /\ pc[e] = "done" <=> result[e].kind # "none"
  /\ result[e].kind = "exhausted" => result[e].attempt = RetryCount + 1

SyncIInv == Sync!TypeOK /\ \A e \in Executions : SyncCounters(e) /\ SyncResults(e)

(***************************************************************************)
(* The extra check leaves the loop with a delay that can be waited for.    *)
(***************************************************************************)
LEMMA SyncClampIsWaitable == ASSUME NEW d \in Int PROVE Sync!Clamp(d) \in Nat
BY DEF Sync!Clamp

(***************************************************************************)
(* The invariant holds before any call of ExecuteAction.                   *)
(***************************************************************************)
LEMMA SyncInitIInv == Sync!Init => SyncIInv
<1> SUFFICES ASSUME Sync!Init PROVE SyncIInv
  OBVIOUS
<1>1. [retry \in 1..RetryCount |-> 0] \in Sync!Pauses
  BY DEF Sync!Pauses
<1>2. Sync!TypeOK
  BY <1>1 DEF Sync!Init, Sync!TypeOK, Sync!NoResult, Sync!Locations, Sync!Kinds
<1>3. \A e \in Executions : SyncCounters(e) /\ SyncResults(e)
  BY RetryCountAssumption DEF Sync!Init, SyncCounters, SyncResults, Sync!NoResult
<1> QED
  BY <1>2, <1>3 DEF SyncIInv

(***************************************************************************)
(* A pause is recorded with the retry that it comes before.                *)
(***************************************************************************)
LEMMA SyncPauseRecorded ==
  ASSUME Sync!TypeOK, NEW e \in Executions, Sync!DelayElapses(e), retryCount[e] \in 1..RetryCount
  PROVE  /\ slept' \in [Executions -> Sync!Pauses]
         /\ slept'[e][retryCount[e]] = delay[e]
         /\ \A retry \in 1..RetryCount : retry # retryCount[e] => slept'[e][retry] = slept[e][retry]
         /\ \A f \in Executions \ {e} : slept'[f] = slept[f]
<1> DEFINE pauses == [slept[e] EXCEPT ![retryCount[e]] = delay[e]]
<1>1. slept \in [Executions -> Sync!Pauses] /\ slept[e] \in Sync!Pauses /\ delay[e] \in Nat
  BY DEF Sync!TypeOK
<1>2. /\ pauses \in Sync!Pauses
      /\ pauses[retryCount[e]] = delay[e]
      /\ \A retry \in 1..RetryCount : retry # retryCount[e] => pauses[retry] = slept[e][retry]
  BY <1>1 DEF Sync!Pauses
<1>3. slept' = [slept EXCEPT ![e] = pauses]
  BY DEF Sync!DelayElapses
<1> HIDE DEF pauses
<1> QED
  BY <1>1, <1>2, <1>3

(***************************************************************************)
(* Every step of ExecuteAction, and the setter of FastFirstRetry, keeps it. *)
(***************************************************************************)
LEMMA SyncNextIInv == SyncIInv /\ [Sync!Next]_(Sync!vars) => SyncIInv'
<1> SUFFICES ASSUME SyncIInv, [Sync!Next]_(Sync!vars) PROVE SyncIInv'
  OBVIOUS
<1> USE RetryCountAssumption
        DEF SyncIInv, Sync!TypeOK, SyncCounters, SyncResults, Sync!Locations, Sync!Kinds
<1>1. ASSUME NEW e \in Executions, Sync!ExecuteAction(e) PROVE SyncIInv'
  BY <1>1 DEF Sync!ExecuteAction, Sync!InvokeFunc
<1>2. ASSUME NEW e \in Executions, Sync!FuncReturns(e) PROVE SyncIInv'
  BY <1>2 DEF Sync!FuncReturns, Sync!Return
<1>3. ASSUME NEW e \in Executions, Sync!FuncThrowsRetryLimitExceeded(e) PROVE SyncIInv'
  BY <1>3 DEF Sync!FuncThrowsRetryLimitExceeded, Sync!Return
<1>4. ASSUME NEW e \in Executions, Sync!FuncThrowsNonTransient(e) PROVE SyncIInv'
  BY <1>4 DEF Sync!FuncThrowsNonTransient, Sync!Return
<1>5. ASSUME NEW e \in Executions, Sync!FuncThrowsTransient(e) PROVE SyncIInv'
  <2>1. CASE Sync!RetryAllowed(retryCount[e])
    <3>1. retryCount[e] \in 0..(RetryCount - 1)
      BY <1>5, <2>1 DEF Sync!FuncThrowsTransient, Sync!RetryAllowed
    <3>2. PICK d \in Delays[retryCount[e]] : delay' = [delay EXCEPT ![e] = Sync!Clamp(d)]
      BY <1>5, <2>1 DEF Sync!FuncThrowsTransient
    <3>3. d \in Int
      BY <3>1, <3>2, DelaysAssumption
    <3>4. Sync!Clamp(d) \in Nat
      BY <3>3, SyncClampIsWaitable
    <3>5. Sync!TypeOK'
      BY <1>5, <2>1, <3>1, <3>2, <3>4 DEF Sync!FuncThrowsTransient
    <3>6. ASSUME NEW f \in Executions PROVE SyncCounters(f)' /\ SyncResults(f)'
      <4>1. CASE f = e
        BY <1>5, <2>1, <3>1, <4>1 DEF Sync!FuncThrowsTransient
      <4>2. CASE f # e
        BY <1>5, <2>1, <4>2 DEF Sync!FuncThrowsTransient
      <4> QED
        BY <4>1, <4>2
    <3> QED
      BY <3>5, <3>6
  <2>2. CASE ~Sync!RetryAllowed(retryCount[e])
    <3>1. attempts[e] = RetryCount + 1
      BY <1>5, <2>2 DEF Sync!FuncThrowsTransient, Sync!RetryAllowed
    <3>2. Sync!Return(e, "exhausted")
      BY <1>5, <2>2 DEF Sync!FuncThrowsTransient
    <3>3. Sync!TypeOK'
      BY <1>5, <2>2, <3>2 DEF Sync!FuncThrowsTransient, Sync!Return
    <3>4. ASSUME NEW f \in Executions PROVE SyncCounters(f)' /\ SyncResults(f)'
      <4>1. CASE f = e
        BY <1>5, <2>2, <3>1, <3>2, <4>1 DEF Sync!FuncThrowsTransient, Sync!Return
      <4>2. CASE f # e
        BY <1>5, <2>2, <3>2, <4>2 DEF Sync!FuncThrowsTransient, Sync!Return
      <4> QED
        BY <4>1, <4>2
    <3> QED
      BY <3>3, <3>4
  <2> QED
    BY <2>1, <2>2
<1>6. ASSUME NEW e \in Executions, Sync!OnRetrying(e) PROVE SyncIInv'
  BY <1>6 DEF Sync!OnRetrying
<1>7. ASSUME NEW e \in Executions, Sync!SubscriberThrows(e) PROVE SyncIInv'
  BY <1>7 DEF Sync!SubscriberThrows, Sync!Return
<1>8. ASSUME NEW e \in Executions, Sync!Pause(e) PROVE SyncIInv'
  BY <1>8 DEF Sync!Pause
<1>9. ASSUME NEW e \in Executions, Sync!RetryAtOnce(e) PROVE SyncIInv'
  BY <1>9 DEF Sync!RetryAtOnce, Sync!InvokeFunc
<1>10. ASSUME NEW e \in Executions, Sync!DelayElapses(e) PROVE SyncIInv'
  <2>1. retryCount[e] \in 1..RetryCount
    BY <1>10 DEF Sync!DelayElapses
  <2>2. slept' \in [Executions -> Sync!Pauses]
    BY <1>10, <2>1, SyncPauseRecorded
  <2>3. Sync!TypeOK'
    BY <1>10, <2>2 DEF Sync!DelayElapses, Sync!InvokeFunc
  <2>4. ASSUME NEW f \in Executions PROVE SyncCounters(f)' /\ SyncResults(f)'
    BY <1>10 DEF Sync!DelayElapses, Sync!InvokeFunc
  <2> QED
    BY <2>3, <2>4
<1>11. CASE Sync!SetFastFirstRetry
  BY <1>11 DEF Sync!SetFastFirstRetry
<1>12. CASE UNCHANGED Sync!vars
  BY <1>12 DEF Sync!vars
<1> QED
  BY <1>1, <1>2, <1>3, <1>4, <1>5, <1>6, <1>7, <1>8, <1>9, <1>10, <1>11, <1>12
  DEF Sync!Next, Sync!LoopStep

(***************************************************************************)
(* The invariant holds throughout every behaviour of the policy.           *)
(***************************************************************************)
THEOREM SyncInvariance == Sync!Spec => []SyncIInv
BY SyncInitIInv, SyncNextIInv, PTL DEF Sync!Spec

(***************************************************************************)
(* Every variable keeps its type: in particular a delay that is waited for *)
(* is never negative, whatever the strategy answered.                      *)
(***************************************************************************)
THEOREM SyncTypeCorrect == Sync!Spec => []Sync!TypeOK
<1>1. SyncIInv => Sync!TypeOK
  BY DEF SyncIInv
<1> QED
  BY <1>1, SyncInvariance, PTL

(***************************************************************************)
(* func is invoked at most RetryCount + 1 times by each call.              *)
(***************************************************************************)
THEOREM SyncAttemptsBounded == Sync!Spec => []AttemptBudget
<1>1. SyncIInv => AttemptBudget
  <2> SUFFICES ASSUME SyncIInv, NEW e \in Executions PROVE attempts[e] <= RetryCount + 1
    BY DEF AttemptBudget
  <2>1. /\ attempts[e] \in Nat /\ retryCount[e] \in Nat /\ pc[e] \in Sync!Locations
        /\ SyncCounters(e)
    BY DEF SyncIInv, Sync!TypeOK
  <2> QED
    BY <2>1, RetryCountAssumption DEF SyncCounters, Sync!Locations
<1> QED
  BY <1>1, SyncInvariance, PTL

(***************************************************************************)
(* A transient error is rethrown only once the budget is spent.            *)
(***************************************************************************)
THEOREM SyncGivesUpLast == Sync!Spec => []Sync!NeverGivesUpEarly
<1>1. SyncIInv => Sync!NeverGivesUpEarly
  BY DEF SyncIInv, SyncResults, Sync!NeverGivesUpEarly
<1> QED
  BY <1>1, SyncInvariance, PTL

(***************************************************************************)
(* Exactly one Retrying notice lies between two attempts.                  *)
(***************************************************************************)
THEOREM SyncRetriesAnnounced == Sync!Spec => []Sync!EveryRetryAnnounced
<1>1. SyncIInv => Sync!EveryRetryAnnounced
  BY DEF SyncIInv, Sync!TypeOK, SyncCounters, Sync!EveryRetryAnnounced
<1> QED
  BY <1>1, SyncInvariance, PTL

-----------------------------------------------------------------------------
(* The pauses.                                                             *)

\* The delay that is pending is an answer to the retry that is pending, and
\* every retry but the first that has begun was preceded by one of its own.
SyncPaused(e) ==
  /\ pc[e] \in {"raise", "gate", "delay"} => delay[e] \in Prescribed(retryCount[e])
  /\ \A retry \in 2..(attempts[e] - 1) : slept[e][retry] \in Prescribed(retry)

(***************************************************************************)
(* A step that begins no attempt and asks for no delay leaves the pauses   *)
(* of a call as they are.                                                  *)
(***************************************************************************)
LEMMA SyncPausedMoves ==
  ASSUME NEW e \in Executions, SyncPaused(e),
         attempts'[e] = attempts[e], slept'[e] = slept[e],
         \/ pc'[e] \in {"func", "done"}
         \/ /\ pc[e] \in {"raise", "gate", "delay"}
            /\ delay'[e] = delay[e] /\ retryCount'[e] = retryCount[e]
         \/ pc'[e] = pc[e] /\ delay'[e] = delay[e] /\ retryCount'[e] = retryCount[e]
  PROVE  SyncPaused(e)'
BY DEF SyncPaused, Prescribed, Sync!Clamp

(***************************************************************************)
(* Only DelayElapses begins an attempt after the first retry, and it has   *)
(* waited for the answer to this retry; FastFirstRetry, whenever it is     *)
(* set, is asked about the first retry only.                               *)
(***************************************************************************)
LEMMA SyncPausedStep ==
  ASSUME SyncIInv, [Sync!Next]_(Sync!vars), NEW f \in Executions, SyncPaused(f)
  PROVE  SyncPaused(f)'
<1>0. /\ retryCount[f] \in Nat /\ attempts[f] \in Nat /\ delay[f] \in Nat
      /\ SyncCounters(f) /\ Sync!TypeOK
  BY DEF SyncIInv, Sync!TypeOK
<1>1. ASSUME NEW e \in Executions, e # f, Sync!ExecuteAction(e) \/ Sync!LoopStep(e)
      PROVE  SyncPaused(f)'
  <2>1. /\ pc'[f] = pc[f] /\ delay'[f] = delay[f] /\ retryCount'[f] = retryCount[f]
        /\ attempts'[f] = attempts[f] /\ slept'[f] = slept[f]
    BY <1>0, <1>1 DEF Sync!TypeOK, Sync!LoopStep, Sync!ExecuteAction, Sync!FuncReturns,
         Sync!FuncThrowsRetryLimitExceeded, Sync!FuncThrowsNonTransient,
         Sync!FuncThrowsTransient, Sync!OnRetrying, Sync!SubscriberThrows, Sync!Pause,
         Sync!RetryAtOnce, Sync!DelayElapses, Sync!InvokeFunc, Sync!Return
  <2> QED
    BY <2>1, SyncPausedMoves
<1>2. CASE Sync!ExecuteAction(f)
  <2>1. attempts'[f] = 1 /\ pc'[f] = "func"
    BY <1>0, <1>2 DEF Sync!TypeOK, Sync!ExecuteAction, Sync!InvokeFunc, SyncCounters
  <2> QED
    BY <2>1 DEF SyncPaused
<1>3. CASE \/ Sync!FuncReturns(f)
           \/ Sync!FuncThrowsRetryLimitExceeded(f)
           \/ Sync!FuncThrowsNonTransient(f)
           \/ Sync!SubscriberThrows(f)
  <2>1. pc'[f] = "done" /\ attempts' = attempts /\ slept' = slept
    BY <1>0, <1>3 DEF Sync!TypeOK, Sync!FuncReturns, Sync!FuncThrowsRetryLimitExceeded,
         Sync!FuncThrowsNonTransient, Sync!SubscriberThrows, Sync!Return
  <2> QED
    BY <2>1, SyncPausedMoves
<1>4. CASE Sync!FuncThrowsTransient(f)
  <2>1. attempts' = attempts /\ slept' = slept /\ retryCount'[f] = retryCount[f] + 1
    BY <1>0, <1>4 DEF Sync!TypeOK, Sync!FuncThrowsTransient
  <2>2. CASE Sync!RetryAllowed(retryCount[f])
    <3>1. PICK d \in Delays[retryCount[f]] : delay'[f] = Sync!Clamp(d)
      BY <1>0, <1>4, <2>2 DEF Sync!TypeOK, Sync!FuncThrowsTransient
    <3>2. Sync!Clamp(d) \in {Sync!Clamp(x) : x \in Delays[retryCount[f]]}
      OBVIOUS
    <3>3. retryCount'[f] - 1 = retryCount[f]
      BY <1>0, <2>1
    <3>4. delay'[f] \in {Sync!Clamp(x) : x \in Delays[retryCount'[f] - 1]}
      BY <3>1, <3>2, <3>3
    <3> QED
      BY <2>1, <3>4 DEF SyncPaused, Prescribed, Sync!Clamp
  <2>3. CASE ~Sync!RetryAllowed(retryCount[f])
    <3>1. pc'[f] = "done"
      BY <1>0, <1>4, <2>3 DEF Sync!TypeOK, Sync!FuncThrowsTransient, Sync!Return
    <3> QED
      BY <2>1, <3>1, SyncPausedMoves
  <2> QED
    BY <2>2, <2>3
<1>5. CASE Sync!OnRetrying(f) \/ Sync!Pause(f)
  BY <1>0, <1>5, SyncPausedMoves DEF Sync!TypeOK, Sync!OnRetrying, Sync!Pause
<1>6. CASE Sync!RetryAtOnce(f)
  <2>1. retryCount[f] <= 1 /\ attempts'[f] = retryCount[f] + 1 /\ pc'[f] = "func"
    BY <1>0, <1>6 DEF Sync!TypeOK, Sync!RetryAtOnce, Sync!MustWait, Sync!InvokeFunc, SyncCounters
  <2> QED
    BY <1>0, <2>1 DEF SyncPaused
<1>7. CASE Sync!DelayElapses(f)
  <2>1. /\ pc[f] = "delay" /\ retryCount[f] \in 1..RetryCount /\ attempts[f] = retryCount[f]
        /\ delay[f] \in Prescribed(retryCount[f])
    BY <1>0, <1>7, RetryCountAssumption DEF Sync!DelayElapses, SyncCounters, SyncPaused
  <2>2. pc'[f] = "func" /\ attempts'[f] = retryCount[f] + 1
    BY <1>0, <1>7, <2>1 DEF Sync!TypeOK, Sync!DelayElapses, Sync!InvokeFunc
  <2>3. \A retry \in 2..retryCount[f] : slept'[f][retry] \in Prescribed(retry)
    <3> TAKE retry \in 2..retryCount[f]
    <3>1. retry \in 1..RetryCount
      BY <2>1, RetryCountAssumption
    <3>2. CASE retry = retryCount[f]
      BY <1>0, <1>7, <2>1, <3>2, SyncPauseRecorded
    <3>3. CASE retry # retryCount[f]
      <4>1. slept'[f][retry] = slept[f][retry]
        BY <1>0, <1>7, <2>1, <3>1, <3>3, SyncPauseRecorded
      <4>2. retry \in 2..(attempts[f] - 1)
        BY <1>0, <2>1, <3>3
      <4> QED
        BY <4>1, <4>2 DEF SyncPaused
    <3> QED
      BY <3>2, <3>3
  <2>4. attempts'[f] - 1 = retryCount[f]
    BY <1>0, <2>2
  <2> QED
    BY <2>2, <2>3, <2>4 DEF SyncPaused, Prescribed, Sync!Clamp
<1>8. CASE Sync!SetFastFirstRetry \/ UNCHANGED Sync!vars
  BY <1>8, SyncPausedMoves DEF Sync!SetFastFirstRetry, Sync!vars
<1> QED
  BY <1>1, <1>2, <1>3, <1>4, <1>5, <1>6, <1>7, <1>8 DEF Sync!Next, Sync!LoopStep

(***************************************************************************)
(* Between two attempts the loop has waited for what the strategy answered *)
(* to that retry, all but the first retry, whoever toggles FastFirstRetry. *)
(***************************************************************************)
THEOREM SyncRetriesSpaced == Sync!Spec => []NoHammering
<1> DEFINE AllPaused == \A e \in Executions : SyncPaused(e)
<1>1. Sync!Init => AllPaused
  <2> SUFFICES ASSUME Sync!Init, NEW e \in Executions PROVE SyncPaused(e)
    OBVIOUS
  <2>1. pc[e] = "idle" /\ attempts[e] - 1 = -1
    BY DEF Sync!Init
  <2> QED
    BY <2>1 DEF SyncPaused
<1>2. SyncIInv /\ AllPaused /\ [Sync!Next]_(Sync!vars) => AllPaused'
  BY SyncPausedStep
<1>3. AllPaused => NoHammering
  BY DEF SyncPaused, NoHammering
<1> QED
  BY <1>1, <1>2, <1>3, SyncInvariance, PTL DEF Sync!Spec

-----------------------------------------------------------------------------
(* The loop implements RetryExecution: initial states map to initial       *)
(* states, and every step maps to a step of the promise or to a stutter.   *)

SyncStatusMap == [e \in Executions |-> Sync!StatusOf(pc[e])]
SyncEndingMap == [e \in Executions |-> Sync!EndingOf(result[e].kind)]

(***************************************************************************)
(* What a step of call e does to the mapped variables: a step of the loop  *)
(* shows through the mapping only at e.                                    *)
(***************************************************************************)
LEMMA SyncStatusStep ==
  ASSUME SyncIInv, NEW e \in Executions, NEW l \in Sync!Locations,
         pc' = [pc EXCEPT ![e] = l]
  PROVE  SyncStatusMap' = [SyncStatusMap EXCEPT ![e] = Sync!StatusOf(l)]
BY DEF SyncIInv, Sync!TypeOK, SyncStatusMap

LEMMA SyncEndingStep ==
  ASSUME SyncIInv, NEW e \in Executions, NEW k \in Sync!Kinds, Sync!Return(e, k)
  PROVE  SyncEndingMap' = [SyncEndingMap EXCEPT ![e] = Sync!EndingOf(k)]
BY DEF SyncIInv, Sync!TypeOK, SyncEndingMap, Sync!Return

(***************************************************************************)
(* An ending of the loop is an ending of the promise.                      *)
(***************************************************************************)
LEMMA SyncReturnRefines ==
  ASSUME SyncIInv, NEW e \in Executions, NEW k \in Sync!Kinds, Sync!Return(e, k),
         pc[e] \in {"func", "raise"}, k # "none",
         k = "exhausted" => attempts[e] = RetryCount + 1,
         UNCHANGED <<attempts, notices>>
  PROVE  Sync!Promise!Next
<1> DEFINE why == Sync!EndingOf(k)
<1>1. SyncStatusMap' = [SyncStatusMap EXCEPT ![e] = "done"]
  <2>1. pc' = [pc EXCEPT ![e] = "done"]
    BY DEF Sync!Return
  <2> QED
    BY <2>1, SyncStatusStep DEF Sync!Locations, Sync!StatusOf
<1>2. SyncEndingMap' = [SyncEndingMap EXCEPT ![e] = why]
  BY SyncEndingStep
<1>3. SyncStatusMap[e] = "running"
  BY DEF SyncStatusMap, Sync!StatusOf
<1>4. why \in {"success", "fatal", "exhausted", "withdrawn"}
  BY DEF Sync!EndingOf, Sync!Kinds
<1>5. why = "exhausted" => attempts[e] = RetryCount + 1
  BY DEF Sync!EndingOf, Sync!Kinds
<1>6. CASE why = "withdrawn"
  BY <1>1, <1>2, <1>3, <1>6
  DEF Sync!Promise!Next, Sync!Promise!Step, Sync!Promise!Withdraw, SyncStatusMap, SyncEndingMap
<1>7. CASE why # "withdrawn"
  BY <1>1, <1>2, <1>3, <1>4, <1>5, <1>7
  DEF Sync!Promise!Next, Sync!Promise!Step, Sync!Promise!Finish, SyncStatusMap, SyncEndingMap
<1> QED
  BY <1>6, <1>7

(***************************************************************************)
(* An invocation of func is the beginning of an attempt.                   *)
(***************************************************************************)
LEMMA SyncInvokeRefines ==
  ASSUME SyncIInv, NEW e \in Executions, Sync!InvokeFunc(e),
         pc[e] \in {"idle", "gate", "delay"}, UNCHANGED <<notices, result>>
  PROVE  Sync!Promise!Next
<1>1. SyncStatusMap' = [SyncStatusMap EXCEPT ![e] = "running"]
  <2>1. pc' = [pc EXCEPT ![e] = "func"]
    BY DEF Sync!InvokeFunc
  <2> QED
    BY <2>1, SyncStatusStep DEF Sync!Locations, Sync!StatusOf
<1>2. SyncStatusMap[e] \in {"ready", "backoff"}
  BY DEF SyncStatusMap, Sync!StatusOf
<1>3. attempts' = [attempts EXCEPT ![e] = @ + 1] /\ UNCHANGED <<notices,
                                                                SyncEndingMap>>
  BY DEF Sync!InvokeFunc, SyncEndingMap
<1> QED
  BY <1>1, <1>2, <1>3
  DEF Sync!Promise!Next, Sync!Promise!Step, Sync!Promise!Begin, SyncStatusMap, SyncEndingMap

(***************************************************************************)
(* The notice raised by OnRetrying is the promise's Retry.                 *)
(***************************************************************************)
LEMMA SyncNoticeRefines ==
  ASSUME SyncIInv, NEW e \in Executions, Sync!OnRetrying(e)
  PROVE  Sync!Promise!Next
<1>1. SyncStatusMap' = [SyncStatusMap EXCEPT ![e] = "backoff"]
  <2>1. pc' = [pc EXCEPT ![e] = "gate"]
    BY DEF Sync!OnRetrying
  <2> QED
    BY <2>1, SyncStatusStep DEF Sync!Locations, Sync!StatusOf
<1>2. SyncStatusMap[e] = "running"
  BY DEF SyncStatusMap, Sync!StatusOf, Sync!OnRetrying
<1>3. attempts[e] <= RetryCount
  BY RetryCountAssumption DEF SyncIInv, Sync!TypeOK, SyncCounters, Sync!OnRetrying
<1>4. /\ notices' = [notices EXCEPT ![e] = @ + 1]
      /\ UNCHANGED <<attempts, SyncEndingMap>>
  BY DEF Sync!OnRetrying, SyncEndingMap
<1> QED
  BY <1>1, <1>2, <1>3, <1>4
  DEF Sync!Promise!Next, Sync!Promise!Step, Sync!Promise!Retry, SyncStatusMap, SyncEndingMap

(***************************************************************************)
(* Every step of the policy is a step of the promise or a stutter.         *)
(***************************************************************************)
LEMMA SyncStepRefines ==
  SyncIInv /\ [Sync!Next]_(Sync!vars) => [Sync!Promise!Next]_(Sync!Promise!vars)
<1> SUFFICES ASSUME SyncIInv, [Sync!Next]_(Sync!vars)
             PROVE  [Sync!Promise!Next]_(Sync!Promise!vars)
  OBVIOUS
<1> DEFINE Silent == UNCHANGED <<SyncStatusMap, attempts, notices, SyncEndingMap>>
<1>0. Silent => UNCHANGED Sync!Promise!vars
  BY DEF Sync!Promise!vars, SyncStatusMap, SyncEndingMap
<1>1. ASSUME NEW e \in Executions, Sync!ExecuteAction(e) PROVE Sync!Promise!Next
  BY <1>1, SyncInvokeRefines DEF Sync!ExecuteAction
<1>2. ASSUME NEW e \in Executions, Sync!FuncReturns(e) PROVE Sync!Promise!Next
  BY <1>2, SyncReturnRefines DEF Sync!FuncReturns, Sync!Kinds
<1>3. ASSUME NEW e \in Executions, Sync!FuncThrowsRetryLimitExceeded(e) PROVE Sync!Promise!Next
  BY <1>3, SyncReturnRefines DEF Sync!FuncThrowsRetryLimitExceeded, Sync!Kinds
<1>4. ASSUME NEW e \in Executions, Sync!FuncThrowsNonTransient(e) PROVE Sync!Promise!Next
  BY <1>4, SyncReturnRefines DEF Sync!FuncThrowsNonTransient, Sync!Kinds
<1>5. ASSUME NEW e \in Executions, Sync!FuncThrowsTransient(e)
      PROVE Sync!Promise!Next \/ Silent
  <2>1. CASE Sync!RetryAllowed(retryCount[e])
    <3>1. pc' = [pc EXCEPT ![e] = "raise"]
      BY <1>5, <2>1 DEF Sync!FuncThrowsTransient
    <3>2. SyncStatusMap' = [SyncStatusMap EXCEPT ![e] = "running"]
      BY <3>1, SyncStatusStep DEF Sync!Locations, Sync!StatusOf
    <3>3. SyncStatusMap[e] = "running"
      BY <1>5 DEF Sync!FuncThrowsTransient, SyncStatusMap, Sync!StatusOf
    <3>4. SyncStatusMap' = SyncStatusMap
      BY <3>2, <3>3 DEF SyncStatusMap
    <3> QED
      BY <1>5, <2>1, <3>4 DEF Sync!FuncThrowsTransient, SyncEndingMap
  <2>2. CASE ~Sync!RetryAllowed(retryCount[e])
    <3>1. attempts[e] = RetryCount + 1
      BY <1>5, <2>2, RetryCountAssumption
      DEF Sync!FuncThrowsTransient, Sync!RetryAllowed, SyncIInv, Sync!TypeOK, SyncCounters
    <3>2. Sync!Return(e, "exhausted") /\ pc[e] = "func" /\ UNCHANGED <<attempts,
                                                                       notices>>
      BY <1>5, <2>2 DEF Sync!FuncThrowsTransient
    <3> QED
      BY <3>1, <3>2, SyncReturnRefines DEF Sync!Kinds
  <2> QED
    BY <2>1, <2>2
<1>6. ASSUME NEW e \in Executions, Sync!OnRetrying(e) PROVE Sync!Promise!Next
  BY <1>6, SyncNoticeRefines
<1>7. ASSUME NEW e \in Executions, Sync!SubscriberThrows(e) PROVE Sync!Promise!Next
  BY <1>7, SyncReturnRefines DEF Sync!SubscriberThrows, Sync!Kinds
<1>8. ASSUME NEW e \in Executions, Sync!Pause(e) PROVE Silent
  <2>1. pc' = [pc EXCEPT ![e] = "delay"] /\ pc[e] = "gate"
    BY <1>8 DEF Sync!Pause
  <2>2. SyncStatusMap' = [SyncStatusMap EXCEPT ![e] = "backoff"]
    BY <2>1, SyncStatusStep DEF Sync!Locations, Sync!StatusOf
  <2>3. SyncStatusMap[e] = "backoff"
    BY <2>1 DEF SyncStatusMap, Sync!StatusOf
  <2>4. SyncStatusMap' = SyncStatusMap
    BY <2>2, <2>3 DEF SyncStatusMap
  <2> QED
    BY <1>8, <2>4 DEF Sync!Pause, SyncEndingMap
<1>9. ASSUME NEW e \in Executions, Sync!RetryAtOnce(e) PROVE Sync!Promise!Next
  BY <1>9, SyncInvokeRefines DEF Sync!RetryAtOnce
<1>10. ASSUME NEW e \in Executions, Sync!DelayElapses(e) PROVE Sync!Promise!Next
  BY <1>10, SyncInvokeRefines DEF Sync!DelayElapses
<1>11. CASE Sync!SetFastFirstRetry
  BY <1>11, <1>0 DEF Sync!SetFastFirstRetry, SyncStatusMap, SyncEndingMap
<1>12. CASE UNCHANGED Sync!vars
  BY <1>12, <1>0 DEF Sync!vars, SyncStatusMap, SyncEndingMap
<1> QED
  BY <1>0, <1>1, <1>2, <1>3, <1>4, <1>5, <1>6, <1>7, <1>8, <1>9, <1>10, <1>11, <1>12
  DEF Sync!Next, Sync!LoopStep

(***************************************************************************)
(* The safety part of the promise: every behaviour of ExecuteAction, seen  *)
(* through the mapping, is a behaviour of RetryExecution.                  *)
(***************************************************************************)
THEOREM SyncRefinement ==
  Sync!Spec => Sync!Promise!Init /\ [][Sync!Promise!Next]_(Sync!Promise!vars)
<1>1. Sync!Init => Sync!Promise!Init
  BY DEF Sync!Init, Sync!Promise!Init, Sync!StatusOf, Sync!EndingOf, Sync!NoResult
<1> QED
  BY <1>1, SyncInvariance, SyncStepRefines, PTL DEF Sync!Spec
=============================================================================
