------------------------------ MODULE RetryLoop ------------------------------
(***************************************************************************)
(* What the synchronous and the asynchronous loop of a policy have in      *)
(* common: the strategy they consult, what is counted of each call, and    *)
(* how much and how fast a call may repeat, which is said here without     *)
(* either loop.                                                            *)
(***************************************************************************)
EXTENDS Integers

CONSTANTS
  Executions,   \* calls on the policy
  RetryCount,   \* _retryCount of the policy's strategy
  Delays        \* Delays[c]: intervals the strategy may answer to retry c, were it allowed

ASSUME RetryCountAssumption == RetryCount \in Nat
ASSUME DelaysAssumption == Delays \in [0..RetryCount -> SUBSET Int]

VARIABLES
  attempts,    \* invocations of the user's function
  slept        \* the delay waited for before each retry

Pauses == [1..RetryCount -> Nat]

NoResult == [kind |-> "none", attempt |-> 0]

(***************************************************************************)
(* The function is never invoked more than once plus the strategy's retry  *)
(* count, however the failures and the other calls on the policy           *)
(* interleave.                                                             *)
(***************************************************************************)
AttemptBudget == \A e \in Executions : attempts[e] <= RetryCount + 1

(***************************************************************************)
(* Whoever toggles FastFirstRetry and whenever, only the first retry can   *)
(* be immediate: before each later one the call has waited for a delay     *)
(* that the strategy answered to this very retry.  A negative answer asks  *)
(* for no wait.                                                            *)
(***************************************************************************)
Prescribed(retry) == {IF d < 0 THEN 0 ELSE d : d \in Delays[retry - 1]}

NoHammering ==
  \A e \in Executions : \A retry \in 2..(attempts[e] - 1) :
    slept[e][retry] \in Prescribed(retry)
=============================================================================
