--------------------------- MODULE RetryExecution ---------------------------
(***************************************************************************)
(* What RetryPolicy promises to the caller of ExecuteAction or             *)
(* ExecuteAsync, whatever the loop behind it looks like.  An execution     *)
(* makes one attempt at a time.  A transient failure within the budget is  *)
(* announced by one Retrying notice and followed by another attempt; every *)
(* other outcome is delivered to the caller and ends the execution.  Only  *)
(* an execution that somebody withdraws (a cancelled token, a subscriber   *)
(* of Retrying that throws) may end with the budget unspent.               *)
(***************************************************************************)
EXTENDS Naturals

CONSTANTS
  Executions,   \* the calls of ExecuteAction / ExecuteAsync
  RetryCount    \* the budget of retries of the policy's strategy, a natural number

VARIABLES
  status,     \* "ready", "running" (an attempt is under way), "backoff", "done"
  attempts,   \* attempts begun
  notices,    \* Retrying notices raised
  ending      \* why the execution ended; "none" until it does

vars == <<status, attempts, notices, ending>>

Init ==
  /\ status = [e \in Executions |-> "ready"]
  /\ attempts = [e \in Executions |-> 0]
  /\ notices = [e \in Executions |-> 0]
  /\ ending = [e \in Executions |-> "none"]

Begin(e) ==
  /\ status[e] \in {"ready", "backoff"}
  /\ status' = [status EXCEPT ![e] = "running"]
  /\ attempts' = [attempts EXCEPT ![e] = @ + 1]
  /\ UNCHANGED <<notices, ending>>

Finish(e, why) ==
  /\ status[e] = "running"
  /\ why = "exhausted" => attempts[e] = RetryCount + 1
  /\ status' = [status EXCEPT ![e] = "done"]
  /\ ending' = [ending EXCEPT ![e] = why]
  /\ UNCHANGED <<attempts, notices>>

Retry(e) ==
  /\ status[e] = "running"
  /\ attempts[e] <= RetryCount
  /\ status' = [status EXCEPT ![e] = "backoff"]
  /\ notices' = [notices EXCEPT ![e] = @ + 1]
  /\ UNCHANGED <<attempts, ending>>

Withdraw(e) ==
  /\ status[e] # "done"
  /\ status' = [status EXCEPT ![e] = "done"]
  /\ ending' = [ending EXCEPT ![e] = "withdrawn"]
  /\ UNCHANGED <<attempts, notices>>

Step(e) ==
  \/ Begin(e)
  \/ \E why \in {"success", "fatal", "exhausted"} : Finish(e, why)
  \/ Retry(e)
  \/ Withdraw(e)

Next == \E e \in Executions : Step(e)

(***************************************************************************)
(* A caller may never start its execution; a started one makes progress.   *)
(***************************************************************************)
Spec ==
  /\ Init
  /\ [][Next]_vars
  /\ \A e \in Executions : WF_vars(status[e] # "ready" /\ Step(e))

=============================================================================
