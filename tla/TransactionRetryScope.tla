------------------------ MODULE TransactionRetryScope ------------------------
(***************************************************************************)
(* TransactionRetryScope: a unit of work that a policy retries, each time  *)
(* in a new System.Transactions.TransactionScope.  The constructor         *)
(* subscribes the scope to the policy's Retrying event and nothing ever    *)
(* unsubscribes it, so that every retry of the policy recycles every scope *)
(* built on it so far, on the thread of the retry.                         *)
(*                                                                         *)
(* The TransactionScopes of a thread form a stack (scope option Required): *)
(* a new one joins the transaction of the one below it; one that is        *)
(* disposed out of order, or from another thread, throws.  That part is    *)
(* System.Transactions, modelled as this code uses it.                     *)
(***************************************************************************)
EXTENDS Integers, SequencesExt

CONSTANTS
  Scopes,      \* the TransactionRetryScopes the program builds
  Threads,     \* the threads they are used on
  Policies,    \* the policies they are given
  RetryCount,  \* the budget of every policy
  Nobody       \* owner of a TransactionScope that no field refers to any more

ASSUME RetryCountAssumption == RetryCount \in Nat
ASSUME NobodyAssumption == Nobody \notin Scopes

VARIABLES
  thread,       \* the thread each scope is built, used and disposed on
  policy,       \* the policy each scope is given
  pc,           \* where each scope is in its life
  attempts,     \* invocations of its unitOfWork
  active,       \* per thread: scopes in use, a nested one after its parent
  within,       \* history: the scopes in use around each when it was built
  subscribers,  \* per policy: scopes in the order they subscribed
  pending,      \* handlers the retry of a scope has yet to call
  stack,        \* per thread: the TransactionScopes not yet disposed
  effects,      \* work done: by which attempt, in which transaction
  failures,     \* attempts that failed
  quits,        \* history: those that ended the retry loop by themselves
  committed,    \* transactions committed
  aborted,      \* transactions rolled back
  transactions, \* transactions begun so far
  result,       \* how the use of the scope ended
  raced         \* history: two threads renewed one scope at a time

vars == <<thread, policy, pc, attempts, active, within, subscribers, pending,
          stack, effects, failures, quits, committed, aborted, transactions,
          result, raced>>

\* Work outside any transaction is committed as it is done.
AutoCommit == -1

Init ==
  /\ thread \in [Scopes -> Threads]
  /\ policy \in [Scopes -> Policies]
  /\ pc = [s \in Scopes |-> "new"]
  /\ attempts = [s \in Scopes |-> 0]
  /\ active = [t \in Threads |-> <<>>]
  /\ within = [s \in Scopes |-> {}]
  /\ subscribers = [p \in Policies |-> <<>>]
  /\ pending = [s \in Scopes |-> <<>>]
  /\ stack = [t \in Threads |-> <<>>]
  /\ effects = {}
  /\ failures = {}
  /\ quits = {}
  /\ committed = {AutoCommit}
  /\ aborted = {}
  /\ transactions = 0
  /\ result = [s \in Scopes |-> "none"]
  /\ raced = FALSE

\* A thread runs its innermost scope.
Innermost(s) == active[thread[s]] # <<>> /\ Last(active[thread[s]]) = s

-----------------------------------------------------------------------------
(* System.Transactions.TransactionScope, on the stack of thread t.         *)

Position(t, s) == {i \in DOMAIN stack[t] : stack[t][i].owner = s}

Live(s) == \E t \in Threads : Position(t, s) # {}

\* The part of the stack below the TransactionScope of s.
Below(t, s) == SubSeq(stack[t], 1, (CHOOSE i \in Position(t, s) : TRUE) - 1)
FromOn(t, s) == SubSeq(stack[t], (CHOOSE i \in Position(t, s) : TRUE), Len(stack[t]))

OnTop(t, s) == stack[t] # <<>> /\ Last(stack[t]).owner = s

Ambient(t) == IF stack[t] = <<>> THEN AutoCommit ELSE Last(stack[t]).transaction

\* Dispose: nothing the second time; refused on a foreign thread; out of
\* order, it takes everything above down with it and throws; in order, it
\* commits what it began and completed, and rolls back what is not complete.
DisposeThrows(t, s) ==
  /\ Live(s)
  /\ OnTop(t, s) => Last(stack[t]).complete /\ Last(stack[t]).transaction \in aborted

Commits(t, s) == OnTop(t, s) /\ Last(stack[t]).complete

DisposeTransactionScope(t, s) ==
  IF Position(t, s) = {}
  THEN UNCHANGED <<committed, aborted>>
  ELSE /\ committed' =
            IF Commits(t, s) /\ Last(stack[t]).root /\ ~DisposeThrows(t, s)
            THEN committed \cup {Last(stack[t]).transaction} ELSE committed
       /\ aborted' = IF Commits(t, s) THEN aborted
                     ELSE aborted \cup {x.transaction : x \in ToSet(FromOn(t, s))}

StackWithout(t, s) == IF Position(t, s) = {} THEN stack[t] ELSE Below(t, s)

\* new TransactionScope() over the given stack: throws in an aborted transaction.
CanBegin(under, rolledBack) == under # <<>> => Last(under).transaction \notin rolledBack

Begin(under, s) ==
  Append(under,
    IF under = <<>>
    THEN [owner |-> s, transaction |-> transactions + 1, root |-> TRUE,
          complete |-> FALSE]
    ELSE [owner |-> s, transaction |-> Last(under).transaction, root |-> FALSE,
          complete |-> FALSE])

Begun(under) == IF under = <<>> THEN transactions + 1 ELSE transactions

-----------------------------------------------------------------------------
(* The life of a scope.                                                    *)

\* On an idle thread, or by the unit of work of the scope around it.  Where
\* the new TransactionScope throws there is no scope.
Construct(s) ==
  LET t == thread[s] IN
  /\ pc[s] = "new"
  /\ active[t] # <<>> => pc[Last(active[t])] = "work"
  /\ CanBegin(stack[t], aborted)
  /\ stack' = [stack EXCEPT ![t] = Begin(@, s)]
  /\ transactions' = Begun(stack[t])
  /\ active' = [active EXCEPT ![t] = Append(@, s)]
  /\ within' = [within EXCEPT ![s] = ToSet(active[t])]
  /\ subscribers' = [subscribers EXCEPT ![policy[s]] = Append(@, s)]
  /\ pc' = [pc EXCEPT ![s] = "built"]
  /\ UNCHANGED <<attempts, pending, effects, failures, quits, committed,
                 aborted, result, raced>>

InvokeUnitOfWork(s) ==
  /\ Innermost(s)
  /\ pc[s] = "built"
  /\ pc' = [pc EXCEPT ![s] = "work"]
  /\ attempts' = [attempts EXCEPT ![s] = 1]
  /\ UNCHANGED <<active, within, subscribers, pending, stack, effects, failures,
                 quits, committed, aborted, transactions, result, raced>>

\* What an attempt writes belongs to the ambient transaction of its thread.
Work(s) ==
  effects' = effects \cup
    {[scope |-> s, attempt |-> attempts[s],
      transaction |-> Ambient(thread[s])]}

\* In a transaction that was rolled back a unit of work can only succeed that
\* writes nothing more.
WorkSucceeds(s) ==
  /\ Innermost(s)
  /\ pc[s] = "work"
  /\ IF Ambient(thread[s]) \in aborted THEN UNCHANGED effects ELSE Work(s)
  /\ pc' = [pc EXCEPT ![s] = "worked"]
  /\ UNCHANGED <<attempts, active, within, subscribers, pending, stack, failures,
                 quits, committed, aborted, transactions, result, raced>>

Handlers_OfEveryPolicy(s) == FlattenSeq(SetToSeq({subscribers[p] : p \in Policies}))

\* The subscribers of the policy of s, in order.
Handlers(s) == subscribers[policy[s]]

BudgetLeft(s) == attempts[s] <= RetryCount

\* A transient failure with budget left raises Retrying.
WorkFails(s) ==
  /\ Innermost(s)
  /\ pc[s] = "work"
  /\ Work(s)
  /\ failures' = failures \cup {<<s, attempts[s]>>}
  /\ \/ /\ BudgetLeft(s)
        /\ pc' = [pc EXCEPT ![s] = "retrying"]
        /\ pending' = [pending EXCEPT ![s] = Handlers(s)]
        /\ UNCHANGED result
     \/ /\ pc' = [pc EXCEPT ![s] = "failed"]
        /\ result' = [result EXCEPT ![s] = "error"]
        /\ UNCHANGED pending
  /\ UNCHANGED <<attempts, active, within, subscribers, stack, quits, committed,
                 aborted, transactions, raced>>

\* The unit of work throws RetryLimitExceededException with no exception
\* inside: ExecuteAction swallows it and InvokeUnitOfWork returns like one that
\* succeeded.  (With one inside, that one is thrown on: WorkFails.)
WorkQuits(s) ==
  /\ Innermost(s)
  /\ pc[s] = "work"
  /\ Work(s)
  /\ failures' = failures \cup {<<s, attempts[s]>>}
  /\ quits' = quits \cup {<<s, attempts[s]>>}
  /\ pc' = [pc EXCEPT ![s] = "worked"]
  /\ UNCHANGED <<attempts, active, within, subscribers, pending, stack,
                 committed, aborted, transactions, result, raced>>

\* The scope whose handler s is calling.
Recycled(s) == Head(pending[s])

Interrupt(s) ==
  /\ pending' = [pending EXCEPT ![s] = <<>>]
  /\ pc' = [pc EXCEPT ![s] = "failed"]
  /\ result' = [result EXCEPT ![s] = "interrupted"]

\* The other threads that are past the Dispose and not yet at the assignment.
RenewedElsewhere(s) ==
  \E r \in Scopes \ {s} : pc[r] = "renewing" /\ Recycled(r) = Recycled(s)

Recycle_KeepsTheTransaction(s) ==
  /\ pc[s] = "retrying"
  /\ pending[s] # <<>>
  /\ pending' = [pending EXCEPT ![s] = Tail(@)]
  /\ UNCHANGED <<pc, attempts, active, within, subscribers, stack, effects,
                 failures, quits, committed, aborted, transactions, result, raced>>

\* The Retrying handler of the scope that is next in line, first half: dispose
\* its TransactionScope, which interrupts the retry cycle when it throws
\* (RetryLimitExceededException).  That the field is read in the same step hides
\* nothing: another thread that replaces it meanwhile has disposed it before,
\* and to dispose it then is to do nothing, as it is in this step.
Recycle(s) ==
  LET t == thread[s] IN
  /\ pc[s] = "retrying"
  /\ pending[s] # <<>>
  /\ DisposeTransactionScope(t, Recycled(s))
  /\ stack' = [stack EXCEPT ![t] = StackWithout(t, Recycled(s))]
  /\ IF DisposeThrows(t, Recycled(s))
     THEN Interrupt(s) /\ UNCHANGED raced
     ELSE /\ pc' = [pc EXCEPT ![s] = "renewing"]
          /\ raced' = (raced \/ RenewedElsewhere(s))
          /\ UNCHANGED <<pending, result>>
  /\ UNCHANGED <<attempts, active, within, subscribers, effects, failures, quits,
                 transactions>>

\* Nobody can dispose what another thread put into the field of q meanwhile.
Orphaned(u, q) ==
  [i \in DOMAIN stack[u] |->
     IF stack[u][i].owner = q THEN [stack[u][i] EXCEPT !.owner = Nobody]
     ELSE stack[u][i]]

\* Second half: a new TransactionScope, on this thread and in place of whatever
\* the field holds by now; where it throws, the field keeps what it holds.  (To
\* build it and to assign it is one step: until the field has it, no other
\* thread can tell that it is there.)
Renew(s) ==
  LET t == thread[s]
      q == Recycled(s)
  IN
  /\ pc[s] = "renewing"
  /\ pending[s] # <<>>
  /\ IF CanBegin(stack[t], aborted)
     THEN /\ stack' = [u \in Threads |->
                         IF u = t THEN Begin(Orphaned(u, q), q) ELSE Orphaned(u, q)]
          /\ transactions' = Begun(stack[t])
          /\ pending' = [pending EXCEPT ![s] = Tail(@)]
          /\ pc' = [pc EXCEPT ![s] = "retrying"]
          /\ UNCHANGED result
     ELSE Interrupt(s) /\ UNCHANGED <<stack, transactions>>
  /\ UNCHANGED <<attempts, active, within, subscribers, effects, failures, quits,
                 committed, aborted, raced>>

Retry(s) ==
  /\ pc[s] = "retrying"
  /\ pending[s] = <<>>
  /\ attempts' = [attempts EXCEPT ![s] = @ + 1]
  /\ pc' = [pc EXCEPT ![s] = "work"]
  /\ UNCHANGED <<active, within, subscribers, pending, stack, effects, failures,
                 quits, committed, aborted, transactions, result, raced>>

Complete_OfTheFirstTransaction(s) ==
  /\ Innermost(s)
  /\ pc[s] = "worked"
  /\ pc' = [pc EXCEPT ![s] = IF Live(s) THEN "completed" ELSE "failed"]
  /\ result' = [result EXCEPT ![s] = IF Live(s) THEN @ ELSE "spoilt"]
  /\ stack' = [t \in Threads |->
       [i \in DOMAIN stack[t] |->
          IF stack[t][i].owner = s /\ attempts[s] = 1
          THEN [stack[t][i] EXCEPT !.complete = TRUE]
          ELSE stack[t][i]]]
  /\ UNCHANGED <<attempts, active, within, subscribers, pending, effects,
                 failures, quits, committed, aborted, transactions, raced>>

\* transactionScope.Complete(), on whatever the field holds by now: it throws
\* on a TransactionScope that has been disposed.
Complete(s) ==
  /\ Innermost(s)
  /\ pc[s] = "worked"
  /\ pc' = [pc EXCEPT ![s] = IF Live(s) THEN "completed" ELSE "failed"]
  /\ result' = [result EXCEPT ![s] = IF Live(s) THEN @ ELSE "spoilt"]
  /\ stack' = [t \in Threads |->
       [i \in DOMAIN stack[t] |->
          IF stack[t][i].owner = s THEN [stack[t][i] EXCEPT !.complete = TRUE]
          ELSE stack[t][i]]]
  /\ UNCHANGED <<attempts, active, within, subscribers, pending, effects,
                 failures, quits, committed, aborted, transactions, raced>>

Dispose_OfACompletedScopeOnly(s) ==
  LET t == thread[s] IN
  /\ Innermost(s)
  /\ pc[s] \in {"completed", "failed"}
  /\ IF pc[s] = "completed"
     THEN DisposeTransactionScope(t, s) /\ stack' = [stack EXCEPT ![t] = StackWithout(t, s)]
     ELSE UNCHANGED <<committed, aborted, stack>>
  /\ pc' = [pc EXCEPT ![s] = "done"]
  /\ active' = [active EXCEPT ![t] = Front(@)]
  /\ result' = [result EXCEPT ![s] =
       CASE pc[s] = "failed" -> @
         [] pc[s] = "completed" ->
              IF DisposeThrows(t, s) THEN "spoilt" ELSE "success"]
  /\ UNCHANGED <<attempts, within, subscribers, pending, effects, failures, quits,
                 transactions, raced>>

Dispose_OnSuccessOnly(s) ==
  LET t == thread[s] IN
  /\ Innermost(s)
  /\ pc[s] = "completed"
  /\ DisposeTransactionScope(t, s)
  /\ stack' = [stack EXCEPT ![t] = StackWithout(t, s)]
  /\ pc' = [pc EXCEPT ![s] = "done"]
  /\ active' = [active EXCEPT ![t] = Front(@)]
  /\ result' = [result EXCEPT ![s] = IF DisposeThrows(t, s) THEN "spoilt" ELSE "success"]
  /\ UNCHANGED <<attempts, within, subscribers, pending, effects, failures, quits,
                 transactions, raced>>

\* The end of the using block.
Dispose(s) ==
  LET t == thread[s] IN
  /\ Innermost(s)
  /\ pc[s] \in {"completed", "failed"}
  /\ DisposeTransactionScope(t, s)
  /\ stack' = [stack EXCEPT ![t] = StackWithout(t, s)]
  /\ pc' = [pc EXCEPT ![s] = "done"]
  /\ active' = [active EXCEPT ![t] = Front(@)]
  /\ result' = [result EXCEPT ![s] =
       CASE pc[s] = "failed" -> @
         [] pc[s] = "completed" ->
              IF DisposeThrows(t, s) THEN "spoilt" ELSE "success"]
  /\ UNCHANGED <<attempts, within, subscribers, pending, effects, failures, quits,
                 transactions, raced>>

-----------------------------------------------------------------------------

ScopeStep(s) ==
  \/ InvokeUnitOfWork(s) \/ WorkSucceeds(s) \/ WorkFails(s) \/ WorkQuits(s)
  \/ Recycle(s) \/ Renew(s) \/ Retry(s) \/ Complete(s) \/ Dispose(s)

Next ==
  /\ \E s \in Scopes : Construct(s) \/ ScopeStep(s)
  /\ UNCHANGED <<thread, policy>>

(***************************************************************************)
(* A scope that was built is used and disposed by its thread.              *)
(***************************************************************************)
Spec ==
  /\ Init
  /\ [][Next]_vars
  /\ \A s \in Scopes : WF_vars(ScopeStep(s) /\ UNCHANGED <<thread, policy>>)

-----------------------------------------------------------------------------
(* Properties.                                                             *)

\* A scope in the unit of work of another one on the same policy.
NestedOnOnePolicy == \E s, q \in Scopes : q \in within[s] /\ policy[q] = policy[s]

(***************************************************************************)
(* Whatever the retries of one scope recycle, on whichever thread, and     *)
(* also where two threads race for one field: what a failed attempt wrote  *)
(* is in no committed transaction, even if a later attempt succeeds.  The  *)
(* first exception are scopes nested on one policy, where the retry of the *)
(* inner one leaves the outer without a transaction; the second an attempt *)
(* that ended the loop with an empty RetryLimitExceededException, which    *)
(* the policy takes for done and the using block completes.                *)
(***************************************************************************)
FailedWorkNeverCommits ==
  ~NestedOnOnePolicy =>
    \A x \in effects :
      <<x.scope, x.attempt>> \in failures \ quits => x.transaction \notin committed

(***************************************************************************)
(* A scope that is in no other one and whose use ended in success has      *)
(* committed what its last attempt wrote, unless two threads have renewed  *)
(* one scope at a time: the TransactionScope one of them loses to the      *)
(* other stays ambient, and a later scope that joins it commits nothing.   *)
(***************************************************************************)
SuccessIsDurable ==
  ~raced =>
    \A x \in effects :
      /\ result[x.scope] = "success"
      /\ within[x.scope] = {}
      /\ x.attempt = attempts[x.scope]
      => x.transaction \in committed

(***************************************************************************)
(* A thread is left as it was found: when its scopes are done, no          *)
(* TransactionScope, also of a scope that was done long ago, is ambient on *)
(* it for unrelated work.  The exceptions are the nesting on one policy:   *)
(* an outer scope that lost its transaction may renew an older one below   *)
(* its own; and the race, which leaves one that no field refers to.        *)
(***************************************************************************)
NoStrayTransaction ==
  ~NestedOnOnePolicy /\ ~raced =>
    \A t \in Threads : active[t] = <<>> => stack[t] = <<>>

(***************************************************************************)
(* A scope with a policy of its own, in no other one, has every retry of   *)
(* its budget, also when scopes are nested in it or used beside it, unless *)
(* a race of others has left a transaction on its thread that it joins and *)
(* its retry rolls back.                                                   *)
(***************************************************************************)
OwnPolicyRetries ==
  ~raced =>
    \A s \in Scopes : result[s] = "interrupted" =>
      within[s] # {} \/ Len(subscribers[policy[s]]) > 1

(***************************************************************************)
(* "Executes the underlying unit of work and retries as prescribed by the  *)
(* current retry policy": no retry of a scope that is the only one in use  *)
(* is cut short.                                                           *)
(***************************************************************************)
RetriesAsPrescribed ==
  \A s \in Scopes : pc[s] = "failed" /\ result[s] = "interrupted" =>
    \E q \in Scopes \ {s} : pc[q] \notin {"new", "done"}


(***************************************************************************)
(* The use of a scope that was built comes to its end.                     *)
(***************************************************************************)
Termination == \A s \in Scopes : pc[s] # "new" ~> pc[s] = "done"
=============================================================================
