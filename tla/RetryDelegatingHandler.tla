----------------------- MODULE RetryDelegatingHandler -----------------------
(***************************************************************************)
(* RetryDelegatingHandler.SendAsync: the requests in flight on one handler *)
(* retry through its policy and share its private event internalRetrying.  *)
(* A request that gets an error status registers a closure that disposes   *)
(* and forgets its responseMessage; any retry of the policy fires every    *)
(* registered closure, and every request clears the whole event when it    *)
(* ends.  A response is named by the attempt that received it; 0 is null.  *)
(* The policy's loop is AsyncExecution seen from here: a budget, a notice  *)
(* before each retry, no cancellation.                                     *)
(***************************************************************************)
EXTENDS Integers

CONSTANTS
  Requests,      \* requests sent through the handler
  RetryCount,    \* the budget of the handler's policy
  Subscribed     \* the constructor used subscribed the handler to Retrying

ASSUME RetryCountAssumption == RetryCount \in Nat
ASSUME SubscribedAssumption == Subscribed \in BOOLEAN

VARIABLES
  pc,                \* where each request is in SendAsync
  attempts,          \* calls of base.SendAsync
  responseMessage,   \* the local that the closures capture
  transient,         \* the failure at hand is one the policy retries
  internalRetrying,  \* the event: how often each request's closure is in it
  invocation,        \* closures still to fire, or listed for removal, by a request
  closure,           \* whose closure a request runs between its check and its end
  disposed,          \* responses disposed, as <<request, attempt>>
  received,          \* responses received, as <<request, attempt>>
  result,            \* what SendAsync ended with
  overlapping        \* history: requests that had another one in flight beside them

vars == <<pc, attempts, responseMessage, transient, internalRetrying,
          invocation, closure, disposed, received, result, overlapping>>

Attempts == 1..(RetryCount + 1)
Locations == {"idle", "send", "inspect", "register", "status", "decide", "fire",
              "dispose", "forget", "catch", "evaluate", "finally", "list", "remove", "done"}
NoResult == [kind |-> "none", attempt |-> 0]
NoClosures == [q \in Requests |-> 0]

Init ==
  /\ pc = [r \in Requests |-> "idle"]
  /\ attempts = [r \in Requests |-> 0]
  /\ responseMessage = [r \in Requests |-> 0]
  /\ transient = [r \in Requests |-> FALSE]
  /\ internalRetrying = NoClosures
  /\ invocation = [r \in Requests |-> NoClosures]
  /\ closure = [r \in Requests |-> r]
  /\ disposed = {}
  /\ received = {}
  /\ result = [r \in Requests |-> NoResult]
  /\ overlapping = {}

GoTo(r, location) == pc' = [pc EXCEPT ![r] = location]

InFlight == {r \in Requests : pc[r] \notin {"idle", "done"}}

\* The event field is null when it has no delegate.
HasDelegates(event) == \E q \in Requests : event[q] > 0

-----------------------------------------------------------------------------
(* The lambda given to the policy.                                         *)

SendAsync(r) ==
  /\ pc[r] = "idle"
  /\ GoTo(r, "send")
  /\ attempts' = [attempts EXCEPT ![r] = 1]
  /\ overlapping' = IF InFlight = {} THEN overlapping
                    ELSE overlapping \cup InFlight \cup {r}
  /\ UNCHANGED <<responseMessage, transient, internalRetrying, invocation,
                 closure, disposed, received, result>>

ReceiveResponse(r) ==
  /\ pc[r] = "send"
  /\ responseMessage' = [responseMessage EXCEPT ![r] = attempts[r]]
  /\ received' = received \cup {<<r, attempts[r]>>}
  /\ GoTo(r, "inspect")
  /\ UNCHANGED <<attempts, transient, internalRetrying, invocation, closure,
                 disposed, result, overlapping>>

\* IsSuccessStatusCode is read from the local: a closure registered by an
\* earlier attempt may have nulled it already, and that is not transient.
InspectResponse(r) ==
  /\ pc[r] = "inspect"
  /\ IF responseMessage[r] # 0
     THEN /\ \E location \in {"evaluate", "register"} : GoTo(r, location)
          /\ UNCHANGED transient
     ELSE /\ GoTo(r, "decide")
          /\ transient' = [transient EXCEPT ![r] = FALSE]
  /\ UNCHANGED <<attempts, responseMessage, internalRetrying, invocation,
                 closure, disposed, received, result, overlapping>>

\* base.SendAsync throws: responseMessage keeps what it held.
SendThrows(r) ==
  /\ pc[r] = "send"
  /\ \E t \in BOOLEAN : transient' = [transient EXCEPT ![r] = t]
  /\ GoTo(r, "decide")
  /\ UNCHANGED <<attempts, responseMessage, internalRetrying, invocation,
                 closure, disposed, received, result, overlapping>>

\* An error status: register the closure ...
RegisterClosure(r) ==
  /\ pc[r] = "register"
  /\ internalRetrying' = [internalRetrying EXCEPT ![r] = @ + 1]
  /\ GoTo(r, "status")
  /\ UNCHANGED <<attempts, responseMessage, transient, invocation, closure,
                 disposed, received, result, overlapping>>

\* ... and throw.  Reading the status of a response that another request's
\* retry has nulled meanwhile throws too, and that is not transient.
ThrowStatus(r) ==
  /\ pc[r] = "status"
  /\ \E t \in BOOLEAN :
       /\ t => responseMessage[r] # 0
       /\ transient' = [transient EXCEPT ![r] = t]
  /\ GoTo(r, "decide")
  /\ UNCHANGED <<attempts, responseMessage, internalRetrying, invocation,
                 closure, disposed, received, result, overlapping>>

-----------------------------------------------------------------------------
(* The policy.                                                             *)

RaiseRetrying_NotForwarded(r) ==
  /\ pc[r] = "decide"
  /\ transient[r] /\ attempts[r] <= RetryCount
  /\ GoTo(r, "fire")
  /\ UNCHANGED <<attempts, responseMessage, transient, internalRetrying,
                 invocation, closure, disposed, received, result,
                 overlapping>>

\* Retrying is raised; the handler's subscription, if it has one, passes it on
\* to the delegates registered at that moment.
RaiseRetrying(r) ==
  /\ pc[r] = "decide"
  /\ transient[r] /\ attempts[r] <= RetryCount
  /\ invocation' = [invocation EXCEPT ![r] =
       IF Subscribed THEN internalRetrying ELSE NoClosures]
  /\ GoTo(r, "fire")
  /\ UNCHANGED <<attempts, responseMessage, transient, internalRetrying,
                 closure, disposed, received, result, overlapping>>

\* One closure, of any request q, finds a response in its local.  A closure
\* that finds none is over.
FireClosure(r, q) ==
  /\ pc[r] = "fire"
  /\ invocation[r][q] > 0
  /\ invocation' = [invocation EXCEPT ![r][q] = @ - 1]
  /\ IF responseMessage[q] # 0
     THEN GoTo(r, "dispose") /\ closure' = [closure EXCEPT ![r] = q]
     ELSE UNCHANGED <<pc, closure>>
  /\ UNCHANGED <<attempts, responseMessage, transient, internalRetrying, disposed,
                 received, result, overlapping>>

\* It reads the local again to dispose the response.  If another retry has
\* nulled it meanwhile, the closure throws, and with it the policy: the other
\* closures are not fired and there is no retry.
DisposeResponse(r) ==
  /\ pc[r] = "dispose"
  /\ IF responseMessage[closure[r]] # 0
     THEN /\ disposed' = disposed \cup {<<closure[r], responseMessage[closure[r]]>>}
          /\ GoTo(r, "forget")
          /\ UNCHANGED <<invocation, closure>>
     ELSE /\ invocation' = [invocation EXCEPT ![r] = NoClosures]
          /\ closure' = [closure EXCEPT ![r] = r]
          /\ GoTo(r, "catch")
          /\ UNCHANGED disposed
  /\ UNCHANGED <<attempts, responseMessage, transient, internalRetrying, received,
                 result, overlapping>>

ForgetResponse_KeepsTheReference(r) ==
  /\ pc[r] = "forget"
  /\ closure' = [closure EXCEPT ![r] = r]
  /\ GoTo(r, "fire")
  /\ UNCHANGED <<attempts, responseMessage, transient, internalRetrying, invocation,
                 disposed, received, result, overlapping>>

\* It nulls the local, whatever that holds by now.
ForgetResponse(r) ==
  /\ pc[r] = "forget"
  /\ responseMessage' = [responseMessage EXCEPT ![closure[r]] = 0]
  /\ closure' = [closure EXCEPT ![r] = r]
  /\ GoTo(r, "fire")
  /\ UNCHANGED <<attempts, transient, internalRetrying, invocation, disposed,
                 received, result, overlapping>>

Retry(r) ==
  /\ pc[r] = "fire"
  /\ ~HasDelegates(invocation[r])
  /\ attempts' = [attempts EXCEPT ![r] = @ + 1]
  /\ GoTo(r, "send")
  /\ UNCHANGED <<responseMessage, transient, internalRetrying, invocation,
                 closure, disposed, received, result, overlapping>>

GiveUp(r) ==
  /\ pc[r] = "decide"
  /\ ~(transient[r] /\ attempts[r] <= RetryCount)
  /\ GoTo(r, "catch")
  /\ UNCHANGED <<attempts, responseMessage, transient, internalRetrying,
                 invocation, closure, disposed, received, result,
                 overlapping>>

-----------------------------------------------------------------------------
(* After the policy: return, catch and finally.                            *)

Catch(r) ==
  /\ pc[r] = "catch"
  /\ IF responseMessage[r] # 0
     THEN GoTo(r, "evaluate") /\ UNCHANGED result
     ELSE /\ GoTo(r, "finally")
          /\ result' = [result EXCEPT ![r] = [kind |-> "exception", attempt |-> 0]]
  /\ UNCHANGED <<attempts, responseMessage, transient, internalRetrying,
                 invocation, closure, disposed, received, overlapping>>

\* "return responseMessage" reads the local again.
EvaluateResponse(r) ==
  /\ pc[r] = "evaluate"
  /\ result' = [result EXCEPT ![r] =
       [kind |-> IF responseMessage[r] # 0 THEN "response" ELSE "null",
        attempt |-> responseMessage[r]]]
  /\ GoTo(r, "finally")
  /\ UNCHANGED <<attempts, responseMessage, transient, internalRetrying,
                 invocation, closure, disposed, received, overlapping>>

Finally(r) ==
  /\ pc[r] = "finally"
  /\ GoTo(r, IF HasDelegates(internalRetrying) THEN "list" ELSE "done")
  /\ UNCHANGED <<attempts, responseMessage, transient, internalRetrying,
                 invocation, closure, disposed, received, result,
                 overlapping>>

\* The field is read again: another request may have emptied it by now.
ListDelegates(r) ==
  /\ pc[r] = "list"
  /\ IF HasDelegates(internalRetrying)
     THEN /\ invocation' = [invocation EXCEPT ![r] = internalRetrying]
          /\ GoTo(r, "remove")
          /\ UNCHANGED result
     ELSE /\ result' = [result EXCEPT ![r] = [kind |-> "nullReference", attempt |-> 0]]
          /\ GoTo(r, "done")
          /\ UNCHANGED invocation
  /\ UNCHANGED <<attempts, responseMessage, transient, internalRetrying,
                 closure, disposed, received, overlapping>>

RemoveDelegates_OneOfEach(r) ==
  /\ pc[r] = "remove"
  /\ internalRetrying' = [q \in Requests |->
       IF internalRetrying[q] > 0 /\ invocation[r][q] > 0
       THEN internalRetrying[q] - 1 ELSE internalRetrying[q]]
  /\ invocation' = [invocation EXCEPT ![r] = NoClosures]
  /\ GoTo(r, "done")
  /\ UNCHANGED <<attempts, responseMessage, transient, closure, disposed,
                 received, result, overlapping>>

\* Each -= takes one occurrence away, if there is one left.  The removals are
\* one step: they commute with the registrations of other requests.
RemoveDelegates(r) ==
  /\ pc[r] = "remove"
  /\ internalRetrying' = [q \in Requests |->
       IF internalRetrying[q] > invocation[r][q]
       THEN internalRetrying[q] - invocation[r][q] ELSE 0]
  /\ invocation' = [invocation EXCEPT ![r] = NoClosures]
  /\ GoTo(r, "done")
  /\ UNCHANGED <<attempts, responseMessage, transient, closure, disposed,
                 received, result, overlapping>>

-----------------------------------------------------------------------------

RequestStep(r) ==
  \/ ReceiveResponse(r) \/ SendThrows(r) \/ InspectResponse(r)
  \/ RegisterClosure(r) \/ ThrowStatus(r)
  \/ RaiseRetrying(r) \/ (\E q \in Requests : FireClosure(r, q))
  \/ DisposeResponse(r) \/ ForgetResponse(r) \/ Retry(r) \/ GiveUp(r)
  \/ Catch(r) \/ EvaluateResponse(r) \/ Finally(r) \/ ListDelegates(r) \/ RemoveDelegates(r)

Next == \E r \in Requests : SendAsync(r) \/ RequestStep(r)

Spec == Init /\ [][Next]_vars

-----------------------------------------------------------------------------
(* Properties.                                                             *)

(***************************************************************************)
(* However requests interleave, one that has ended leaves none of its      *)
(* closures in the shared event, where a later retry would run them.       *)
(***************************************************************************)
NoDanglingClosure ==
  \A r \in Requests : pc[r] = "done" => internalRetrying[r] = 0

(***************************************************************************)
(* "Dispose the message unless we have stopped retrying": a request that   *)
(* has the handler to itself leaves no response open but the one its       *)
(* caller gets.                                                            *)
(***************************************************************************)
RetriedResponsesDisposed ==
  \A r \in Requests \ overlapping : pc[r] = "done" =>
    \A k \in Attempts : <<r, k>> \in received /\ result[r].attempt # k
                          => <<r, k>> \in disposed

(***************************************************************************)
(* A request that has the handler to itself is answered with the response  *)
(* of its last attempt, still open, and not with one from before a retry   *)
(* that failed without a response; it never gets null or an exception of   *)
(* the handler's own, whatever earlier requests left behind.               *)
(***************************************************************************)
ReturnsLastResponse ==
  \A r \in Requests \ overlapping :
    /\ result[r].kind = "response" => /\ result[r].attempt = attempts[r]
                                      /\ <<r, result[r].attempt>> \notin disposed
    /\ result[r].kind \notin {"null", "nullReference"}

(***************************************************************************)
(* "Dispose the message unless we have stopped retrying": the response a   *)
(* caller gets has not been disposed, whatever other requests do.          *)
(***************************************************************************)
ReturnedResponseUsable ==
  \A r \in Requests : result[r].kind = "response" =>
    <<r, result[r].attempt>> \notin disposed
=============================================================================
