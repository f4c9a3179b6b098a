-------------------- MODULE RetryDelegatingHandlerProofs --------------------
(***************************************************************************)
(* RetryDelegatingHandler, for any number of requests and any budget.      *)
(* First its clean-up: although every request registers in and removes     *)
(* from one shared event without a lock, and may find it emptied under its *)
(* hands, no closure survives the request it belongs to.  Then what a      *)
(* request gets that has the handler to itself.                            *)
(***************************************************************************)
EXTENDS RetryDelegatingHandler, TLAPS

EventType ==
  /\ pc \in [Requests -> Locations]
  /\ internalRetrying \in [Requests -> Nat]
  /\ invocation \in [Requests -> [Requests -> Nat]]
  /\ closure \in [Requests -> Requests]

\* A request about to remove has listed at least its own registrations: it
\* registers no more, and the others can only have taken some away.
Listed(r) == pc[r] = "remove" => internalRetrying[r] <= invocation[r][r]

Gone(r) == pc[r] = "done" => internalRetrying[r] = 0

IInv == EventType /\ \A r \in Requests : Listed(r) /\ Gone(r)

(***************************************************************************)
(* The invariant holds before any request.                                 *)
(***************************************************************************)
LEMMA InitIInv == Init => IInv
BY DEF Init, IInv, EventType, Listed, Gone, NoClosures, Locations

(***************************************************************************)
(* A step that leaves the event and the listings alone keeps the           *)
(* invariant, if it neither enters nor leaves a place the invariant names. *)
(***************************************************************************)
LEMMA QuietStep ==
  ASSUME IInv, NEW r \in Requests, NEW l \in Locations \ {"remove", "done"},
         GoTo(r, l), UNCHANGED <<internalRetrying, invocation, closure>>
  PROVE  IInv'
BY DEF IInv, EventType, Listed, Gone, GoTo, Locations

(***************************************************************************)
(* Every step of a request keeps it.                                       *)
(***************************************************************************)
LEMMA NextIInv == IInv /\ [Next]_vars => IInv'
<1> SUFFICES ASSUME IInv, [Next]_vars PROVE IInv'
  OBVIOUS
<1>1. ASSUME NEW r \in Requests, SendAsync(r) PROVE IInv'
  BY <1>1, QuietStep DEF SendAsync, Locations
<1>2. ASSUME NEW r \in Requests, ReceiveResponse(r) PROVE IInv'
  BY <1>2, QuietStep DEF ReceiveResponse, Locations
<1>3. ASSUME NEW r \in Requests, SendThrows(r) PROVE IInv'
  BY <1>3, QuietStep DEF SendThrows, Locations
<1>4. ASSUME NEW r \in Requests, InspectResponse(r) PROVE IInv'
  BY <1>4, QuietStep DEF InspectResponse, Locations
<1>5. ASSUME NEW r \in Requests, RegisterClosure(r) PROVE IInv'
  BY <1>5 DEF RegisterClosure, GoTo, IInv, EventType, Listed, Gone, Locations
<1>6. ASSUME NEW r \in Requests, ThrowStatus(r) PROVE IInv'
  BY <1>6, QuietStep DEF ThrowStatus, Locations
<1>7. ASSUME NEW r \in Requests, RaiseRetrying(r) PROVE IInv'
  BY <1>7 DEF RaiseRetrying, GoTo, IInv, EventType, Listed, Gone, Locations, NoClosures
<1>8. ASSUME NEW r \in Requests, NEW q \in Requests, FireClosure(r, q) PROVE IInv'
  <2>1. /\ pc[r] = "fire" /\ pc' \in [Requests -> Locations]
        /\ pc'[r] \in {"fire", "dispose"} /\ \A x \in Requests \ {r} : pc'[x] = pc[x]
    BY <1>8 DEF FireClosure, GoTo, IInv, EventType, Locations
  <2>2. /\ internalRetrying' = internalRetrying /\ closure' \in [Requests -> Requests]
        /\ \A x \in Requests \ {r} : invocation'[x] = invocation[x]
    BY <1>8 DEF FireClosure, IInv, EventType
  <2>3. invocation' \in [Requests -> [Requests -> Nat]]
    <3>1. invocation[r][q] - 1 \in Nat /\ invocation' = [invocation EXCEPT ![r][q] = @ - 1]
      BY <1>8 DEF FireClosure, IInv, EventType
    <3> QED
      BY <3>1 DEF IInv, EventType
  <2> QED
    BY <2>1, <2>2, <2>3 DEF IInv, EventType, Listed, Gone
<1>9. ASSUME NEW r \in Requests, Retry(r) PROVE IInv'
  BY <1>9, QuietStep DEF Retry, Locations
<1>10. ASSUME NEW r \in Requests, GiveUp(r) PROVE IInv'
  BY <1>10, QuietStep DEF GiveUp, Locations
<1>11. ASSUME NEW r \in Requests, Catch(r) PROVE IInv'
  BY <1>11, QuietStep DEF Catch, Locations
<1>12. ASSUME NEW r \in Requests, EvaluateResponse(r) PROVE IInv'
  BY <1>12, QuietStep DEF EvaluateResponse, Locations
<1>13. ASSUME NEW r \in Requests, Finally(r) PROVE IInv'
  BY <1>13 DEF Finally, GoTo, HasDelegates, IInv, EventType, Listed, Gone, Locations
<1>14. ASSUME NEW r \in Requests, ListDelegates(r) PROVE IInv'
  <2>1. CASE HasDelegates(internalRetrying)
    <3>1. /\ pc' = [pc EXCEPT ![r] = "remove"] /\ internalRetrying' = internalRetrying
          /\ invocation' = [invocation EXCEPT ![r] = internalRetrying] /\ closure' = closure
      BY <1>14, <2>1 DEF ListDelegates, GoTo
    <3> QED
      BY <3>1 DEF IInv, EventType, Listed, Gone, Locations
  <2>2. CASE ~HasDelegates(internalRetrying)
    <3>1. /\ pc' = [pc EXCEPT ![r] = "done"] /\ internalRetrying' = internalRetrying
          /\ invocation' = invocation /\ closure' = closure
      BY <1>14, <2>2 DEF ListDelegates, GoTo
    <3>2. internalRetrying[r] = 0
      BY <2>2 DEF HasDelegates, IInv, EventType
    <3> QED
      BY <3>1, <3>2 DEF IInv, EventType, Listed, Gone, Locations
  <2> QED
    BY <2>1, <2>2
<1>15. ASSUME NEW r \in Requests, RemoveDelegates(r) PROVE IInv'
  BY <1>15 DEF RemoveDelegates, GoTo, IInv, EventType, Listed, Gone, Locations, NoClosures
<1>16. ASSUME NEW r \in Requests, DisposeResponse(r) PROVE IInv'
  <2>1. CASE responseMessage[closure[r]] # 0
    BY <1>16, <2>1, QuietStep DEF DisposeResponse, Locations
  <2>2. CASE responseMessage[closure[r]] = 0
    <3>1. /\ pc' = [pc EXCEPT ![r] = "catch"] /\ internalRetrying' = internalRetrying
          /\ invocation' = [invocation EXCEPT ![r] = NoClosures]
          /\ closure' = [closure EXCEPT ![r] = r]
      BY <1>16, <2>2 DEF DisposeResponse, GoTo
    <3>2. NoClosures \in [Requests -> Nat]
      BY DEF NoClosures
    <3> QED
      BY <3>1, <3>2 DEF IInv, EventType, Listed, Gone, Locations
  <2> QED
    BY <2>1, <2>2
<1>17. ASSUME NEW r \in Requests, ForgetResponse(r) PROVE IInv'
  BY <1>17 DEF ForgetResponse, GoTo, IInv, EventType, Listed, Gone, Locations
<1>18. CASE UNCHANGED vars
  BY <1>18 DEF vars, IInv, EventType, Listed, Gone
<1> QED
  BY <1>1, <1>2, <1>3, <1>4, <1>5, <1>6, <1>7, <1>8, <1>9, <1>10, <1>11, <1>12,
     <1>13, <1>14, <1>15, <1>16, <1>17, <1>18
  DEF Next, RequestStep

(***************************************************************************)
(* No request leaves a closure behind in the shared event.                 *)
(***************************************************************************)
THEOREM ClosuresRemoved == Spec => []NoDanglingClosure
<1>1. IInv => NoDanglingClosure
  BY DEF IInv, Gone, NoDanglingClosure
<1> QED
  BY <1>1, InitIInv, NextIInv, PTL DEF Spec

-----------------------------------------------------------------------------
(***************************************************************************)
(* A request that has the handler to itself, on a handler that subscribes  *)
(* to its policy.  The others are over or have not begun, so that it finds *)
(* its own closures in the event and no others find theirs.                *)
(***************************************************************************)
RequestType ==
  /\ attempts \in [Requests -> Nat]
  /\ responseMessage \in [Requests -> Nat]
  /\ result \in [Requests -> [kind : {"none", "response", "null", "exception", "nullReference"},
                              attempt : Nat]]
  /\ overlapping \subseteq Requests

Rests(r) == pc[r] \in {"idle", "done"}

Alone(r) == Rests(r) \/ r \in overlapping \/ \A q \in Requests \ {r} : Rests(q)

\* Request q is inside the closure of r.
Runs(q, r) == pc[q] \in {"dispose", "forget"} /\ closure[q] = r

\* The event holds nothing of a request that has not begun; closures are
\* listed only while they are fired or removed, and never for one that rests,
\* nor do they run.
Listings(r) ==
  /\ pc[r] = "idle" => internalRetrying[r] = 0
  /\ pc[r] \notin {"fire", "dispose", "forget", "remove"}
       => \A q \in Requests : invocation[r][q] = 0
  /\ Rests(r) /\ r \notin overlapping
       => \A q \in Requests : invocation[q][r] = 0 /\ ~Runs(q, r)

\* Attempts whose responses the request has received, or disposed.
Received(r) == {k \in Attempts : <<r, k>> \in received}
Disposed(r) == {k \in Attempts : <<r, k>> \in disposed}

\* The local holds the response of the last attempt, which is open unless its
\* closure has just disposed it, or none; all others are disposed.
Responses(r) ==
  /\ responseMessage[r] \in {0, attempts[r]}
  /\ attempts[r] \in 0..(RetryCount + 1)
  /\ \A k \in Received(r) : k <= attempts[r] /\ (k # responseMessage[r] => k \in Disposed(r))
  /\ \A k \in Disposed(r) :
       k <= attempts[r] /\ (k = responseMessage[r] => pc[r] = "forget" /\ closure[r] = r)

\* What the local holds at each place, and who will dispose it.
Local(r) ==
  /\ pc[r] \in {"idle", "send"} => responseMessage[r] = 0
  /\ pc[r] = "idle" => attempts[r] = 0
  /\ pc[r] # "idle" => attempts[r] > 0
  /\ pc[r] = "send" => attempts[r] \notin Received(r) \cup Disposed(r)
  /\ pc[r] \in {"inspect", "register", "status", "evaluate"} => responseMessage[r] # 0
  /\ pc[r] = "status" => internalRetrying[r] > 0
  /\ pc[r] = "decide" /\ responseMessage[r] # 0 => internalRetrying[r] > 0
  /\ pc[r] \in {"fire", "dispose", "forget"} => attempts[r] <= RetryCount
  /\ pc[r] \in {"fire", "dispose", "forget"} /\ ~Runs(r, r) /\ responseMessage[r] # 0
       => invocation[r][r] > 0
  /\ Runs(r, r) => responseMessage[r] # 0
  /\ Runs(r, r) /\ pc[r] = "forget" => responseMessage[r] \in Disposed(r)
  /\ pc[r] = "list" => HasDelegates(internalRetrying)

Outcome(r) ==
  IF pc[r] \in {"finally", "list", "remove", "done"}
  THEN /\ result[r].attempt = responseMessage[r]
       /\ result[r].kind = IF responseMessage[r] # 0 THEN "response" ELSE "exception"
  ELSE result[r] = NoResult

Undisturbed(r) == Responses(r) /\ Local(r) /\ Outcome(r)

SoloInv ==
  /\ RequestType
  /\ \A r \in Requests : Alone(r) /\ Listings(r) /\ (r \notin overlapping => Undisturbed(r))

(***************************************************************************)
(* It holds before any request.                                            *)
(***************************************************************************)
LEMMA InitSolo == Init => SoloInv
<1> SUFFICES ASSUME Init PROVE SoloInv
  OBVIOUS
<1>1. RequestType
  BY DEF Init, RequestType, NoResult
<1>2. ASSUME NEW r \in Requests PROVE Alone(r) /\ Listings(r) /\ Undisturbed(r)
  <2>1. Received(r) = {} /\ Disposed(r) = {} /\ 0 \in 0..(RetryCount + 1)
    BY RetryCountAssumption DEF Init, Received, Disposed
  <2> QED
    BY <2>1 DEF Init, Alone, Rests, Listings, Undisturbed, Responses, Local, Outcome,
                NoClosures, NoResult, Runs
<1> QED
  BY <1>1, <1>2 DEF SoloInv

Step(s) == SendAsync(s) \/ RequestStep(s)

(***************************************************************************)
(* A step of one request leaves the locals of the others alone.            *)
(***************************************************************************)
LEMMA StepIsOwn ==
  ASSUME IInv, SoloInv, NEW s \in Requests, Step(s)
  PROVE  /\ \A r \in Requests \ {s} : /\ pc'[r] = pc[r] /\ attempts'[r] = attempts[r]
                                      /\ result'[r] = result[r] /\ invocation'[r] = invocation[r]
                                      /\ closure'[r] = closure[r]
                                      /\ ~Runs(s, r) => responseMessage'[r] = responseMessage[r]
         /\ overlapping \subseteq overlapping'
         /\ pc[s] # "idle" => overlapping' = overlapping
<1> USE DEF IInv, EventType, SoloInv, RequestType, GoTo
<1>1. CASE SendAsync(s)
  BY <1>1 DEF SendAsync
<1>2. CASE ReceiveResponse(s) \/ SendThrows(s) \/ InspectResponse(s) \/ RegisterClosure(s)
           \/ ThrowStatus(s)
  BY <1>2 DEF ReceiveResponse, SendThrows, InspectResponse, RegisterClosure, ThrowStatus
<1>3. CASE RaiseRetrying(s) \/ Retry(s) \/ GiveUp(s)
  BY <1>3 DEF RaiseRetrying, Retry, GiveUp
<1>4. ASSUME NEW q \in Requests, FireClosure(s, q)
      PROVE  /\ \A r \in Requests \ {s} : /\ pc'[r] = pc[r] /\ attempts'[r] = attempts[r]
                                          /\ result'[r] = result[r] /\ invocation'[r] = invocation[r]
                                          /\ closure'[r] = closure[r]
             /\ responseMessage' = responseMessage /\ overlapping' = overlapping
  BY <1>4 DEF FireClosure
<1>5. CASE Catch(s) \/ EvaluateResponse(s) \/ Finally(s) \/ ListDelegates(s) \/ RemoveDelegates(s)
  BY <1>5 DEF Catch, EvaluateResponse, Finally, ListDelegates, RemoveDelegates
<1>6. CASE DisposeResponse(s) \/ ForgetResponse(s)
  BY <1>6 DEF DisposeResponse, ForgetResponse, Runs
<1> QED
  BY <1>1, <1>2, <1>3, <1>4, <1>5, <1>6 DEF Step, RequestStep

(***************************************************************************)
(* Steps keep the types.                                                   *)
(***************************************************************************)
LEMMA TypeStep ==
  ASSUME IInv, SoloInv, NEW s \in Requests, Step(s)
  PROVE  RequestType'
<1>0. RequestType
  BY DEF SoloInv
<1>1. CASE SendAsync(s)
  BY <1>0, <1>1 DEF SendAsync, InFlight, RequestType
<1>2. CASE ReceiveResponse(s)
  BY <1>0, <1>2 DEF ReceiveResponse, RequestType
<1>3. CASE Retry(s)
  BY <1>0, <1>3 DEF Retry, RequestType
<1>4. CASE ForgetResponse(s)
  BY <1>0, <1>4 DEF ForgetResponse, RequestType
<1>5. CASE Catch(s)
  BY <1>0, <1>5 DEF Catch, RequestType
<1>6. CASE EvaluateResponse(s)
  BY <1>0, <1>6 DEF EvaluateResponse, RequestType
<1>7. CASE ListDelegates(s)
  BY <1>0, <1>7 DEF ListDelegates, RequestType
<1>8. CASE UNCHANGED <<attempts, responseMessage, result, overlapping>>
  BY <1>0, <1>8 DEF RequestType
<1> QED
  BY <1>1, <1>2, <1>3, <1>4, <1>5, <1>6, <1>7, <1>8
  DEF Step, RequestStep, SendThrows, InspectResponse, RegisterClosure, ThrowStatus, RaiseRetrying,
      FireClosure, DisposeResponse, GiveUp, Finally, RemoveDelegates

(***************************************************************************)
(* A request that begins while another is in flight shares the handler     *)
(* with it from then on.                                                   *)
(***************************************************************************)
LEMMA AloneStep ==
  ASSUME IInv, SoloInv, NEW s \in Requests, Step(s), NEW r \in Requests
  PROVE  Alone(r)'
<1>0. pc \in [Requests -> Locations] /\ Alone(r)
  BY DEF IInv, EventType, SoloInv
<1>1. CASE pc[s] = "idle"
  <2>1. SendAsync(s)
    BY <1>1 DEF Step, RequestStep, ReceiveResponse, SendThrows, InspectResponse, RegisterClosure,
         ThrowStatus, RaiseRetrying, FireClosure, DisposeResponse, ForgetResponse, Retry, GiveUp, Catch, EvaluateResponse, Finally,
         ListDelegates, RemoveDelegates
  <2>2. CASE InFlight = {}
    BY <1>0, <2>1, <2>2 DEF SendAsync, GoTo, InFlight, Alone, Rests
  <2>3. CASE InFlight # {}
    BY <1>0, <2>1, <2>3 DEF SendAsync, GoTo, InFlight, Alone, Rests
  <2> QED
    BY <2>2, <2>3
<1>2. CASE pc[s] # "idle"
  <2>1. pc[s] # "done"
    BY <1>2 DEF Step, RequestStep, SendAsync, ReceiveResponse, SendThrows, InspectResponse,
         RegisterClosure, ThrowStatus, RaiseRetrying, FireClosure, DisposeResponse, ForgetResponse, Retry, GiveUp, Catch,
         EvaluateResponse, Finally, ListDelegates, RemoveDelegates
  <2>2. /\ overlapping' = overlapping
        /\ \A q \in Requests \ {s} : pc'[q] = pc[q]
    BY <1>2, StepIsOwn
  <2> QED
    BY <1>0, <1>2, <2>1, <2>2 DEF Alone, Rests
<1> QED
  BY <1>1, <1>2

(***************************************************************************)
(* Who lists closures, and of whom.                                        *)
(***************************************************************************)
LEMMA ListingsStep ==
  ASSUME IInv, IInv', SoloInv, NEW s \in Requests, Step(s), NEW r \in Requests
  PROVE  Listings(r)'
<1> USE DEF IInv, EventType, GoTo, Locations
<1>0. /\ \A q \in Requests : Listings(q) /\ Gone(q)
      /\ Alone(r)
  BY DEF SoloInv
<1>1. CASE SendAsync(s)
  BY <1>0, <1>1 DEF SendAsync, Listings, Rests, Runs
<1>2. CASE ReceiveResponse(s) \/ SendThrows(s) \/ InspectResponse(s) \/ RegisterClosure(s)
           \/ ThrowStatus(s)
  BY <1>0, <1>2 DEF ReceiveResponse, SendThrows, InspectResponse, RegisterClosure, ThrowStatus,
                    Listings, Rests, Runs
<1>3. CASE RaiseRetrying(s)
  BY <1>0, <1>3 DEF RaiseRetrying, Listings, Rests, Runs, Gone, NoClosures
<1>4. CASE Retry(s) \/ GiveUp(s)
  BY <1>0, <1>4 DEF Retry, GiveUp, HasDelegates, Listings, Rests, Runs
<1>5. ASSUME NEW q \in Requests, FireClosure(s, q) PROVE Listings(r)'
  BY <1>0, <1>5 DEF FireClosure, Listings, Rests, Runs
<1>6. CASE Catch(s) \/ EvaluateResponse(s)
  BY <1>0, <1>6 DEF Catch, EvaluateResponse, Listings, Rests, Runs
<1>7. CASE Finally(s)
  BY <1>0, <1>7 DEF Finally, Listings, Rests, Runs, Alone
<1>8. CASE ListDelegates(s)
  <2>1. CASE HasDelegates(internalRetrying)
    <3>1. invocation' = [invocation EXCEPT ![s] = internalRetrying] /\ pc' = [pc EXCEPT ![s] = "remove"]
      BY <1>8, <2>1 DEF ListDelegates
    <3>2. Rests(r)' => internalRetrying[r] = 0
      BY <1>0, <3>1 DEF Rests, Listings, Gone
    <3> QED
      BY <1>0, <1>8, <3>1, <3>2 DEF ListDelegates, Listings, Rests, Runs
  <2>2. CASE ~HasDelegates(internalRetrying)
    <3>1. /\ invocation' = invocation /\ pc' = [pc EXCEPT ![s] = "done"] /\ pc[s] = "list"
          /\ closure' = closure /\ internalRetrying' = internalRetrying
          /\ overlapping' = overlapping
      BY <1>8, <2>2 DEF ListDelegates
    <3>2. Rests(r)' /\ r # s => Rests(r)
      BY <3>1 DEF Rests
    <3>3. r = s /\ r \notin overlapping =>
            \A q \in Requests : invocation[q][r] = 0 /\ ~Runs(q, r)
      <4>1. ASSUME r = s, r \notin overlapping, NEW q \in Requests, q # r
            PROVE  pc[q] \in {"idle", "done"}
        BY <1>0, <3>1, <4>1 DEF Alone, Rests
      <4> QED
        BY <1>0, <3>1, <4>1 DEF Listings, Runs
    <3>4. Rests(r)' /\ r \notin overlapping =>
            \A q \in Requests : invocation[q][r] = 0 /\ ~Runs(q, r)
      BY <1>0, <3>2, <3>3 DEF Listings
    <3>5. \A q \in Requests : Runs(q, r)' => Runs(q, r)
      BY <3>1 DEF Runs
    <3>6. /\ pc'[r] = "idle" => pc[r] = "idle"
          /\ pc'[r] \notin {"fire", "dispose", "forget", "remove"} =>
               pc[r] \notin {"fire", "dispose", "forget", "remove"}
      BY <3>1
    <3>7. /\ pc'[r] = "idle" => internalRetrying'[r] = 0
          /\ pc'[r] \notin {"fire", "dispose", "forget", "remove"} =>
               \A q \in Requests : invocation'[r][q] = 0
      BY <1>0, <3>1, <3>6 DEF Listings
    <3> QED
      BY <3>1, <3>4, <3>5, <3>7 DEF Listings
  <2> QED
    BY <2>1, <2>2
<1>9. CASE RemoveDelegates(s)
  BY <1>0, <1>9 DEF RemoveDelegates, Listings, Rests, Runs, Alone, NoClosures
<1>10. CASE DisposeResponse(s)
  <2>1. CASE responseMessage[closure[s]] # 0
    <3>1. /\ pc' = [pc EXCEPT ![s] = "forget"] /\ pc[s] = "dispose" /\ overlapping' = overlapping
          /\ UNCHANGED <<internalRetrying, invocation, closure>>
      BY <1>10, <2>1 DEF DisposeResponse
    <3> QED
      BY <1>0, <3>1 DEF Listings, Rests, Runs
  <2>2. CASE responseMessage[closure[s]] = 0
    <3>1. /\ pc' = [pc EXCEPT ![s] = "catch"] /\ pc[s] = "dispose" /\ overlapping' = overlapping
          /\ internalRetrying' = internalRetrying
          /\ invocation' = [invocation EXCEPT ![s] = NoClosures]
          /\ closure' = [closure EXCEPT ![s] = s]
      BY <1>10, <2>2 DEF DisposeResponse
    <3>2. \A q \in Requests : NoClosures[q] = 0
      BY DEF NoClosures
    <3> QED
      BY <1>0, <3>1, <3>2 DEF Listings, Rests, Runs
  <2> QED
    BY <2>1, <2>2
<1>11. CASE ForgetResponse(s)
  BY <1>0, <1>11 DEF ForgetResponse, Listings, Rests, Runs
<1> QED
  BY <1>1, <1>2, <1>3, <1>4, <1>5, <1>6, <1>7, <1>8, <1>9, <1>10, <1>11 DEF Step, RequestStep

(***************************************************************************)
(* A request that shares the handler with nobody is not in flight when     *)
(* another one steps, and is not disturbed by it.                          *)
(***************************************************************************)
LEMMA OthersStep ==
  ASSUME IInv, SoloInv, NEW s \in Requests, Step(s), NEW r \in Requests \ {s},
         r \notin overlapping'
  PROVE  Undisturbed(r)'
<1>1. /\ pc'[r] = pc[r] /\ attempts'[r] = attempts[r] /\ result'[r] = result[r]
      /\ closure'[r] = closure[r]
      /\ ~Runs(s, r) => responseMessage'[r] = responseMessage[r]
      /\ r \notin overlapping
  BY StepIsOwn
<1>2. Undisturbed(r) /\ Alone(r) /\ Listings(r)
  BY <1>1 DEF SoloInv
<1>3. Rests(r)
  <2>1. SUFFICES ASSUME ~Rests(r) PROVE FALSE
    OBVIOUS
  <2>2. Rests(s)
    BY <1>1, <1>2, <2>1 DEF Alone
  <2>3. SendAsync(s)
    BY <2>2 DEF Rests, Step, RequestStep, ReceiveResponse, SendThrows, InspectResponse, RegisterClosure,
         ThrowStatus, RaiseRetrying, FireClosure, DisposeResponse, ForgetResponse, Retry, GiveUp, Catch, EvaluateResponse, Finally,
         ListDelegates, RemoveDelegates
  <2>4. r \in InFlight
    BY <2>1 DEF InFlight, Rests
  <2> QED
    BY <1>1, <2>3, <2>4 DEF SendAsync
<1>4. ~Runs(s, r)
  BY <1>1, <1>2, <1>3 DEF Listings
<1>5. Received(r)' = Received(r) /\ Disposed(r)' = Disposed(r)
  <2>1. CASE ReceiveResponse(s)
    BY <2>1 DEF ReceiveResponse, Received, Disposed
  <2>2. CASE DisposeResponse(s)
    <3>1. closure[s] # r
      BY <1>4, <2>2 DEF DisposeResponse, Runs
    <3> QED
      BY <2>2, <3>1 DEF DisposeResponse, Received, Disposed
  <2>3. CASE UNCHANGED <<received, disposed>>
    BY <2>3 DEF Received, Disposed
  <2> QED
    BY <2>1, <2>2, <2>3 DEF Step, RequestStep, SendAsync, SendThrows, InspectResponse, RegisterClosure,
       ThrowStatus, RaiseRetrying, FireClosure, ForgetResponse, Retry, GiveUp, Catch, EvaluateResponse,
       Finally, ListDelegates, RemoveDelegates
<1> QED
  BY <1>1, <1>2, <1>3, <1>4, <1>5
  DEF Undisturbed, Responses, Local, Outcome, Rests, Runs, NoResult

(***************************************************************************)
(* Nor by its own steps, when its closures are fired by its retries.       *)
(***************************************************************************)
LEMMA OwnStep ==
  ASSUME Subscribed, IInv, SoloInv, NEW r \in Requests, Step(r), r \notin overlapping'
  PROVE  Undisturbed(r)'
<1>1. /\ r \notin overlapping /\ Undisturbed(r) /\ Listings(r)
      /\ RetryCount \in Nat
  BY StepIsOwn, RetryCountAssumption DEF SoloInv
<1>2. /\ pc \in [Requests -> Locations]
      /\ internalRetrying \in [Requests -> Nat]
      /\ invocation \in [Requests -> [Requests -> Nat]]
      /\ closure \in [Requests -> Requests]
      /\ attempts \in [Requests -> Nat]
      /\ responseMessage \in [Requests -> Nat]
      /\ RequestType
  BY DEF IInv, EventType, SoloInv, RequestType
<1> USE <1>1, <1>2 DEF GoTo, Undisturbed, Responses, Local, Outcome, Locations, Runs
<1> DEFINE SameSets == Received(r)' = Received(r) /\ Disposed(r)' = Disposed(r)
<1>3. UNCHANGED <<received, disposed>> => SameSets
  BY DEF Received, Disposed
<1>4. CASE SendAsync(r)
  <2>1. /\ attempts'[r] = 1 /\ pc'[r] = "send" /\ SameSets /\ attempts[r] = 0
        /\ responseMessage'[r] = 0 /\ responseMessage[r] = 0 /\ result'[r] = result[r]
        /\ result[r] = NoResult
    BY <1>3, <1>4 DEF SendAsync
  <2>2. Received(r) = {} /\ Disposed(r) = {}
    BY <2>1 DEF Received, Disposed, Attempts
  <2> QED
    BY <2>1, <2>2 DEF NoResult
<1>5. CASE ReceiveResponse(r)
  <2>1. /\ responseMessage'[r] = attempts[r] /\ attempts' = attempts
        /\ pc'[r] = "inspect" /\ pc[r] = "send" /\ responseMessage[r] = 0
        /\ result' = result
    BY <1>5 DEF ReceiveResponse
  <2>2. /\ Received(r)' \subseteq Received(r) \cup {attempts[r]}
        /\ Disposed(r)' = Disposed(r)
    BY <1>5 DEF ReceiveResponse, Received, Disposed
  <2>3. \A k \in Received(r) \cup Disposed(r) : k # 0
    BY DEF Received, Disposed, Attempts
  <2>4. \A k \in Received(r) : k \in Disposed(r)
    BY <2>1, <2>3
  <2> QED
    BY <2>1, <2>2, <2>3, <2>4 DEF NoResult
<1>6. CASE SendThrows(r) \/ InspectResponse(r) \/ RegisterClosure(r) \/ ThrowStatus(r)
  <2>1. SameSets
    BY <1>3, <1>6 DEF SendThrows, InspectResponse, RegisterClosure, ThrowStatus
  <2> QED
    BY <1>6, <2>1 DEF SendThrows, InspectResponse, RegisterClosure, ThrowStatus, NoResult
<1>7. CASE RaiseRetrying(r)
  <2>1. SameSets
    BY <1>3, <1>7 DEF RaiseRetrying
  <2>2. invocation' = [invocation EXCEPT ![r] = internalRetrying]
    BY <1>7 DEF RaiseRetrying
  <2> QED
    BY <1>7, <2>1, <2>2 DEF RaiseRetrying, NoResult
<1>8. ASSUME NEW q \in Requests, FireClosure(r, q) PROVE Undisturbed(r)'
  <2>1. /\ pc[r] = "fire" /\ attempts' = attempts /\ result' = result
        /\ internalRetrying' = internalRetrying /\ responseMessage' = responseMessage
        /\ invocation'[r][r] = IF q = r THEN invocation[r][r] - 1 ELSE invocation[r][r]
    BY <1>8 DEF FireClosure
  <2>2. SameSets
    BY <1>3, <1>8 DEF FireClosure
  <2>3. ~Runs(r, r) /\ result[r] = NoResult
    BY <2>1
  <2>4. CASE responseMessage[q] = 0
    <3>1. pc' = pc /\ closure' = closure
      BY <1>8, <2>4 DEF FireClosure
    <3> QED
      BY <2>1, <2>2, <2>3, <2>4, <3>1 DEF NoResult
  <2>5. CASE responseMessage[q] # 0
    <3>1. pc'[r] = "dispose" /\ closure'[r] = q
      BY <1>8, <2>5 DEF FireClosure
    <3> QED
      BY <2>1, <2>2, <2>3, <2>5, <3>1 DEF NoResult
  <2> QED
    BY <2>4, <2>5
<1>13. CASE DisposeResponse(r)
  <2>1. /\ pc[r] = "dispose" /\ attempts' = attempts /\ result' = result
        /\ internalRetrying' = internalRetrying /\ responseMessage' = responseMessage
        /\ Received(r)' = Received(r) /\ result[r] = NoResult
    BY <1>13 DEF DisposeResponse, Received
  <2>2. CASE responseMessage[closure[r]] = 0
    <3>1. pc'[r] = "catch" /\ SameSets /\ ~Runs(r, r)
      BY <1>3, <1>13, <2>2 DEF DisposeResponse
    <3> QED
      BY <2>1, <3>1 DEF NoResult
  <2>3. CASE responseMessage[closure[r]] # 0 /\ closure[r] # r
    <3>1. /\ pc'[r] = "forget" /\ SameSets
          /\ invocation' = invocation /\ closure' = closure
      BY <1>13, <2>3 DEF DisposeResponse, Received, Disposed
    <3> QED
      BY <2>1, <2>3, <3>1 DEF NoResult
  <2>4. CASE responseMessage[r] # 0 /\ closure[r] = r
    <3>1. /\ pc'[r] = "forget" /\ invocation' = invocation /\ closure' = closure
          /\ disposed' = disposed \cup {<<r, responseMessage[r]>>}
      BY <1>13, <2>4 DEF DisposeResponse
    <3>2. /\ Disposed(r)' = Disposed(r) \cup ({responseMessage[r]} \cap Attempts)
          /\ responseMessage[r] \in Attempts
      BY <2>1, <2>4, <3>1 DEF Disposed, Attempts
    <3> QED
      BY <2>1, <2>4, <3>1, <3>2 DEF NoResult
  <2> QED
    BY <2>2, <2>3, <2>4
<1>14. CASE ForgetResponse(r)
  <2>1. /\ pc[r] = "forget" /\ pc'[r] = "fire" /\ attempts' = attempts /\ result' = result
        /\ internalRetrying' = internalRetrying /\ invocation' = invocation
        /\ SameSets /\ result[r] = NoResult
    BY <1>3, <1>14 DEF ForgetResponse
  <2>2. CASE closure[r] # r
    <3>1. responseMessage'[r] = responseMessage[r]
      BY <1>14, <2>2 DEF ForgetResponse
    <3> QED
      BY <2>1, <2>2, <3>1 DEF NoResult
  <2>3. CASE closure[r] = r
    <3>1. responseMessage'[r] = 0 /\ responseMessage[r] \in Disposed(r)
      BY <1>14, <2>1, <2>3 DEF ForgetResponse
    <3>2. 0 \notin Disposed(r)
      BY DEF Disposed, Attempts
    <3> QED
      BY <2>1, <3>1, <3>2 DEF NoResult
  <2> QED
    BY <2>2, <2>3
<1>9. CASE Retry(r)
  <2>1. /\ SameSets /\ attempts'[r] = attempts[r] + 1 /\ pc'[r] = "send"
        /\ responseMessage' = responseMessage /\ result' = result
        /\ attempts[r] <= RetryCount /\ pc[r] = "fire"
    BY <1>3, <1>9 DEF Retry
  <2>2. responseMessage[r] = 0
    BY <1>9 DEF Retry, HasDelegates
  <2>3. \A k \in Received(r) \cup Disposed(r) : k <= attempts[r] /\ k \in Int
    BY DEF Received, Disposed, Attempts
  <2> QED
    BY <2>1, <2>2, <2>3 DEF NoResult
<1>10. CASE GiveUp(r) \/ Catch(r) \/ EvaluateResponse(r)
  <2>1. SameSets
    BY <1>3, <1>10 DEF GiveUp, Catch, EvaluateResponse
  <2> QED
    BY <1>10, <2>1 DEF GiveUp, Catch, EvaluateResponse, RequestType, NoResult
<1>11. CASE Finally(r)
  <2>1. SameSets /\ HasDelegates(internalRetrying)' = HasDelegates(internalRetrying)
    BY <1>3, <1>11 DEF Finally, HasDelegates
  <2> QED
    BY <1>11, <2>1 DEF Finally, NoResult
<1>12. CASE ListDelegates(r) \/ RemoveDelegates(r)
  <2>1. SameSets
    BY <1>3, <1>12 DEF ListDelegates, RemoveDelegates
  <2> QED
    BY <1>12, <2>1 DEF ListDelegates, RemoveDelegates, NoResult
<1> QED
  BY <1>4, <1>5, <1>6, <1>7, <1>8, <1>9, <1>10, <1>11, <1>12, <1>13, <1>14 DEF Step, RequestStep

(***************************************************************************)
(* Every step keeps it, on a handler that subscribes.                      *)
(***************************************************************************)
LEMMA NextSolo == Subscribed /\ IInv /\ IInv' /\ SoloInv /\ [Next]_vars => SoloInv'
<1> SUFFICES ASSUME Subscribed, IInv, IInv', SoloInv, [Next]_vars PROVE SoloInv'
  OBVIOUS
<1>1. ASSUME NEW s \in Requests, Step(s) PROVE SoloInv'
  <2>1. ASSUME NEW r \in Requests, r \notin overlapping' PROVE Undisturbed(r)'
    <3>1. CASE r = s
      BY <1>1, <2>1, <3>1, OwnStep
    <3>2. CASE r # s
      BY <1>1, <2>1, <3>2, OthersStep
    <3> QED
      BY <3>1, <3>2
  <2>2. RequestType'
    BY <1>1, TypeStep
  <2>3. ASSUME NEW r \in Requests PROVE Alone(r)' /\ Listings(r)'
    BY <1>1, AloneStep, ListingsStep
  <2> QED
    BY <2>1, <2>2, <2>3 DEF SoloInv
<1>2. CASE UNCHANGED vars
  BY <1>2 DEF vars, SoloInv, RequestType, Alone, Rests, Listings, Undisturbed, Responses, Received,
              Disposed, Local, Outcome, HasDelegates, Runs
<1> QED
  BY <1>1, <1>2 DEF Next, Step

(***************************************************************************)
(* So it holds throughout.                                                 *)
(***************************************************************************)
LEMMA SoloInvariance ==
  ASSUME Subscribed
  PROVE  Spec => []SoloInv
<1>1. IInv /\ IInv' /\ SoloInv /\ [Next]_vars => SoloInv'
  BY NextSolo
<1> QED
  BY <1>1, InitIInv, NextIInv, InitSolo, PTL DEF Spec

(***************************************************************************)
(* Every response that a request does not return has been disposed, if it  *)
(* has the handler to itself and the handler subscribes to its policy.     *)
(***************************************************************************)
THEOREM NothingLeftOpen ==
  ASSUME Subscribed
  PROVE  Spec => []RetriedResponsesDisposed
<1>1. SoloInv => RetriedResponsesDisposed
  BY DEF SoloInv, Undisturbed, Responses, Outcome, Received, Disposed, RetriedResponsesDisposed
<1> QED
  BY <1>1, SoloInvariance, PTL

(***************************************************************************)
(* What it does return is the response of the last attempt, still open.    *)
(***************************************************************************)
THEOREM LastResponseReturned ==
  ASSUME Subscribed
  PROVE  Spec => []ReturnsLastResponse
<1>1. SoloInv => ReturnsLastResponse
  <2> SUFFICES ASSUME SoloInv, NEW r \in Requests \ overlapping
               PROVE  /\ result[r].kind = "response" => /\ result[r].attempt = attempts[r]
                                                        /\ <<r, result[r].attempt>> \notin disposed
                      /\ result[r].kind \notin {"null", "nullReference"}
    BY DEF ReturnsLastResponse
  <2>1. Undisturbed(r)
    BY DEF SoloInv
  <2>2. result[r].kind \in {"none", "response", "exception"}
    BY <2>1 DEF Undisturbed, Outcome, NoResult
  <2>3. ASSUME result[r].kind = "response"
        PROVE  result[r].attempt = attempts[r] /\ attempts[r] = responseMessage[r]
               /\ responseMessage[r] # 0
    BY <2>1, <2>3 DEF Undisturbed, Outcome, Responses, NoResult
  <2>4. ASSUME responseMessage[r] # 0, result[r].kind = "response"
        PROVE  <<r, responseMessage[r]>> \notin disposed
    <3>1. responseMessage[r] \in Attempts
      BY <2>1, <2>4, RetryCountAssumption DEF Undisturbed, Responses, Attempts
    <3>2. pc[r] # "forget"
      BY <2>1, <2>4 DEF Undisturbed, Outcome, NoResult
    <3> QED
      BY <2>1, <3>1, <3>2 DEF Undisturbed, Responses, Disposed
  <2> QED
    BY <2>2, <2>3, <2>4
<1> QED
  BY <1>1, SoloInvariance, PTL
=============================================================================
