---------------------- MODULE ReliableDbConnectionProofs ----------------------
(***************************************************************************)
(* The connection wrapper keeps the lease, for any three budgets and any   *)
(* number of calls.  A failure may unwind from every step to any of four   *)
(* nested loops; the invariant is what all of these places have in common: *)
(* hasOpenedConnection, a local that outlives the retries, covers an open  *)
(* connection that is not the owner's, and never one that was borrowed.    *)
(***************************************************************************)
EXTENDS ReliableDbConnection, TLAPS

Busy == pc \notin {"idle", "returned", "disposed"}

\* A closed connection has no reader, and nobody relies on it.
ClosedIsClosed ==
  connection = "Closed" => reader = "none" /\ ~responsible /\ ~Borrowed

\* An open connection is the owner's, or the call knows that it opened it.
OwnersUnlessOpenedHere ==
  connection = "Open" => responsible \/ (Busy /\ hasOpenedConnection)

OpenedHereIsNotBorrowed == Busy /\ hasOpenedConnection => ~Borrowed

Places ==
  /\ pc = "dial" => ~attached
  /\ pc = "reopen" => connection = "Closed"
  /\ pc \in {"execute", "success"} => connection = "Open"
  /\ pc = "success" /\ call.kind \in Readers => reader # "none"
  /\ Busy /\ call.kind = "Open" => pc \in {"dial", "throw"}
  /\ Busy => result = "none" /\ (call.attached => attached)

IInv ==
  /\ TypeOK
  /\ ClosedIsClosed
  /\ OwnersUnlessOpenedHere
  /\ OpenedHereIsNotBorrowed
  /\ Places

(***************************************************************************)
(* Where a failure may lead: out of the call, or back to the beginning of  *)
(* one of the bodies around the step, with budgets respected.              *)
(***************************************************************************)
LEMMA FailLeads ==
  ASSUME TypeOK, NEW deemed \in SUBSET Policies, Fail(deemed)
  PROVE  /\ retries' \in [Layers -> Nat]
         /\ \A layer \in Layers : retries'[layer] <= Budget(layer)
         /\ pc' \in {"throw", "dial", "attach"}
         /\ pc' = "dial" => pc = "dial"
         /\ pc' = "attach" => call.kind # "Open"
<1>1. CASE Willing(deemed) = {}
  BY <1>1 DEF Fail, TypeOK
<1>2. CASE Willing(deemed) # {}
  <2>1. PICK layer \in Willing(deemed) :
          /\ retries' = [l \in Layers |->
               IF l = layer THEN retries[l] + 1
               ELSE IF Depth(l) < Depth(layer) THEN 0 ELSE retries[l]]
          /\ pc' = IF Depth(layer) <= 2 THEN "dial" ELSE "attach"
    BY <1>2 DEF Fail
  <2>2. /\ layer \in Layers
        /\ layer \in Around
        /\ retries[layer] < Budget(layer)
    BY <2>1 DEF Willing, Around, Layers
  <2>3. \A l \in Layers : Budget(l) \in Nat
    BY BudgetsAssumption DEF Budget, Layers
  <2>4. \A l \in Layers : retries'[l] \in Nat /\ retries'[l] <= Budget(l)
    BY <2>1, <2>2, <2>3 DEF TypeOK
  <2>5. retries' \in [Layers -> Nat]
    BY <2>1, <2>4
  <2>6. /\ pc' \in {"dial", "attach"}
        /\ pc' = "dial" => layer \in {"openFailover", "openConnection"}
        /\ pc' = "attach" => layer \in {"failover", "command"}
    BY <2>1, <2>2 DEF Depth, Layers
  <2>7. /\ pc' = "dial" => pc = "dial"
        /\ pc' = "attach" => call.kind # "Open"
    BY <2>2, <2>6 DEF Around
  <2> QED
    BY <2>4, <2>5, <2>6, <2>7
<1> QED
  BY <1>1, <1>2

(***************************************************************************)
(* The invariant holds before any call.                                    *)
(***************************************************************************)
LEMMA InitIInv == Init => IInv
<1> SUFFICES ASSUME Init PROVE IInv
  OBVIOUS
<1>1. TypeOK
  <2>1. /\ retries \in [Layers -> Nat]
        /\ \A layer \in Layers : retries[layer] <= Budget(layer)
    BY BudgetsAssumption DEF Init, NoRetries, Budget, Layers
  <2>2. calls \in 0..MaxCalls
    BY MaxCallsAssumption DEF Init
  <2>3. call \in [kind : Kinds, async : BOOLEAN, closing : BOOLEAN,
                  attached : BOOLEAN, wasOpen : BOOLEAN]
    BY DEF Init, Kinds
  <2> QED
    BY <2>1, <2>2, <2>3 DEF Init, TypeOK, Locations, States, ReaderStates
<1>2. ClosedIsClosed /\ OwnersUnlessOpenedHere
  BY DEF Init, ClosedIsClosed, OwnersUnlessOpenedHere, Borrowed
<1>3. OpenedHereIsNotBorrowed /\ Places
  BY DEF Init, OpenedHereIsNotBorrowed, Places, Busy
<1> QED
  BY <1>1, <1>2, <1>3 DEF IInv

(***************************************************************************)
(* A call that begins.                                                     *)
(***************************************************************************)
LEMMA BeginIInv ==
  ASSUME IInv, NEW kind \in Kinds, NEW async \in BOOLEAN, NEW closing \in BOOLEAN,
         NEW hasConnection \in BOOLEAN, NEW location \in {"dial", "attach"},
         location = "dial" => ~hasConnection,
         location = "attach" => kind # "Open",
         Begin(kind, async, closing, hasConnection, location)
  PROVE  IInv'
<1>1. TypeOK'
  <2>1. call' \in [kind : Kinds, async : BOOLEAN, closing : BOOLEAN,
                   attached : BOOLEAN, wasOpen : BOOLEAN]
    BY DEF Begin
  <2>2. /\ retries' \in [Layers -> Nat]
        /\ \A layer \in Layers : retries'[layer] <= Budget(layer)
    BY BudgetsAssumption DEF Begin, NoRetries, Budget, Layers
  <2>3. calls' \in 0..MaxCalls
    BY MaxCallsAssumption DEF Begin, IInv, TypeOK
  <2> QED
    BY <2>1, <2>2, <2>3 DEF Begin, IInv, TypeOK, Locations
<1>2. /\ call'.kind = kind /\ call'.attached = hasConnection
      /\ call'.wasOpen = (connection = "Open")
  BY DEF Begin
<1>3. ClosedIsClosed'
  BY <1>2 DEF Begin, IInv, ClosedIsClosed, Borrowed
<1>4. OwnersUnlessOpenedHere' /\ OpenedHereIsNotBorrowed'
  BY <1>2 DEF Begin, IInv, OwnersUnlessOpenedHere, OpenedHereIsNotBorrowed,
              Busy, BetweenCalls
<1>5. Places'
  BY <1>2 DEF Begin, Places, Busy
<1> QED
  BY <1>1, <1>3, <1>4, <1>5 DEF IInv

(***************************************************************************)
(* What the owner does between calls, a new call included.                 *)
(***************************************************************************)
LEMMA OwnerIInv == IInv /\ OwnerStep => IInv'
<1> SUFFICES ASSUME IInv, OwnerStep PROVE IInv'
  OBVIOUS
<1> DEFINE Locals == <<call, attached, hasOpenedConnection, retries, result,
                       dropped, dials, executions, calls>>
<1>0. ASSUME UNCHANGED Locals, pc' \in {"idle", "disposed"},
             \/ Disconnect
             \/ reader' = "none" /\ UNCHANGED <<connection, responsible>>,
             BetweenCalls
      PROVE  IInv'
  <2>1. TypeOK'
    <3>1. pc' \in Locations
      BY <1>0 DEF Locations
    <3>2. connection' \in States /\ reader' \in ReaderStates /\ responsible' \in BOOLEAN
      BY <1>0 DEF IInv, TypeOK, States, ReaderStates, Disconnect
    <3>3. UNCHANGED Locals
      BY <1>0
    <3> QED
      BY <3>1, <3>2, <3>3 DEF IInv, TypeOK
  <2>2. ~Busy' /\ ~Borrowed' /\ ~Busy
    BY <1>0 DEF Busy, Borrowed, BetweenCalls
  <2>3. ClosedIsClosed' /\ OwnersUnlessOpenedHere'
    BY <1>0, <2>2 DEF IInv, ClosedIsClosed, OwnersUnlessOpenedHere, Disconnect
  <2>4. OpenedHereIsNotBorrowed' /\ Places'
    BY <1>0, <2>2 DEF OpenedHereIsNotBorrowed, Places
  <2> QED
    BY <2>1, <2>3, <2>4 DEF IInv
<1>1. CASE Open
  BY <1>1, BeginIInv DEF Open, Kinds
<1>2. CASE ExecuteCommand
  BY <1>2, BeginIInv DEF ExecuteCommand
<1>3. CASE CloseReader
  BY <1>0, <1>3 DEF CloseReader
<1>4. CASE Close
  BY <1>0, <1>4 DEF Close
<1>5. CASE Dispose
  BY <1>0, <1>5 DEF Dispose
<1> QED
  BY <1>1, <1>2, <1>3, <1>4, <1>5 DEF OwnerStep

(***************************************************************************)
(* A failed step, which may have lost the connection on the way.           *)
(***************************************************************************)
LEMMA FailureIInv ==
  ASSUME IInv, Busy, pc \notin {"success", "throw"},
         NEW deemed \in SUBSET Policies, Fail(deemed),
         \/ UNCHANGED <<connection, responsible, dropped>>
            /\ reader' \in {reader, "lost"}
            /\ (connection = "Closed" => reader' = reader)
         \/ Disconnect /\ dropped' = TRUE,
         UNCHANGED <<call, attached, hasOpenedConnection, result, calls>>,
         dials' \in Nat, executions' \in Nat
  PROVE  IInv'
<1>1. /\ retries' \in [Layers -> Nat]
      /\ \A layer \in Layers : retries'[layer] <= Budget(layer)
      /\ pc' \in {"throw", "dial", "attach"}
      /\ pc' = "dial" => pc = "dial"
      /\ pc' = "attach" => call.kind # "Open"
  BY FailLeads DEF IInv
<1>2. TypeOK'
  <2>1. /\ connection' \in States /\ reader' \in ReaderStates
        /\ responsible' \in BOOLEAN /\ dropped' \in BOOLEAN
    BY DEF IInv, TypeOK, States, ReaderStates, Disconnect
  <2>2. pc' \in Locations
    BY <1>1 DEF Locations
  <2> QED
    BY <1>1, <2>1, <2>2 DEF IInv, TypeOK
<1>3. Busy' /\ (Borrowed' => Borrowed)
  BY <1>1 DEF Busy, Borrowed, Disconnect, IInv, TypeOK
<1>4. ClosedIsClosed' /\ OwnersUnlessOpenedHere'
  <2>1. CASE Disconnect /\ dropped' = TRUE
    BY <2>1 DEF Disconnect, ClosedIsClosed, OwnersUnlessOpenedHere, Borrowed
  <2>2. CASE UNCHANGED <<connection, responsible, dropped>>
             /\ (connection = "Closed" => reader' = reader)
    BY <1>3, <2>2 DEF IInv, ClosedIsClosed, OwnersUnlessOpenedHere
  <2> QED
    BY <2>1, <2>2
<1>5. OpenedHereIsNotBorrowed'
  BY <1>3 DEF IInv, OpenedHereIsNotBorrowed
<1>6. Places'
  BY <1>1, <1>3 DEF IInv, Places
<1> QED
  BY <1>2, <1>4, <1>5, <1>6 DEF IInv

(***************************************************************************)
(* The steps of a call.                                                    *)
(***************************************************************************)
LEMMA CallIInv == IInv /\ CallStep => IInv'
<1> SUFFICES ASSUME IInv, CallStep PROVE IInv'
  OBVIOUS
<1> DEFINE Rest == ClosedIsClosed /\ OwnersUnlessOpenedHere
                   /\ OpenedHereIsNotBorrowed /\ Places
<1>0. dials + 1 \in Nat /\ executions + 1 \in Nat
  BY DEF IInv, TypeOK
<1>1. CASE Dial \/ FindOpen
  <2>1. TypeOK'
    BY <1>0, <1>1 DEF Dial, FindOpen, Opened, AttachOpened, IInv, TypeOK,
                      Locations, States
  <2>2. Rest'
    BY <1>1 DEF Dial, FindOpen, Opened, AttachOpened, IInv, TypeOK,
                ClosedIsClosed, OwnersUnlessOpenedHere, OpenedHereIsNotBorrowed,
                Places, Borrowed, Busy, Kinds
  <2> QED
    BY <2>1, <2>2 DEF IInv
<1>2. CASE DialFails
  <2>1. /\ Busy /\ pc \notin {"success", "throw"}
        /\ dials' \in Nat /\ executions' \in Nat
    BY <1>0, <1>2 DEF DialFails, Busy, IInv, TypeOK
  <2>2. PICK deemed \in SUBSET Policies : Fail(deemed)
    BY <1>2 DEF DialFails
  <2>3. /\ UNCHANGED <<connection, responsible, dropped>>
        /\ reader' = reader
        /\ UNCHANGED <<call, attached, hasOpenedConnection, result, calls>>
    BY <1>2 DEF DialFails
  <2> QED
    BY <2>1, <2>2, <2>3, FailureIInv
<1>3. CASE Attach
  <2>1. TypeOK'
    BY <1>3 DEF Attach, IInv, TypeOK, Locations
  <2>2. Rest'
    BY <1>3 DEF Attach, IInv, TypeOK, States, ClosedIsClosed,
                OwnersUnlessOpenedHere, OpenedHereIsNotBorrowed, Places,
                Borrowed, Busy
  <2> QED
    BY <2>1, <2>2 DEF IInv
<1>4. CASE Reopen
  <2>1. TypeOK'
    BY <1>0, <1>4 DEF Reopen, IInv, TypeOK, Locations, States
  <2>2. Rest'
    BY <1>4 DEF Reopen, IInv, TypeOK, ClosedIsClosed, OwnersUnlessOpenedHere,
                OpenedHereIsNotBorrowed, Places, Borrowed, Busy
  <2> QED
    BY <2>1, <2>2 DEF IInv
<1>5. CASE ReopenFails
  BY <1>0, <1>5, FailureIInv DEF ReopenFails, Busy, IInv, TypeOK
<1>6. CASE Execute
  <2>1. TypeOK'
    BY <1>0, <1>6 DEF Execute, IInv, TypeOK, Locations, ReaderStates
  <2>2. Rest'
    BY <1>6 DEF Execute, IInv, TypeOK, ClosedIsClosed, OwnersUnlessOpenedHere,
                OpenedHereIsNotBorrowed, Places, Borrowed, Busy
  <2> QED
    BY <2>1, <2>2 DEF IInv
<1>7. CASE ConversionFails
  <2>1. connection = "Open"
    BY <1>7 DEF ConversionFails, IInv, Places
  <2> QED
    BY <1>0, <1>7, <2>1, FailureIInv DEF ConversionFails, Busy, IInv, TypeOK
<1>8. CASE ExecuteFails
  BY <1>0, <1>8, FailureIInv DEF ExecuteFails, Busy, IInv, TypeOK
<1>9. CASE Return
  <2>1. TypeOK'
    <3>1. connection' \in States /\ reader' \in ReaderStates /\ responsible' \in BOOLEAN
      BY <1>9 DEF Return, Disconnect, IInv, TypeOK, States, ReaderStates
    <3>2. /\ pc' = "returned" /\ result' = "value"
          /\ UNCHANGED <<call, attached, hasOpenedConnection, retries, dropped,
                         dials, executions, calls>>
      BY <1>9 DEF Return
    <3> QED
      BY <3>1, <3>2 DEF IInv, TypeOK, Locations
  <2>2. Rest'
    BY <1>9 DEF Return, Disconnect, ClosesOnSuccess, IInv, TypeOK,
                ClosedIsClosed, OwnersUnlessOpenedHere, OpenedHereIsNotBorrowed,
                Places, Borrowed, Busy, Kinds, Readers
  <2> QED
    BY <2>1, <2>2 DEF IInv
<1>10. CASE Throw
  <2>1. TypeOK'
    <3>1. connection' \in States /\ reader' \in ReaderStates /\ responsible' \in BOOLEAN
      BY <1>10 DEF Throw, Disconnect, IInv, TypeOK, States, ReaderStates
    <3>2. /\ pc' = "returned" /\ result' = "thrown"
          /\ UNCHANGED <<call, attached, hasOpenedConnection, retries, dropped,
                         dials, executions, calls>>
      BY <1>10 DEF Throw
    <3> QED
      BY <3>1, <3>2 DEF IInv, TypeOK, Locations
  <2>2. Rest'
    BY <1>10 DEF Throw, Disconnect, IInv, TypeOK, ClosedIsClosed,
                 OwnersUnlessOpenedHere, OpenedHereIsNotBorrowed, Places,
                 Borrowed, Busy
  <2> QED
    BY <2>1, <2>2 DEF IInv
<1> QED
  BY <1>1, <1>2, <1>3, <1>4, <1>5, <1>6, <1>7, <1>8, <1>9, <1>10 DEF CallStep

(***************************************************************************)
(* The invariant holds throughout.                                         *)
(***************************************************************************)
LEMMA Invariance == Spec => []IInv
<1>1. ASSUME IInv, UNCHANGED vars PROVE IInv'
  BY <1>1 DEF vars, IInv, TypeOK, ClosedIsClosed, OwnersUnlessOpenedHere,
              OpenedHereIsNotBorrowed, Places, Borrowed, Busy
<1>2. IInv /\ [Next]_vars => IInv'
  BY <1>1, OwnerIInv, CallIInv DEF Next
<1> QED
  BY InitIInv, <1>2, PTL DEF Spec

(***************************************************************************)
(* No retry exceeds its budget, in any of the four loops.                  *)
(***************************************************************************)
THEOREM TypeCorrect == Spec => []TypeOK
BY Invariance, PTL DEF IInv

-----------------------------------------------------------------------------
(* The lease.                                                              *)

(***************************************************************************)
(* The owner's steps.                                                      *)
(***************************************************************************)
LEMMA OwnerRefines ==
  ASSUME IInv, OwnerStep
  PROVE  Lease!OwnerActs \/ Lease!Begin
<1> USE DEF IInv, TypeOK, BetweenCalls, Borrowed
<1>1. ASSUME NEW kind \in Kinds, NEW async \in BOOLEAN, NEW closing \in BOOLEAN,
             NEW hasConnection \in BOOLEAN, NEW location \in {"dial", "attach"},
             Begin(kind, async, closing, hasConnection, location)
      PROVE  Lease!Begin
  <2>1. /\ pc' = location /\ result' = "none" /\ dropped' = FALSE
        /\ call'.attached = hasConnection
        /\ call'.wasOpen = (connection = "Open")
        /\ UNCHANGED <<connection, reader, responsible>>
        /\ pc \in {"idle", "returned"}
    BY <1>1 DEF Begin
  <2> QED
    BY <2>1 DEF Lease!Begin
<1>2. CASE Open
  BY <1>1, <1>2 DEF Open, Kinds
<1>3. CASE ExecuteCommand
  BY <1>1, <1>3 DEF ExecuteCommand
<1>4. CASE CloseReader
  BY <1>4 DEF CloseReader, Disconnect, ClosedIsClosed, OwnersUnlessOpenedHere,
              Busy, States, Lease!OwnerActs
<1>5. CASE Close
  BY <1>5 DEF Close, Disconnect, Lease!OwnerActs
<1>6. CASE Dispose
  BY <1>6 DEF Dispose, Disconnect, Lease!OwnerActs
<1> QED
  BY <1>2, <1>3, <1>4, <1>5, <1>6 DEF OwnerStep

(***************************************************************************)
(* A failed step is work: the call is not over, wherever it unwinds to.    *)
(***************************************************************************)
LEMMA FailureRefines ==
  ASSUME IInv, IInv', Busy, NEW deemed \in SUBSET Policies, Fail(deemed),
         \/ UNCHANGED <<connection, responsible, dropped>>
         \/ Disconnect /\ dropped' = TRUE,
         UNCHANGED call
  PROVE  Lease!Work
<1>1. Busy'
  BY FailLeads DEF IInv, Busy
<1>2. Lease!Keep \/ Lease!Lose
  BY <1>1 DEF Disconnect, Busy, Borrowed, Lease!Keep, Lease!Lose
<1>3. Lease!ReaderFollows
  BY DEF IInv, TypeOK, States, ClosedIsClosed, Lease!ReaderFollows
<1> QED
  BY <1>1, <1>2, <1>3 DEF Busy, Lease!Work

(***************************************************************************)
(* The steps of a call.                                                    *)
(***************************************************************************)
LEMMA CallRefines ==
  ASSUME IInv, IInv', CallStep
  PROVE  Lease!Work \/ Lease!End \/ Lease!HandOver
<1> USE DEF IInv, TypeOK, Borrowed, Busy
<1>0. Lease!ReaderFollows
  BY DEF States, ClosedIsClosed, Lease!ReaderFollows
<1>1. CASE Dial \/ FindOpen
  BY <1>0, <1>1 DEF Dial, FindOpen, Opened, AttachOpened, Places, Readers,
     Lease!Work, Lease!HandOver, Lease!Keep, Lease!Take
<1>2. CASE DialFails
  BY <1>2, FailureRefines DEF DialFails
<1>3. CASE Attach
  BY <1>0, <1>3 DEF Attach, Lease!Work, Lease!Keep
<1>4. CASE Reopen
  BY <1>0, <1>4 DEF Reopen, Places, Lease!Work, Lease!Take
<1>5. CASE ReopenFails
  BY <1>5, FailureRefines DEF ReopenFails
<1>6. CASE Execute
  BY <1>0, <1>6 DEF Execute, Lease!Work, Lease!Keep
<1>7. CASE ConversionFails
  BY <1>7, FailureRefines DEF ConversionFails
<1>8. CASE ExecuteFails
  BY <1>8, FailureRefines DEF ExecuteFails
<1>9. CASE Return
  BY <1>0, <1>9 DEF Return, Disconnect, ClosesOnSuccess, Places,
     OwnersUnlessOpenedHere, OpenedHereIsNotBorrowed, Kinds, Readers,
     Lease!End, Lease!HandOver, Lease!Keep, Lease!GiveUp
<1>10. CASE Throw
  BY <1>0, <1>10 DEF Throw, Disconnect, OwnersUnlessOpenedHere,
     OpenedHereIsNotBorrowed, States, Lease!End, Lease!Keep, Lease!GiveUp
<1> QED
  BY <1>1, <1>2, <1>3, <1>4, <1>5, <1>6, <1>7, <1>8, <1>9, <1>10 DEF CallStep

(***************************************************************************)
(* The connection wrapper implements the lease.                            *)
(***************************************************************************)
THEOREM LeaseImplemented == Spec => KeepsLease
<1>1. Init => Lease!Init
  BY DEF Init, Lease!Init, Borrowed
<1>2. IInv /\ IInv' /\ [Next]_vars => [Lease!Next]_(Lease!vars)
  <2>1. ASSUME IInv, UNCHANGED vars PROVE UNCHANGED Lease!vars
    BY <2>1 DEF vars, Lease!vars, Borrowed
  <2> QED
    BY <2>1, OwnerRefines, CallRefines DEF Next, Lease!Next
<1> QED
  BY <1>1, <1>2, Invariance, PTL DEF Spec, KeepsLease, Lease!Spec

(***************************************************************************)
(* What the lease is worth, whoever implements it: between calls an open   *)
(* connection is known to the owner, a borrowed one is open, and a reader  *)
(* handed over is on an open connection.                                   *)
(***************************************************************************)
LEMMA LeaseSuffices == Lease!Spec => [](Lease!TypeOK /\ Lease!LeaseKept)
<1>1. Lease!Init => Lease!TypeOK /\ Lease!LeaseKept
  BY DEF Lease!Init, Lease!TypeOK, Lease!LeaseKept
<1>2. Lease!TypeOK /\ Lease!LeaseKept /\ [Lease!Next]_(Lease!vars)
        => (Lease!TypeOK /\ Lease!LeaseKept)'
  <2> SUFFICES ASSUME Lease!TypeOK, Lease!LeaseKept, [Lease!Next]_(Lease!vars)
               PROVE  (Lease!TypeOK /\ Lease!LeaseKept)'
    OBVIOUS
  <2> USE DEF Lease!TypeOK, Lease!LeaseKept
  <2>1. CASE Lease!OwnerActs
    BY <2>1 DEF Lease!OwnerActs
  <2>2. CASE Lease!Begin
    BY <2>2 DEF Lease!Begin
  <2>3. CASE Lease!Work
    BY <2>3 DEF Lease!Work, Lease!ReaderFollows, Lease!Keep, Lease!Take, Lease!GiveUp,
                Lease!Lose
  <2>4. CASE Lease!End
    BY <2>4 DEF Lease!End, Lease!ReaderFollows, Lease!Keep, Lease!GiveUp, Lease!Lose
  <2>5. CASE Lease!HandOver
    BY <2>5 DEF Lease!HandOver
  <2>6. CASE UNCHANGED Lease!vars
    BY <2>6 DEF Lease!vars
  <2> QED
    BY <2>1, <2>2, <2>3, <2>4, <2>5, <2>6 DEF Lease!Next
<1> QED
  BY <1>1, <1>2, PTL DEF Lease!Spec

(***************************************************************************)
(* The wrapper leaks no connection, closes none that it was given open,    *)
(* and hands over readers that can be read, whichever loop gave up.        *)
(***************************************************************************)
THEOREM LeaseSafe == Spec => []Lease!LeaseKept
<1>1. Spec => Lease!Spec
  BY LeaseImplemented DEF KeepsLease
<1> QED
  BY <1>1, LeaseSuffices, PTL

-----------------------------------------------------------------------------
(***************************************************************************)
(* The products of the budgets.  Before counts the rounds of the two outer *)
(* loops that have ended in this call, Inner those of the two loops of     *)
(* this.Open() that have ended in the round of now.                        *)
(***************************************************************************)
FailoverRounds == FailoverRetries + 1
Before == retries["command"] * FailoverRounds + retries["failover"]
Inner == retries["openConnection"] * FailoverRounds + retries["openFailover"]
DialsPerRound == (ConnectionRetries + 1) * FailoverRounds

Spent ==
  /\ executions <= Before + 1
  /\ pc \in {"attach", "dial", "reopen", "execute"} => executions <= Before
  /\ dials <= (Before + 1) * DialsPerRound
  /\ pc = "attach" /\ (connection = "Closed" \/ ~attached) => dials <= Before * DialsPerRound
  /\ pc = "reopen" => dials <= Before * DialsPerRound
  /\ pc = "dial" => dials <= Before * DialsPerRound + Inner
  /\ call.kind = "Open" => Before = 0

(***************************************************************************)
(* One more round costs as much as the others.                             *)
(***************************************************************************)
LEMMA OneMoreRound ==
  ASSUME NEW n \in Nat, NEW k \in Nat
  PROVE  n * k \in Nat /\ (n + 1) * k = n * k + k
OBVIOUS

(***************************************************************************)
(* More rounds cost more.                                                  *)
(***************************************************************************)
LEMMA RoundsMonotone ==
  ASSUME NEW k \in Nat, NEW m \in Nat, NEW n \in Nat, n <= m
  PROVE  n * k <= m * k
OBVIOUS

(***************************************************************************)
(* Either the inner loop makes one more round, or the outer one does and   *)
(* the inner one, which is within its budget, starts from scratch: the     *)
(* rounds of both have grown.                                              *)
(***************************************************************************)
LEMMA RoundsGrow ==
  ASSUME NEW outer \in Nat, NEW n \in Nat, NEW inner \in 0..n, NEW m \in outer..(outer + 1),
         NEW j \in Nat, m = outer => j = inner + 1, m = outer + 1 => j = 0
  PROVE  m * (n + 1) + j >= outer * (n + 1) + inner + 1
<1>1. outer * (n + 1) \in Nat /\ (outer + 1) * (n + 1) = outer * (n + 1) + (n + 1)
  BY OneMoreRound
<1>2. CASE m = outer
  BY <1>1, <1>2
<1>3. CASE m = outer + 1
  BY <1>1, <1>3
<1> QED
  BY <1>2, <1>3

(***************************************************************************)
(* What stayed within one more round stays within the rounds after it.     *)
(***************************************************************************)
LEMMA BehindARound ==
  ASSUME NEW before \in Nat, NEW after \in Nat, NEW k \in Nat, NEW sent \in Nat, NEW dialled \in Nat,
         after >= before + 1, sent <= before + 1, dialled <= (before + 1) * k
  PROVE  /\ sent <= after /\ sent <= after + 1
         /\ dialled <= after * k /\ dialled <= (after + 1) * k
<1>1. (before + 1) * k <= after * k /\ (before + 1) * k \in Nat
  BY RoundsMonotone, OneMoreRound
<1>2. after * k \in Nat /\ (after + 1) * k = after * k + k
  BY OneMoreRound
<1> QED
  BY <1>1, <1>2

(***************************************************************************)
(* The rounds that have ended are short of all that there may be.          *)
(***************************************************************************)
LEMMA RoundsAreNumbers ==
  ASSUME TypeOK
  PROVE  /\ Before \in Nat /\ Inner \in Nat
         /\ FailoverRounds \in Nat /\ DialsPerRound \in Nat
         /\ executions \in Nat /\ dials \in Nat
         /\ Inner + 1 <= DialsPerRound
         /\ Before + 1 <= (CommandRetries + 1) * FailoverRounds
<1>1. /\ FailoverRounds \in Nat /\ FailoverRounds = FailoverRetries + 1
      /\ FailoverRetries \in Nat /\ ConnectionRetries \in Nat /\ CommandRetries \in Nat
  BY BudgetsAssumption DEF FailoverRounds
<1>2. /\ retries["command"] \in Nat /\ retries["failover"] \in Nat
      /\ retries["openConnection"] \in Nat /\ retries["openFailover"] \in Nat
  BY DEF TypeOK, Layers
<1>3. /\ retries["command"] <= CommandRetries /\ retries["failover"] <= FailoverRetries
      /\ retries["openConnection"] <= ConnectionRetries
      /\ retries["openFailover"] <= FailoverRetries
  BY DEF TypeOK, Layers, Budget
<1>4. /\ retries["command"] * FailoverRounds \in Nat
      /\ retries["openConnection"] * FailoverRounds \in Nat
      /\ retries["command"] * FailoverRounds <= CommandRetries * FailoverRounds
      /\ retries["openConnection"] * FailoverRounds <= ConnectionRetries * FailoverRounds
  BY <1>1, <1>2, <1>3, OneMoreRound, RoundsMonotone
<1>5. /\ (CommandRetries + 1) * FailoverRounds = CommandRetries * FailoverRounds + FailoverRounds
      /\ (ConnectionRetries + 1) * FailoverRounds = ConnectionRetries * FailoverRounds + FailoverRounds
      /\ CommandRetries * FailoverRounds \in Nat /\ ConnectionRetries * FailoverRounds \in Nat
  BY <1>1, OneMoreRound
<1> QED
  BY <1>1, <1>2, <1>3, <1>4, <1>5 DEF Before, Inner, DialsPerRound, TypeOK

(***************************************************************************)
(* What a failure does to the rounds: the call is given up, or an inner    *)
(* round has ended and no outer one, or an outer one has.                  *)
(***************************************************************************)
LEMMA FailEndsARound ==
  ASSUME TypeOK, NEW deemed \in SUBSET Policies, Fail(deemed)
  PROVE  \/ pc' = "throw" /\ Before' = Before
         \/ pc = "dial" /\ pc' = "dial" /\ Before' = Before /\ Inner' >= Inner + 1
         \/ pc' = "attach" /\ call.kind # "Open" /\ Before' >= Before + 1
<1>1. CASE Willing(deemed) = {}
  BY <1>1 DEF Fail, Before, FailoverRounds
<1>2. CASE Willing(deemed) # {}
  <2>1. PICK layer \in Willing(deemed) :
          /\ retries' = [l \in Layers |->
               IF l = layer THEN retries[l] + 1
               ELSE IF Depth(l) < Depth(layer) THEN 0 ELSE retries[l]]
          /\ pc' = IF Depth(layer) <= 2 THEN "dial" ELSE "attach"
    BY <1>2 DEF Fail
  <2>2. /\ layer \in {"openFailover", "openConnection", "failover", "command"}
        /\ layer \in Around
        /\ retries[layer] < Budget(layer)
    BY <2>1 DEF Willing, Around
  <2>3. /\ FailoverRetries \in Nat /\ FailoverRounds' = FailoverRounds
        /\ FailoverRounds = FailoverRetries + 1
    BY BudgetsAssumption DEF FailoverRounds
  <2>4. /\ retries["command"] \in Nat /\ retries["failover"] \in 0..FailoverRetries
        /\ retries["openConnection"] \in Nat /\ retries["openFailover"] \in 0..FailoverRetries
    BY <2>3 DEF TypeOK, Layers, Budget
  <2>5. CASE layer = "openFailover"
    <3>1. /\ retries'["command"] = retries["command"]
          /\ retries'["failover"] = retries["failover"]
          /\ retries'["openConnection"] = retries["openConnection"]
          /\ retries'["openFailover"] = retries["openFailover"] + 1
          /\ pc' = "dial" /\ pc = "dial"
      BY <2>1, <2>2, <2>5 DEF Layers, Depth, Around
    <3>2. Inner' >= Inner + 1
      BY <2>3, <2>4, <3>1, RoundsGrow DEF Inner
    <3> QED
      BY <2>3, <3>1, <3>2 DEF Before
  <2>6. CASE layer = "openConnection"
    <3>1. /\ retries'["command"] = retries["command"]
          /\ retries'["failover"] = retries["failover"]
          /\ retries'["openConnection"] = retries["openConnection"] + 1
          /\ retries'["openFailover"] = 0
          /\ pc' = "dial" /\ pc = "dial"
      BY <2>1, <2>2, <2>6 DEF Layers, Depth, Around
    <3>2. Inner' >= Inner + 1
      BY <2>3, <2>4, <3>1, RoundsGrow DEF Inner
    <3> QED
      BY <2>3, <3>1, <3>2 DEF Before
  <2>7. CASE layer = "failover"
    <3>1. /\ retries'["command"] = retries["command"]
          /\ retries'["failover"] = retries["failover"] + 1
          /\ pc' = "attach" /\ call.kind # "Open"
      BY <2>1, <2>2, <2>7 DEF Layers, Depth, Around
    <3> QED
      BY <2>3, <2>4, <3>1, RoundsGrow DEF Before
  <2>8. CASE layer = "command"
    <3>1. /\ retries'["command"] = retries["command"] + 1
          /\ retries'["failover"] = 0
          /\ pc' = "attach" /\ call.kind # "Open"
      BY <2>1, <2>2, <2>8 DEF Layers, Depth, Around
    <3> QED
      BY <2>3, <2>4, <3>1, RoundsGrow DEF Before
  <2> QED
    BY <2>2, <2>5, <2>6, <2>7, <2>8
<1> QED
  BY <1>1, <1>2

(***************************************************************************)
(* A failure that comes after at most one more execution and one more dial *)
(* keeps what Spent says.                                                  *)
(***************************************************************************)
LEMMA FailureSpent ==
  ASSUME IInv, IInv', Spent, NEW deemed \in SUBSET Policies, Fail(deemed),
         pc \in {"dial", "reopen", "execute"}, UNCHANGED call,
         \/ pc = "execute" /\ executions' = executions + 1 /\ dials' = dials
         \/ pc # "execute" /\ executions' = executions /\ dials' = dials + 1
  PROVE  Spent'
<1>0. TypeOK /\ TypeOK'
  BY DEF IInv
<1>1. /\ Before \in Nat /\ Inner \in Nat /\ DialsPerRound \in Nat
      /\ executions \in Nat /\ dials \in Nat /\ Inner + 1 <= DialsPerRound
      /\ Before' \in Nat /\ Inner' \in Nat
      /\ DialsPerRound' = DialsPerRound
  <2>1. Before' \in Nat /\ Inner' \in Nat
    <3>1. /\ retries'["command"] \in Nat /\ retries'["failover"] \in Nat
          /\ retries'["openConnection"] \in Nat /\ retries'["openFailover"] \in Nat
      BY <1>0 DEF TypeOK, Layers
    <3>2. FailoverRounds \in Nat /\ FailoverRounds' = FailoverRounds
      BY BudgetsAssumption DEF FailoverRounds
    <3> QED
      BY <3>1, <3>2, OneMoreRound DEF Before, Inner
  <2>2. DialsPerRound' = DialsPerRound
    BY DEF DialsPerRound, FailoverRounds
  <2> QED
    BY <1>0, <2>1, <2>2, RoundsAreNumbers
<1>2. /\ Before * DialsPerRound \in Nat
      /\ (Before + 1) * DialsPerRound = Before * DialsPerRound + DialsPerRound
  BY <1>1, OneMoreRound
<1>3. /\ executions' <= Before + 1
      /\ dials' <= (Before + 1) * DialsPerRound
      /\ pc # "execute" => executions' <= Before
      /\ pc = "dial" => dials' <= Before * DialsPerRound + Inner + 1
  BY <1>1, <1>2 DEF Spent
<1>4. CASE pc' = "throw" /\ Before' = Before
  BY <1>1, <1>3, <1>4 DEF Spent
<1>5. CASE pc = "dial" /\ pc' = "dial" /\ Before' = Before /\ Inner' >= Inner + 1
  <2>1. PICK inner \in Nat : inner = Inner'
    BY <1>1
  <2>2. PICK sent \in Nat : sent = executions'
    BY <1>0 DEF TypeOK
  <2>3. PICK dialled \in Nat : dialled = dials'
    BY <1>0 DEF TypeOK
  <2>4. inner >= Inner + 1 /\ sent <= Before /\ dialled <= Before * DialsPerRound + Inner + 1
    BY <1>3, <1>5, <2>1, <2>2, <2>3
  <2>5. /\ sent <= Before + 1 /\ dialled <= Before * DialsPerRound + inner
        /\ dialled <= (Before + 1) * DialsPerRound
    BY <1>1, <1>2, <2>4
  <2>6. call.kind = "Open" => Before = 0
    BY DEF Spent
  <2> QED
    BY <1>1, <1>5, <2>1, <2>2, <2>3, <2>4, <2>5, <2>6 DEF Spent
<1>6. CASE pc' = "attach" /\ call.kind # "Open" /\ Before' >= Before + 1
  <2>1. PICK after \in Nat : after = Before'
    BY <1>1
  <2>2. PICK sent \in Nat : sent = executions'
    BY <1>0 DEF TypeOK
  <2>3. PICK dialled \in Nat : dialled = dials'
    BY <1>0 DEF TypeOK
  <2>4. after >= Before + 1 /\ sent <= Before + 1 /\ dialled <= (Before + 1) * DialsPerRound
    BY <1>3, <1>6, <2>1, <2>2, <2>3
  <2>5. /\ sent <= after /\ sent <= after + 1
        /\ dialled <= after * DialsPerRound /\ dialled <= (after + 1) * DialsPerRound
    BY <1>1, <2>4, BehindARound
  <2> QED
    BY <1>1, <1>6, <2>1, <2>2, <2>3, <2>5 DEF Spent
<1> QED
  BY <1>0, <1>4, <1>5, <1>6, FailEndsARound

(***************************************************************************)
(* Every step keeps it.                                                    *)
(***************************************************************************)
LEMMA NextSpent == IInv /\ IInv' /\ Spent /\ [Next]_vars => Spent'
<1> SUFFICES ASSUME IInv, IInv', Spent, [Next]_vars PROVE Spent'
  OBVIOUS
<1>0. /\ Before \in Nat /\ Inner \in Nat /\ DialsPerRound \in Nat
      /\ executions \in Nat /\ dials \in Nat /\ Inner + 1 <= DialsPerRound
      /\ Before * DialsPerRound \in Nat
      /\ (Before + 1) * DialsPerRound = Before * DialsPerRound + DialsPerRound
  <2>1. TypeOK
    BY DEF IInv
  <2> QED
    BY <2>1, RoundsAreNumbers, OneMoreRound
<1>1. ASSUME retries' = retries
      PROVE  /\ Before' = Before /\ Inner' = Inner /\ DialsPerRound' = DialsPerRound
  BY <1>1 DEF Before, Inner, DialsPerRound, FailoverRounds
<1>2. ASSUME NEW kind \in Kinds, NEW async \in BOOLEAN, NEW closing \in BOOLEAN,
             NEW hasConnection \in BOOLEAN, NEW location \in {"dial", "attach"},
             Begin(kind, async, closing, hasConnection, location)
      PROVE  Spent'
  <2>1. Before' = 0 /\ Inner' = 0 /\ DialsPerRound' = DialsPerRound
    <3>1. /\ retries'["command"] = 0 /\ retries'["failover"] = 0
          /\ retries'["openConnection"] = 0 /\ retries'["openFailover"] = 0
      BY <1>2 DEF Begin, NoRetries, Layers
    <3>2. FailoverRounds' = FailoverRounds /\ FailoverRounds \in Nat
      BY BudgetsAssumption DEF FailoverRounds
    <3> QED
      BY <3>1, <3>2 DEF Before, Inner, DialsPerRound
  <2>2. executions' = 0 /\ dials' = 0
    BY <1>2 DEF Begin
  <2> QED
    BY <1>0, <2>1, <2>2 DEF Spent
<1>3. CASE Open
  BY <1>2, <1>3 DEF Open, Kinds
<1>4. CASE ExecuteCommand
  BY <1>2, <1>4 DEF ExecuteCommand
<1>5. CASE UNCHANGED vars \/ CloseReader \/ Close \/ Dispose
  BY <1>0, <1>1, <1>5 DEF Spent, vars, CloseReader, Close, Dispose, BetweenCalls
<1>6. CASE Dial \/ FindOpen
  BY <1>0, <1>1, <1>6 DEF Spent, Dial, FindOpen, Opened, AttachOpened
<1>7. CASE Attach \/ Reopen \/ Execute
  BY <1>0, <1>1, <1>7 DEF IInv, Places, TypeOK, States, Spent, Attach, Reopen, Execute
<1>8. CASE Return \/ Throw
  BY <1>0, <1>1, <1>8 DEF Spent, Return, Throw
<1>9. CASE DialFails \/ ReopenFails
  BY <1>9, FailureSpent DEF DialFails, ReopenFails
<1>10. CASE ConversionFails \/ ExecuteFails
  BY <1>10, FailureSpent DEF ConversionFails, ExecuteFails
<1> QED
  BY <1>3, <1>4, <1>5, <1>6, <1>7, <1>8, <1>9, <1>10 DEF Next, CallStep, OwnerStep

(***************************************************************************)
(* The products hold throughout.                                           *)
(***************************************************************************)
LEMMA SpentInvariance == Spec => []Spent
<1>1. Init => Spent
  <2> SUFFICES ASSUME Init PROVE Spent
    OBVIOUS
  <2>1. FailoverRounds \in Nat /\ DialsPerRound \in Nat
    BY BudgetsAssumption, OneMoreRound DEF FailoverRounds, DialsPerRound
  <2>2. Before = 0 /\ Inner = 0
    BY <2>1 DEF Init, NoRetries, Layers, Before, Inner
  <2> QED
    BY <2>1, <2>2 DEF Init, Spent
<1> QED
  BY <1>1, NextSpent, Invariance, PTL DEF Spec

(***************************************************************************)
(* However a call fails, and whichever of the nested policies retries, the *)
(* command is not sent more often than the budgets of the outer two allow. *)
(***************************************************************************)
THEOREM ExecutionsBounded == Spec => []ExecutionBudget
<1>1. IInv /\ Spent => ExecutionBudget
  <2> SUFFICES ASSUME IInv, Spent PROVE ExecutionBudget
    OBVIOUS
  <2>1. TypeOK
    BY DEF IInv
  <2>2. (CommandRetries + 1) * FailoverRounds \in Nat
    BY BudgetsAssumption, OneMoreRound DEF FailoverRounds
  <2>3. executions <= (CommandRetries + 1) * FailoverRounds
    BY <2>1, <2>2, RoundsAreNumbers DEF Spent
  <2> QED
    BY <2>3 DEF ExecutionBudget, FailoverRounds
<1> QED
  BY <1>1, Invariance, SpentInvariance, PTL

(***************************************************************************)
(* Nor is the server dialled more often than the four loops multiply to.   *)
(***************************************************************************)
THEOREM DialsBounded == Spec => []DialBudget
<1>1. IInv /\ Spent => DialBudget
  <2> SUFFICES ASSUME IInv, Spent PROVE DialBudget
    OBVIOUS
  <2> DEFINE Rounds == (CommandRetries + 1) * FailoverRounds
  <2>1. /\ Before \in Nat /\ DialsPerRound \in Nat /\ dials \in Nat
        /\ Before + 1 <= Rounds /\ Rounds \in Nat
    <3>1. TypeOK
      BY DEF IInv
    <3>2. Rounds \in Nat
      BY BudgetsAssumption, OneMoreRound DEF FailoverRounds
    <3> QED
      BY <3>1, <3>2, RoundsAreNumbers
  <2>2. dials <= (Before + 1) * DialsPerRound
    BY DEF Spent
  <2> HIDE DEF Rounds
  <2>3. CASE call.kind = "Open"
    <3>1. dials <= DialsPerRound
      BY <2>1, <2>2, <2>3 DEF Spent
    <3>2. DialsPerRound = DialsPerRound * 1
      BY <2>1
    <3>3. dials <= DialsPerRound * 1
      BY <3>1, <3>2
    <3> QED
      BY <2>3, <3>3 DEF DialBudget, DialsPerRound, FailoverRounds
  <2>4. CASE call.kind # "Open"
    <3>1. (Before + 1) * DialsPerRound <= Rounds * DialsPerRound
      BY <2>1, RoundsMonotone
    <3>2. /\ (Before + 1) * DialsPerRound \in Nat /\ Rounds * DialsPerRound \in Nat
          /\ Rounds * DialsPerRound = DialsPerRound * Rounds
      BY <2>1, OneMoreRound
    <3>3. dials <= DialsPerRound * Rounds
      BY <2>1, <2>2, <3>1, <3>2
    <3> QED
      BY <2>4, <3>3 DEF DialBudget, DialsPerRound, FailoverRounds, Rounds
  <2> QED
    BY <2>3, <2>4
<1> QED
  BY <1>1, Invariance, SpentInvariance, PTL
=============================================================================
