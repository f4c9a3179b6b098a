---------------------- MODULE DbCommandExtensionsProofs ----------------------
(***************************************************************************)
(* The extension methods keep the lease, for any two budgets and any       *)
(* number of calls.  The invariant follows the connection through an       *)
(* attempt: at every place where the call may end it says who knows that   *)
(* the connection is open.                                                 *)
(***************************************************************************)
EXTENDS DbCommandExtensions, TLAPS

\* A closed connection has no reader, and nobody relies on it.
ClosedIsClosed ==
  connection = "Closed" => reader = "none" /\ ~responsible /\ ~Borrowed

\* Outside the few steps in which the attempt has it open for itself, an open
\* connection is the owner's.
OwnersUnlessOpenedHere ==
  connection = "Open" => \/ responsible
                         \/ pc = "execute" /\ hasOpenConnection

\* What the attempt opened was not open when the call began, or has been lost.
OpenedHereIsNotBorrowed ==
  pc = "execute" /\ hasOpenConnection => ~Borrowed

Places ==
  /\ pc = "open" => connection = "Closed"
  /\ pc = "execute" => connection = "Open"
  /\ pc \in {"ensure", "open", "execute"} => result = "none"

IInv ==
  /\ TypeOK
  /\ ClosedIsClosed
  /\ OwnersUnlessOpenedHere
  /\ OpenedHereIsNotBorrowed
  /\ Places

(***************************************************************************)
(* The invariant holds before any call.                                    *)
(***************************************************************************)
LEMMA InitIInv == Init => IInv
<1> SUFFICES ASSUME Init PROVE IInv
  OBVIOUS
<1>1. TypeOK
  <2>1. 0 \in 0..CommandRetries /\ 0 \in 0..ConnectionRetries /\ 0 \in 0..MaxCalls
    BY BudgetsAssumption, MaxCallsAssumption
  <2> QED
    BY <2>1 DEF Init, TypeOK, Kinds, Locations
<1>2. ClosedIsClosed /\ OwnersUnlessOpenedHere
  BY DEF Init, ClosedIsClosed, OwnersUnlessOpenedHere, Borrowed
<1>3. OpenedHereIsNotBorrowed /\ Places
  BY DEF Init, OpenedHereIsNotBorrowed, Places
<1> QED
  BY <1>1, <1>2, <1>3 DEF IInv

(***************************************************************************)
(* No step leads out of the types.                                         *)
(***************************************************************************)
LEMMA NextTypeOK == TypeOK /\ [Next]_vars => TypeOK'
<1> SUFFICES ASSUME TypeOK, [Next]_vars PROVE TypeOK'
  OBVIOUS
<1>0. 0 \in 0..CommandRetries /\ 0 \in 0..ConnectionRetries
  BY BudgetsAssumption
<1> USE <1>0, BudgetsAssumption, MaxCallsAssumption
    DEF TypeOK, Kinds, Locations, Disconnect
<1>1. CASE OpenIt
  <2>1. /\ pc' = "idle" /\ connection' = "Open" /\ responsible' = TRUE
        /\ UNCHANGED <<kind, closing, wasOpen, hasOpenConnection, commandRetry,
                       connectionRetry, reader, result, dropped, opened,
                       executions, dials, calls>>
    BY <1>1 DEF OpenIt
  <2> QED
    BY <2>1
<1>2. CASE CloseIt
  <2>1. /\ pc' = "idle" /\ connection' = "Closed" /\ reader' = "none"
        /\ responsible' = FALSE
        /\ UNCHANGED <<kind, closing, wasOpen, hasOpenConnection, commandRetry,
                       connectionRetry, result, dropped, opened, executions,
                       dials, calls>>
    BY <1>2 DEF CloseIt
  <2> QED
    BY <2>1
<1>3. CASE CloseReader
  <2>1. /\ reader' = "none"
        /\ connection' \in {"Open", "Closed"} /\ responsible' \in BOOLEAN
    BY <1>3 DEF CloseReader
  <2>2. /\ pc' = "idle"
        /\ UNCHANGED <<kind, closing, wasOpen, hasOpenConnection, commandRetry,
                       connectionRetry, result, dropped, opened, executions,
                       dials, calls>>
    BY <1>3 DEF CloseReader
  <2> QED
    BY <2>1, <2>2
<1>4. CASE ExecuteWithRetry
  <2>1. closing' \in BOOLEAN /\ wasOpen' \in BOOLEAN
    BY <1>4 DEF ExecuteWithRetry
  <2>2. /\ pc' \in Locations
        /\ result' \in {"none", "value", "thrown", "refused"}
    BY <1>4 DEF ExecuteWithRetry
  <2>3. calls' \in 0..MaxCalls
    BY <1>4 DEF ExecuteWithRetry
  <2>4. /\ kind' \in Kinds
        /\ hasOpenConnection' = FALSE /\ dropped' = FALSE
        /\ commandRetry' = 0 /\ connectionRetry' = 0
        /\ opened' = 0 /\ executions' = 0 /\ dials' = 0
        /\ UNCHANGED <<connection, reader, responsible>>
    BY <1>4 DEF ExecuteWithRetry
  <2> QED
    BY <2>1, <2>2, <2>3, <2>4
<1>5. CASE EnsureValidConnection
  <2>1. pc' \in Locations /\ hasOpenConnection' \in BOOLEAN
    BY <1>5 DEF EnsureValidConnection
  <2>3. connectionRetry' \in 0..ConnectionRetries
    BY <1>5 DEF EnsureValidConnection
  <2>2. UNCHANGED <<kind, closing, wasOpen, commandRetry, connection, reader,
                    responsible, result, dropped, opened, executions, dials,
                    calls>>
    BY <1>5 DEF EnsureValidConnection
  <2> QED
    BY <2>1, <2>2, <2>3
<1>6. CASE OpenWithRetry
  BY <1>6 DEF OpenWithRetry
<1>7. CASE OpenFails
  BY <1>7 DEF OpenFails, AttemptFails, CommandRetryAllowed, ConnectionRetryAllowed
<1>8. CASE ExecuteSucceeds
  <2>1. connection' \in {"Open", "Closed"}
    BY <1>8 DEF ExecuteSucceeds
  <2>2. reader' \in {"none", "plain", "closing"}
    BY <1>8 DEF ExecuteSucceeds
  <2>3. responsible' \in BOOLEAN
    BY <1>8 DEF ExecuteSucceeds
  <2> QED
    BY <1>8, <2>1, <2>2, <2>3 DEF ExecuteSucceeds
<1>9. CASE ExecuteFails
  <2>1. /\ pc' \in Locations
        /\ result' \in {"none", "value", "thrown", "refused"}
        /\ commandRetry' \in 0..CommandRetries
    BY <1>9 DEF ExecuteFails, AttemptFails, CommandRetryAllowed
  <2>2. /\ connection' \in {"Open", "Closed"}
        /\ reader' \in {"none", "plain", "closing"}
        /\ responsible' \in BOOLEAN
        /\ dropped' \in BOOLEAN
    <3>1. CASE hasOpenConnection
      BY <1>9, <3>1 DEF ExecuteFails
    <3>2. CASE ~hasOpenConnection
      BY <1>9, <3>2 DEF ExecuteFails
    <3> QED
      BY <3>1, <3>2
  <2> QED
    BY <1>9, <2>1, <2>2 DEF ExecuteFails
<1>10. CASE UNCHANGED vars
  BY <1>10 DEF vars
<1> QED
  BY <1>1, <1>2, <1>3, <1>4, <1>5, <1>6, <1>7, <1>8, <1>9, <1>10
  DEF Next, CallStep, OwnerStep

(***************************************************************************)
(* Every step keeps the invariant.                                         *)
(***************************************************************************)
LEMMA NextIInv == IInv /\ [Next]_vars => IInv'
<1> SUFFICES ASSUME IInv, [Next]_vars PROVE IInv'
  OBVIOUS
<1>0. TypeOK /\ TypeOK'
  BY NextTypeOK DEF IInv
<1> DEFINE Rest == ClosedIsClosed /\ OwnersUnlessOpenedHere
                   /\ OpenedHereIsNotBorrowed /\ Places
<1> SUFFICES Rest'
  BY <1>0 DEF IInv
<1> USE <1>0 DEF IInv, TypeOK, ClosedIsClosed, OwnersUnlessOpenedHere,
        OpenedHereIsNotBorrowed, Places, Borrowed, Disconnect, BetweenCalls
<1>1. CASE OpenIt
  BY <1>1 DEF OpenIt
<1>2. CASE CloseIt
  BY <1>2 DEF CloseIt
<1>3. CASE CloseReader
  BY <1>3 DEF CloseReader
<1>4. CASE ExecuteWithRetry
  BY <1>4 DEF ExecuteWithRetry
<1>5. CASE EnsureValidConnection
  BY <1>5 DEF EnsureValidConnection
<1>6. CASE OpenWithRetry
  BY <1>6 DEF OpenWithRetry
<1>7. CASE OpenFails
  BY <1>7 DEF OpenFails, AttemptFails
<1>8. CASE ExecuteSucceeds
  BY <1>8 DEF ExecuteSucceeds, GivesBackOnSuccess
<1>9. CASE ExecuteFails
  BY <1>9 DEF ExecuteFails, AttemptFails
<1>10. CASE UNCHANGED vars
  BY <1>10 DEF vars
<1> QED
  BY <1>1, <1>2, <1>3, <1>4, <1>5, <1>6, <1>7, <1>8, <1>9, <1>10
  DEF Next, CallStep, OwnerStep

(***************************************************************************)
(* The invariant holds throughout.                                         *)
(***************************************************************************)
LEMMA Invariance == Spec => []IInv
BY InitIInv, NextIInv, PTL DEF Spec

(***************************************************************************)
(* The types of the extension methods: no retry exceeds its budget.        *)
(***************************************************************************)
THEOREM TypeCorrect == Spec => []TypeOK
BY Invariance, PTL DEF IInv

-----------------------------------------------------------------------------
(* The lease.                                                              *)

(***************************************************************************)
(* What the owner does to the connection between calls.                    *)
(***************************************************************************)
LEMMA OwnerRefines ==
  ASSUME IInv, OpenIt \/ CloseIt \/ CloseReader
  PROVE  Lease!OwnerActs
<1> USE DEF IInv, TypeOK, ClosedIsClosed, OwnersUnlessOpenedHere, Places,
        BetweenCalls, Borrowed, Disconnect
<1>1. CASE OpenIt
  BY <1>1 DEF OpenIt, Lease!OwnerActs
<1>2. CASE CloseIt
  BY <1>2 DEF CloseIt, Lease!OwnerActs
<1>3. CASE CloseReader
  BY <1>3 DEF CloseReader, Lease!OwnerActs
<1> QED
  BY <1>1, <1>2, <1>3

(***************************************************************************)
(* A call begins, or is refused.                                           *)
(***************************************************************************)
LEMMA BeginRefines ==
  ASSUME IInv, ExecuteWithRetry
  PROVE  Lease!Begin
BY DEF IInv, TypeOK, BetweenCalls, Borrowed, ExecuteWithRetry, Lease!Begin

(***************************************************************************)
(* The steps of a call.                                                    *)
(***************************************************************************)
LEMMA CallRefines ==
  ASSUME IInv, IInv', CallStep
  PROVE  Lease!Work \/ Lease!End \/ Lease!HandOver
<1> USE DEF IInv, TypeOK, ClosedIsClosed, OwnersUnlessOpenedHere,
        OpenedHereIsNotBorrowed, Places, BetweenCalls, Borrowed, Disconnect,
        Lease!Keep, Lease!Take, Lease!GiveUp, Lease!Lose, Lease!ReaderFollows
<1>1. CASE EnsureValidConnection
  BY <1>1 DEF EnsureValidConnection, Lease!Work
<1>2. CASE OpenWithRetry
  BY <1>2 DEF OpenWithRetry, Lease!Work
<1>3. CASE OpenFails
  BY <1>3 DEF OpenFails, AttemptFails, Lease!Work, Lease!End
<1>4. CASE ExecuteSucceeds
  BY <1>4 DEF ExecuteSucceeds, GivesBackOnSuccess, Readers, Lease!End,
              Lease!HandOver
<1>5. CASE ExecuteFails
  BY <1>5 DEF ExecuteFails, AttemptFails, Lease!Work, Lease!End
<1> QED
  BY <1>1, <1>2, <1>3, <1>4, <1>5 DEF CallStep

(***************************************************************************)
(* The extension methods implement the lease.                              *)
(***************************************************************************)
THEOREM LeaseImplemented == Spec => KeepsLease
<1>1. Init => Lease!Init
  BY DEF Init, Lease!Init, BetweenCalls, Borrowed
<1>2. IInv /\ IInv' /\ [Next]_vars => [Lease!Next]_(Lease!vars)
  <2>1. ASSUME IInv, UNCHANGED vars PROVE UNCHANGED Lease!vars
    BY <2>1 DEF vars, Lease!vars, BetweenCalls, Borrowed
  <2> QED
    BY <2>1, OwnerRefines, BeginRefines, CallRefines DEF Next, OwnerStep, Lease!Next
<1> QED
  BY <1>1, <1>2, Invariance, PTL DEF Spec, KeepsLease, Lease!Spec

(***************************************************************************)
(* What the lease is worth, whoever implements it: between calls an open   *)
(* connection is known to the owner, a borrowed one is open, and a reader  *)
(* handed over is on an open connection.                                   *)
(***************************************************************************)
LEMMA LeaseSuffices == Lease!Spec => [](Lease!TypeOK /\ Lease!LeaseKept)
<1>1. Lease!Init => Lease!TypeOK /\ Lease!LeaseKept
  BY DEF Lease!Init, Lease!TypeOK, Lease!LeaseKept
<1>2. Lease!TypeOK /\ Lease!LeaseKept /\ [Lease!Next]_(Lease!vars)
        => (Lease!TypeOK /\ Lease!LeaseKept)'
  <2> SUFFICES ASSUME Lease!TypeOK, Lease!LeaseKept, [Lease!Next]_(Lease!vars)
               PROVE  (Lease!TypeOK /\ Lease!LeaseKept)'
    OBVIOUS
  <2> USE DEF Lease!TypeOK, Lease!LeaseKept
  <2>1. CASE Lease!OwnerActs
    BY <2>1 DEF Lease!OwnerActs
  <2>2. CASE Lease!Begin
    BY <2>2 DEF Lease!Begin
  <2>3. CASE Lease!Work
    BY <2>3 DEF Lease!Work, Lease!ReaderFollows, Lease!Keep, Lease!Take, Lease!GiveUp,
                Lease!Lose
  <2>4. CASE Lease!End
    BY <2>4 DEF Lease!End, Lease!ReaderFollows, Lease!Keep, Lease!GiveUp, Lease!Lose
  <2>5. CASE Lease!HandOver
    BY <2>5 DEF Lease!HandOver
  <2>6. CASE UNCHANGED Lease!vars
    BY <2>6 DEF Lease!vars
  <2> QED
    BY <2>1, <2>2, <2>3, <2>4, <2>5, <2>6 DEF Lease!Next
<1> QED
  BY <1>1, <1>2, PTL DEF Lease!Spec

(***************************************************************************)
(* The extension methods leak no connection, close none that they were     *)
(* given open, and hand over readers that can be read.                     *)
(***************************************************************************)
THEOREM LeaseSafe == Spec => []Lease!LeaseKept
<1>1. Spec => Lease!Spec
  BY LeaseImplemented DEF KeepsLease
<1> QED
  BY <1>1, LeaseSuffices, PTL

-----------------------------------------------------------------------------
(***************************************************************************)
(* A connection that was closed at the start of the call, or has broken    *)
(* since, is closed whenever an attempt begins, so that the attempt opens  *)
(* one for itself.                                                         *)
(***************************************************************************)
Fresh ==
  dropped \/ ~wasOpen =>
    /\ pc \in {"ensure", "open"} => connection = "Closed"
    /\ pc = "execute" => hasOpenConnection /\ opened > 0

(***************************************************************************)
(* Every step keeps it: a failed attempt gives back what it opened.        *)
(***************************************************************************)
LEMMA NextFresh == IInv /\ Fresh /\ [Next]_vars => Fresh'
<1> SUFFICES ASSUME IInv, Fresh, [Next]_vars PROVE Fresh'
  OBVIOUS
<1> USE DEF IInv, TypeOK, Places, Fresh, Disconnect
<1>1. CASE OwnerStep
  BY <1>1 DEF OwnerStep, OpenIt, CloseIt, CloseReader, ExecuteWithRetry, BetweenCalls
<1>2. CASE EnsureValidConnection
  BY <1>2 DEF EnsureValidConnection
<1>3. CASE OpenWithRetry
  BY <1>3 DEF OpenWithRetry
<1>4. CASE OpenFails
  BY <1>4 DEF OpenFails, AttemptFails
<1>5. CASE ExecuteSucceeds
  BY <1>5 DEF ExecuteSucceeds
<1>6. CASE ExecuteFails
  BY <1>6 DEF ExecuteFails, AttemptFails
<1>7. CASE UNCHANGED vars
  BY <1>7 DEF vars
<1> QED
  BY <1>1, <1>2, <1>3, <1>4, <1>5, <1>6, <1>7 DEF Next, CallStep

(***************************************************************************)
(* A retry never runs on the connection on which the attempt before it     *)
(* failed, for any budgets.                                                *)
(***************************************************************************)
THEOREM FreshConnectionForRetries == Spec => []RetriesOnAFreshConnection
<1>1. Init => Fresh
  BY DEF Init, Fresh
<1>2. Fresh => RetriesOnAFreshConnection
  BY DEF Fresh, RetriesOnAFreshConnection
<1> QED
  BY <1>1, <1>2, NextFresh, Invariance, PTL DEF Spec

-----------------------------------------------------------------------------
(***************************************************************************)
(* The product of the budgets.  An attempt that begins has behind it as    *)
(* many executions as retries, and for each of them a full round of dials. *)
(***************************************************************************)
Round == ConnectionRetries + 1
Finished == commandRetry * Round

Spent ==
  /\ pc \in {"ensure", "open", "execute"} => executions <= commandRetry
  /\ executions <= commandRetry + 1
  /\ pc = "ensure" => dials <= Finished
  /\ pc = "open" => dials <= Finished + connectionRetry
  /\ dials <= Finished + Round

(***************************************************************************)
(* One more round costs as much as the others.                             *)
(***************************************************************************)
LEMMA OneMoreRound ==
  ASSUME NEW n \in Nat, NEW k \in Nat
  PROVE  n * k \in Nat /\ (n + 1) * k = n * k + k
OBVIOUS

(***************************************************************************)
(* More rounds cost more.                                                  *)
(***************************************************************************)
LEMMA RoundsMonotone ==
  ASSUME NEW k \in Nat, NEW m \in Nat, NEW n \in 0..m
  PROVE  n * k <= m * k
OBVIOUS

(***************************************************************************)
(* Every step keeps it.                                                    *)
(***************************************************************************)
LEMMA NextSpent == IInv /\ IInv' /\ Spent /\ [Next]_vars => Spent'
<1> SUFFICES ASSUME IInv, IInv', Spent, [Next]_vars PROVE Spent'
  OBVIOUS
<1>0. /\ commandRetry \in Nat /\ connectionRetry \in 0..ConnectionRetries
      /\ executions \in Nat /\ dials \in Nat
      /\ Round \in Nat /\ ConnectionRetries \in Nat /\ Round = ConnectionRetries + 1
      /\ pc \in Locations
  BY BudgetsAssumption DEF IInv, TypeOK, Round
<1>1. Finished \in Nat
  BY <1>0, OneMoreRound DEF Finished
<1>2. ASSUME commandRetry' = commandRetry PROVE Finished' = Finished
  BY <1>2 DEF Finished, Round
<1>3. ASSUME commandRetry' = commandRetry + 1 PROVE Finished' = Finished + Round
  BY <1>0, <1>3, OneMoreRound DEF Finished, Round
<1>4. ASSUME commandRetry' = 0 PROVE Finished' = 0
  BY <1>0, <1>4 DEF Finished, Round
<1> HIDE DEF Finished, Round
<1>5. CASE UNCHANGED vars \/ OpenIt \/ CloseIt \/ CloseReader
  BY <1>0, <1>1, <1>2, <1>5
  DEF Spent, vars, OpenIt, CloseIt, CloseReader, BetweenCalls
<1>6. CASE ExecuteWithRetry
  BY <1>0, <1>4, <1>6 DEF Spent, ExecuteWithRetry
<1>7. CASE EnsureValidConnection \/ OpenWithRetry \/ ExecuteSucceeds
  BY <1>0, <1>1, <1>2, <1>7
  DEF Spent, EnsureValidConnection, OpenWithRetry, ExecuteSucceeds
<1>8. CASE OpenFails
  <2>1. CASE ConnectionRetryAllowed /\ connectionRetry' = connectionRetry + 1
             /\ UNCHANGED <<pc, commandRetry, result>>
    BY <1>0, <1>1, <1>2, <1>8, <2>1 DEF Spent, OpenFails, ConnectionRetryAllowed
  <2>2. CASE AttemptFails
    BY <1>0, <1>1, <1>2, <1>3, <1>8, <2>2 DEF Spent, OpenFails, AttemptFails
  <2> QED
    BY <1>8, <2>1, <2>2 DEF OpenFails
<1>9. CASE ExecuteFails
  BY <1>0, <1>1, <1>2, <1>3, <1>9 DEF Spent, ExecuteFails, AttemptFails
<1> QED
  BY <1>5, <1>6, <1>7, <1>8, <1>9 DEF Next, CallStep, OwnerStep

(***************************************************************************)
(* However a call fails, its executions and dials stay within the product  *)
(* of the two budgets.                                                     *)
(***************************************************************************)
THEOREM BudgetsMultiply == Spec => []DialBudget
<1>1. Init => Spent
  BY BudgetsAssumption DEF Init, Spent, Finished, Round
<1>2. ASSUME IInv, Spent PROVE DialBudget
  <2>1. /\ commandRetry \in 0..CommandRetries /\ commandRetry \in Nat
        /\ CommandRetries \in Nat /\ Round \in Nat
        /\ executions \in Nat /\ dials \in Nat
    BY <1>2, BudgetsAssumption DEF IInv, TypeOK, Round
  <2>2. /\ Finished \in Nat /\ CommandRetries * Round \in Nat
        /\ Finished <= CommandRetries * Round
        /\ (CommandRetries + 1) * Round = CommandRetries * Round + Round
    BY <2>1, OneMoreRound, RoundsMonotone DEF Finished
  <2>3. dials <= Finished + Round /\ executions <= commandRetry + 1
    BY <1>2 DEF Spent
  <2>4. dials <= (CommandRetries + 1) * Round
    BY <2>1, <2>2, <2>3
  <2>5. executions <= CommandRetries + 1
    BY <2>1, <2>3
  <2> QED
    BY <2>4, <2>5 DEF DialBudget, Round
<1> QED
  BY <1>1, <1>2, NextSpent, Invariance, PTL DEF Spec
=============================================================================
