------------------------- MODULE DbCommandExtensions -------------------------
(***************************************************************************)
(* The Execute...WithRetry extension methods of commands: an attempt makes *)
(* sure that the command's connection is open, under the connection policy,*)
(* executes the command, and gives back a connection it opened before the  *)
(* command policy sees how the attempt ended.  So hasOpenConnection is a   *)
(* local of the attempt, where ReliableDbConnection keeps it for the call. *)
(* One owner uses one connection, a call at a time; the asynchronous forms *)
(* open the connection by the same synchronous helper.                     *)
(***************************************************************************)
EXTENDS Integers

CONSTANTS
  CommandRetries,     \* budget of cmdRetryPolicy
  ConnectionRetries,  \* budget of conRetryPolicy
  MaxCalls            \* bound on the calls the owner makes

ASSUME BudgetsAssumption == CommandRetries \in Nat /\ ConnectionRetries \in Nat
ASSUME MaxCallsAssumption == MaxCalls \in Nat

VARIABLES
  pc,                 \* where the call under way is
  kind,               \* what the command is executed for
  closing,            \* CommandBehavior.CloseConnection was asked for
  wasOpen,            \* the connection was open when the call began
  hasOpenConnection,  \* the local of the attempt
  commandRetry,       \* retries made by the command policy
  connectionRetry,    \* retries made by the connection policy in this attempt
  connection,         \* State of the connection
  reader,             \* the reader open on it
  responsible,        \* the owner knows the connection is open
  result,             \* what the last call ended with
  dropped,            \* the connection broke during the call
  opened,             \* times the call opened the connection
  executions,         \* executions of the command in this call
  dials,              \* calls of Open in this call
  calls               \* calls made by the owner

vars == <<pc, kind, closing, wasOpen, hasOpenConnection, commandRetry,
          connectionRetry, connection, reader, responsible, result, dropped,
          opened, executions, dials, calls>>

Kinds == {"Reader", "XmlReader", "NonQuery", "Scalar"}
Readers == {"Reader", "XmlReader"}
Locations == {"idle", "ensure", "open", "execute", "returned"}

BetweenCalls == pc \in {"idle", "returned"}

Init ==
  /\ pc = "idle"
  /\ kind = "NonQuery"
  /\ closing = FALSE
  /\ wasOpen = FALSE
  /\ hasOpenConnection = FALSE
  /\ commandRetry = 0
  /\ connectionRetry = 0
  /\ connection = "Closed"
  /\ reader = "none"
  /\ responsible = FALSE
  /\ result = "none"
  /\ dropped = FALSE
  /\ opened = 0
  /\ executions = 0
  /\ dials = 0
  /\ calls = 0

\* Closing, and losing, a connection ends its reader.
Disconnect ==
  /\ connection' = "Closed"
  /\ reader' = "none"
  /\ responsible' = FALSE

-----------------------------------------------------------------------------
(* What the owner does with the connection between calls.                  *)

OpenIt ==
  /\ BetweenCalls
  /\ connection = "Closed"
  /\ connection' = "Open"
  /\ responsible' = TRUE
  /\ pc' = "idle"
  /\ UNCHANGED <<kind, closing, wasOpen, hasOpenConnection, commandRetry,
                 connectionRetry, reader, result, dropped, opened, executions,
                 dials, calls>>

CloseIt ==
  /\ BetweenCalls
  /\ connection = "Open"
  /\ Disconnect
  /\ pc' = "idle"
  /\ UNCHANGED <<kind, closing, wasOpen, hasOpenConnection, commandRetry,
                 connectionRetry, result, dropped, opened, executions, dials,
                 calls>>

CloseReader ==
  /\ BetweenCalls
  /\ reader # "none"
  /\ IF reader = "closing" THEN Disconnect
     ELSE reader' = "none" /\ UNCHANGED <<connection, responsible>>
  /\ pc' = "idle"
  /\ UNCHANGED <<kind, closing, wasOpen, hasOpenConnection, commandRetry,
                 connectionRetry, result, dropped, opened, executions, dials,
                 calls>>

\* An extension method; a command without a connection is refused at once.
ExecuteWithRetry ==
  /\ BetweenCalls
  /\ calls < MaxCalls
  /\ calls' = calls + 1
  /\ kind' \in Kinds
  /\ closing' \in (IF kind' = "Reader" THEN BOOLEAN ELSE {FALSE})
  /\ wasOpen' = (connection = "Open")
  /\ hasOpenConnection' = FALSE
  /\ commandRetry' = 0
  /\ connectionRetry' = 0
  /\ dropped' = FALSE
  /\ opened' = 0
  /\ executions' = 0
  /\ dials' = 0
  /\ \/ pc' = "ensure" /\ result' = "none"
     \/ pc' = "returned" /\ result' = "refused"
  /\ UNCHANGED <<connection, reader, responsible>>

-----------------------------------------------------------------------------
(* The policies.                                                           *)

CommandRetryAllowed_OffByOne == commandRetry <= CommandRetries
CommandRetryAllowed == commandRetry < CommandRetries

ConnectionRetryAllowed_OffByOne == connectionRetry <= ConnectionRetries
ConnectionRetryAllowed == connectionRetry < ConnectionRetries

\* The attempt failed: the command policy, if it deems the failure transient
\* and has budget left, begins another.
AttemptFails ==
  \/ /\ CommandRetryAllowed
     /\ commandRetry' = commandRetry + 1
     /\ pc' = "ensure"
     /\ UNCHANGED result
  \/ /\ pc' = "returned"
     /\ result' = "thrown"
     /\ UNCHANGED commandRetry

-----------------------------------------------------------------------------
(* An attempt.                                                             *)

EnsureValidConnection ==
  /\ pc = "ensure"
  /\ hasOpenConnection' = FALSE
  /\ connectionRetry' = 0
  /\ pc' = IF connection = "Open" THEN "execute" ELSE "open"
  /\ UNCHANGED <<kind, closing, wasOpen, commandRetry, connection, reader,
                 responsible, result, dropped, opened, executions, dials,
                 calls>>

OpenWithRetry ==
  /\ pc = "open"
  /\ connection' = "Open"
  /\ opened' = opened + 1
  /\ dials' = dials + 1
  /\ hasOpenConnection' = TRUE
  /\ pc' = "execute"
  /\ UNCHANGED <<kind, closing, wasOpen, commandRetry, connectionRetry, reader,
                 responsible, result, dropped, executions, calls>>

OpenFails ==
  /\ pc = "open"
  /\ dials' = dials + 1
  /\ \/ /\ ConnectionRetryAllowed
        /\ connectionRetry' = connectionRetry + 1
        /\ UNCHANGED <<pc, commandRetry, result>>
     \/ AttemptFails /\ UNCHANGED connectionRetry
  /\ UNCHANGED <<kind, closing, wasOpen, hasOpenConnection, connection, reader,
                 responsible, dropped, opened, executions, calls>>

GivesBackOnSuccess_Never(k) == FALSE

\* "finally" closes after a query without a reader; "catch" does not.
GivesBackOnSuccess(k) == k \notin Readers

ExecuteSucceeds ==
  /\ pc = "execute"
  /\ reader = "none"
  /\ executions' = executions + 1
  /\ IF hasOpenConnection /\ GivesBackOnSuccess(kind)
     THEN Disconnect
     ELSE /\ reader' = IF kind \notin Readers THEN "none"
                       ELSE IF closing THEN "closing" ELSE "plain"
          /\ responsible' = (responsible \/ kind \in Readers)
          /\ UNCHANGED connection
  /\ pc' = "returned"
  /\ result' = "value"
  /\ UNCHANGED <<kind, closing, wasOpen, hasOpenConnection, commandRetry,
                 connectionRetry, dropped, opened, dials, calls>>

ExecuteFails_KeepsTheConnection ==
  /\ pc = "execute"
  /\ executions' = executions + 1
  /\ AttemptFails
  /\ UNCHANGED <<connection, reader, responsible, dropped>>
  /\ UNCHANGED <<kind, closing, wasOpen, hasOpenConnection, connectionRetry,
                 opened, dials, calls>>

\* Also what the provider answers while a reader is open.  The connection may
\* break; if it does not, one the attempt opened is closed.
ExecuteFails ==
  /\ pc = "execute"
  /\ executions' = executions + 1
  /\ AttemptFails
  /\ \/ Disconnect /\ dropped' = TRUE
     \/ /\ IF hasOpenConnection THEN Disconnect
           ELSE UNCHANGED <<connection, reader, responsible>>
        /\ UNCHANGED dropped
  /\ UNCHANGED <<kind, closing, wasOpen, hasOpenConnection, connectionRetry,
                 opened, dials, calls>>

-----------------------------------------------------------------------------

CallStep ==
  \/ EnsureValidConnection \/ OpenWithRetry \/ OpenFails
  \/ ExecuteSucceeds \/ ExecuteFails

OwnerStep == OpenIt \/ CloseIt \/ CloseReader \/ ExecuteWithRetry

Next == CallStep \/ OwnerStep

Spec == Init /\ [][Next]_vars

-----------------------------------------------------------------------------
(* Properties.                                                             *)

TypeOK ==
  /\ pc \in Locations
  /\ kind \in Kinds
  /\ closing \in BOOLEAN
  /\ wasOpen \in BOOLEAN
  /\ hasOpenConnection \in BOOLEAN
  /\ commandRetry \in 0..CommandRetries
  /\ connectionRetry \in 0..ConnectionRetries
  /\ connection \in {"Open", "Closed"}
  /\ reader \in {"none", "plain", "closing"}
  /\ responsible \in BOOLEAN
  /\ result \in {"none", "value", "thrown", "refused"}
  /\ dropped \in BOOLEAN
  /\ opened \in Nat
  /\ executions \in Nat
  /\ dials \in Nat
  /\ calls \in 0..MaxCalls

\* A call that has begun, or the last one, was given its connection open.
Borrowed == pc # "idle" /\ wasOpen /\ ~dropped

Lease == INSTANCE ConnectionLease WITH
  busy <- ~BetweenCalls,
  open <- connection = "Open",
  owned <- responsible,
  borrowed <- Borrowed,
  reader <- reader # "none",
  handed <- pc = "returned" /\ kind \in Readers /\ result = "value"

(***************************************************************************)
(* The extension methods implement the lease: whichever attempt opened the *)
(* connection, a call that ends has closed it or handed over a reader that *)
(* can be read; the connection the caller had open is still open.          *)
(***************************************************************************)
KeepsLease == Lease!Spec

(***************************************************************************)
(* A retry never runs on the connection on which the attempt before failed:*)
(* every execution after the first has an opening of its own, save on a    *)
(* connection of the owner's that is still open.                           *)
(***************************************************************************)
RetriesOnAFreshConnection ==
  pc = "execute" /\ (dropped \/ ~wasOpen) /\ executions > 0
    => hasOpenConnection /\ opened > 0

(***************************************************************************)
(* The two policies multiply, and no more than that: each of the attempts  *)
(* dials at most once plus the connection retries.                         *)
(***************************************************************************)
DialBudget ==
  /\ executions <= CommandRetries + 1
  /\ dials <= (CommandRetries + 1) * (ConnectionRetries + 1)
=============================================================================
