------------------------ MODULE ReliableDbConnection ------------------------
(***************************************************************************)
(* ReliableDbConnection: Open / OpenAsync, ExecuteCommand and              *)
(* ExecuteCommandAsync over one underlying connection, called one after    *)
(* the other by its owner.  The work of a call runs inside nested retry    *)
(* loops, each a RetryPolicy with its budget: the connection-string        *)
(* failover policy within the command policy, and in this.Open() once more *)
(* the failover policy within the connection policy.  A failure carries    *)
(* the set of policies that deem it transient; the innermost loop that     *)
(* deems it so and has budget left starts its body again.                  *)
(***************************************************************************)
EXTENDS Integers

CONSTANTS
  ConnectionRetries,  \* budget of connectionRetryPolicy
  CommandRetries,     \* budget of the policy the command runs under
  FailoverRetries,    \* budget of connectionStringFailoverPolicy
  MaxCalls            \* bound on the calls the owner makes

ASSUME BudgetsAssumption ==
  ConnectionRetries \in Nat /\ CommandRetries \in Nat /\ FailoverRetries \in Nat
ASSUME MaxCallsAssumption == MaxCalls \in Nat

VARIABLES
  pc,                   \* where the call under way is; "idle"/"returned" between calls
  call,                 \* its kind, and what it found when it began
  attached,             \* command.Connection is set
  hasOpenedConnection,  \* the local of ExecuteCommand
  retries,              \* retries made so far by each of the nested loops
  connection,           \* State of the underlying connection
  reader,               \* the reader open on the connection, and who can close it
  responsible,          \* the owner knows the connection is open: it has to close it
  result,               \* what the last call ended with
  dropped,              \* the connection broke during the call
  dials,                \* calls of Open on the underlying connection in this call
  executions,           \* executions of the command in this call
  calls                 \* calls made by the owner

vars == <<pc, call, attached, hasOpenedConnection, retries, connection, reader,
          responsible, result, dropped, dials, executions, calls>>

Kinds == {"Open", "Reader", "XmlReader", "NonQuery", "Scalar"}
Readers == {"Reader", "XmlReader"}
Policies == {"failover", "connection", "command"}
Layers == {"openFailover", "openConnection", "failover", "command"}
Locations == {"idle", "attach", "dial", "reopen", "execute", "success", "throw",
              "returned", "disposed"}
States == {"Open", "Closed"}
ReaderStates == {"none", "plain", "closing", "lost"}

NoRetries == [layer \in Layers |-> 0]

\* Ready for the next call.
BetweenCalls == pc \in {"idle", "returned"}

Init ==
  /\ pc = "idle"
  /\ call = [kind |-> "Open", async |-> FALSE, closing |-> FALSE,
             attached |-> FALSE, wasOpen |-> FALSE]
  /\ attached = FALSE
  /\ hasOpenedConnection = FALSE
  /\ retries = NoRetries
  /\ connection = "Closed"
  /\ reader = "none"
  /\ responsible = FALSE
  /\ result = "none"
  /\ dropped = FALSE
  /\ dials = 0
  /\ executions = 0
  /\ calls = 0

-----------------------------------------------------------------------------
(* The nested loops.                                                       *)

PolicyOf(layer) ==
  CASE layer \in {"openFailover", "failover"} -> "failover"
    [] layer = "openConnection" -> "connection"
    [] layer = "command" -> "command"

Budget_OffByOne(layer) ==
  CASE layer \in {"openFailover", "failover"} -> FailoverRetries
    [] layer = "openConnection" -> ConnectionRetries + 1
    [] layer = "command" -> CommandRetries + 1

Budget(layer) ==
  CASE layer \in {"openFailover", "failover"} -> FailoverRetries
    [] layer = "openConnection" -> ConnectionRetries
    [] layer = "command" -> CommandRetries

\* From the innermost loop outwards.
Depth(layer) ==
  CASE layer = "openFailover" -> 1
    [] layer = "openConnection" -> 2
    [] layer = "failover" -> 3
    [] layer = "command" -> 4

\* The loops around the step at hand.
Around ==
  (IF pc = "dial" THEN {"openFailover", "openConnection"} ELSE {}) \cup
  (IF call.kind = "Open" THEN {} ELSE {"failover", "command"})

Willing_OneTooMany(deemed) ==
  {layer \in Around : PolicyOf(layer) \in deemed /\ retries[layer] <= Budget(layer)}

\* The loops that would try again after such a failure.
Willing(deemed) ==
  {layer \in Around : PolicyOf(layer) \in deemed /\ retries[layer] < Budget(layer)}

\* A failure unwinds to the innermost willing loop, which begins its body
\* again: the loops inside it start from scratch.  With none it is thrown.
Fail(deemed) ==
  IF Willing(deemed) = {}
  THEN pc' = "throw" /\ UNCHANGED retries
  ELSE \E layer \in Willing(deemed) :
         /\ \A other \in Willing(deemed) : Depth(layer) <= Depth(other)
         /\ retries' = [l \in Layers |->
              IF l = layer THEN retries[l] + 1
              ELSE IF Depth(l) < Depth(layer) THEN 0 ELSE retries[l]]
         /\ pc' = IF Depth(layer) <= 2 THEN "dial" ELSE "attach"

\* Closing, and losing, a connection ends its readers.
Disconnect ==
  /\ connection' = "Closed"
  /\ reader' = "none"
  /\ responsible' = FALSE

-----------------------------------------------------------------------------
(* The owner's calls.                                                      *)

Begin(kind, async, closing, hasConnection, location) ==
  /\ BetweenCalls
  /\ calls < MaxCalls
  /\ calls' = calls + 1
  /\ call' = [kind |-> kind, async |-> async, closing |-> closing,
              attached |-> hasConnection, wasOpen |-> connection = "Open"]
  /\ attached' = hasConnection
  /\ hasOpenedConnection' = FALSE
  /\ retries' = NoRetries
  /\ result' = "none"
  /\ dropped' = FALSE
  /\ dials' = 0
  /\ executions' = 0
  /\ pc' = location
  /\ UNCHANGED <<connection, reader, responsible>>

Open == \E async \in BOOLEAN : Begin("Open", async, FALSE, FALSE, "dial")

\* closing: the reader was asked for with CommandBehavior.CloseConnection.
ExecuteCommand ==
  \E kind \in Kinds \ {"Open"}, async, closing, hasConnection \in BOOLEAN :
    /\ closing => kind \in Readers
    /\ Begin(kind, async, closing, hasConnection, "attach")

\* The reader the owner holds; a SqlXmlReader closes the connection too.
CloseReader ==
  /\ BetweenCalls
  /\ reader \in {"plain", "closing"}
  /\ IF reader = "closing" THEN Disconnect
     ELSE reader' = "none" /\ UNCHANGED <<connection, responsible>>
  /\ pc' = "idle"
  /\ UNCHANGED <<call, attached, hasOpenedConnection, retries, result, dropped,
                 dials, executions, calls>>

Close ==
  /\ BetweenCalls
  /\ connection = "Open"
  /\ Disconnect
  /\ pc' = "idle"
  /\ UNCHANGED <<call, attached, hasOpenedConnection, retries, result, dropped,
                 dials, executions, calls>>

Dispose ==
  /\ BetweenCalls
  /\ Disconnect
  /\ pc' = "disposed"
  /\ UNCHANGED <<call, attached, hasOpenedConnection, retries, result, dropped,
                 dials, executions, calls>>

-----------------------------------------------------------------------------
(* this.Open().                                                            *)

AttachOpened_NotRecorded ==
  /\ attached' = TRUE
  /\ UNCHANGED hasOpenedConnection

AttachOpened_NotAssigned ==
  /\ hasOpenedConnection' = TRUE
  /\ UNCHANGED attached

\* command.Connection = this.Open(): whoever opened it.
AttachOpened ==
  /\ attached' = TRUE
  /\ hasOpenedConnection' = TRUE

Opened ==
  IF call.kind = "Open"
  THEN /\ pc' = "returned"
       /\ result' = "value"
       /\ responsible' = TRUE
       /\ UNCHANGED <<attached, hasOpenedConnection>>
  ELSE /\ AttachOpened
       /\ pc' = "attach"
       /\ UNCHANGED <<result, responsible>>

Dial ==
  /\ pc = "dial"
  /\ connection = "Closed"
  /\ connection' = "Open"
  /\ dials' = dials + 1
  /\ Opened
  /\ UNCHANGED <<call, retries, reader, dropped, executions, calls>>

FindOpen ==
  /\ pc = "dial"
  /\ connection = "Open"
  /\ Opened
  /\ UNCHANGED <<call, retries, connection, reader, dropped, dials, executions,
                 calls>>

DialFails ==
  /\ pc = "dial"
  /\ connection = "Closed"
  /\ dials' = dials + 1
  /\ \E deemed \in SUBSET Policies : Fail(deemed)
  /\ UNCHANGED <<call, attached, hasOpenedConnection, connection, reader,
                 responsible, result, dropped, executions, calls>>

-----------------------------------------------------------------------------
(* The body of ExecuteCommand.                                             *)

Attach ==
  /\ pc = "attach"
  /\ pc' = IF ~attached THEN "dial"
           ELSE IF connection = "Open" THEN "execute" ELSE "reopen"
  /\ UNCHANGED <<call, attached, hasOpenedConnection, retries, connection,
                 reader, responsible, result, dropped, dials, executions,
                 calls>>

\* command.Connection.Open(), under the two outer loops only.
Reopen ==
  /\ pc = "reopen"
  /\ connection' = "Open"
  /\ hasOpenedConnection' = TRUE
  /\ dials' = dials + 1
  /\ pc' = "execute"
  /\ UNCHANGED <<call, attached, retries, reader, responsible, result, dropped,
                 executions, calls>>

ReopenFails ==
  /\ pc = "reopen"
  /\ dials' = dials + 1
  /\ \E deemed \in SUBSET Policies : Fail(deemed)
  /\ UNCHANGED <<call, attached, hasOpenedConnection, connection, reader,
                 responsible, result, dropped, executions, calls>>

\* The provider refuses a second command while a reader is open.
Execute ==
  /\ pc = "execute"
  /\ reader = "none"
  /\ executions' = executions + 1
  /\ reader' = IF call.kind \notin Readers THEN "none"
               ELSE IF call.closing THEN "closing" ELSE "plain"
  /\ pc' = "success"
  /\ UNCHANGED <<call, attached, hasOpenedConnection, retries, connection,
                 responsible, result, dropped, dials, calls>>

\* Convert.ChangeType fails on what the database answered: on a scalar that
\* is not of the type asked for, and on a reader of ExecuteCommandAsync, which
\* then nobody holds, unless the type asked for is the provider's own class.
ConversionFails ==
  /\ pc = "execute"
  /\ reader = "none"
  /\ call.kind = "Scalar" \/ (call.kind = "Reader" /\ call.async)
  /\ executions' = executions + 1
  /\ reader' = IF call.kind = "Reader" THEN "lost" ELSE "none"
  /\ \E deemed \in SUBSET Policies : Fail(deemed)
  /\ UNCHANGED <<call, attached, hasOpenedConnection, connection, responsible,
                 result, dropped, dials, calls>>

\* The connection may survive the failure or not.
ExecuteFails ==
  /\ pc = "execute"
  /\ executions' = executions + 1
  /\ \E deemed \in SUBSET Policies : Fail(deemed)
  /\ \/ UNCHANGED <<connection, reader, responsible, dropped>>
     \/ Disconnect /\ dropped' = TRUE
  /\ UNCHANGED <<call, attached, hasOpenedConnection, result, dials, calls>>

\* closeOpenedConnectionOnSuccess
ClosesOnSuccess(kind) == kind \in {"NonQuery", "Scalar"}

Return ==
  /\ pc = "success"
  /\ pc' = "returned"
  /\ result' = "value"
  /\ IF hasOpenedConnection /\ ClosesOnSuccess(call.kind)
     THEN Disconnect
     ELSE /\ responsible' = (responsible \/ call.kind \in Readers)
          /\ UNCHANGED <<connection, reader>>
  /\ UNCHANGED <<call, attached, hasOpenedConnection, retries, dropped, dials,
                 executions, calls>>

\* catch (Exception), or an Open that failed for good.
Throw ==
  /\ pc = "throw"
  /\ pc' = "returned"
  /\ result' = "thrown"
  /\ IF hasOpenedConnection /\ connection = "Open" THEN Disconnect
     ELSE UNCHANGED <<connection, reader, responsible>>
  /\ UNCHANGED <<call, attached, hasOpenedConnection, retries, dropped, dials,
                 executions, calls>>

-----------------------------------------------------------------------------

CallStep ==
  \/ Dial \/ FindOpen \/ DialFails
  \/ Attach \/ Reopen \/ ReopenFails
  \/ Execute \/ ConversionFails \/ ExecuteFails
  \/ Return \/ Throw

OwnerStep == Open \/ ExecuteCommand \/ CloseReader \/ Close \/ Dispose

Next == CallStep \/ OwnerStep

(***************************************************************************)
(* The provider answers or throws, so a call under way keeps going.        *)
(***************************************************************************)
Spec == Init /\ [][Next]_vars /\ WF_vars(CallStep)

-----------------------------------------------------------------------------
(* Properties.                                                             *)

TypeOK ==
  /\ pc \in Locations
  /\ call \in [kind : Kinds, async : BOOLEAN, closing : BOOLEAN,
               attached : BOOLEAN, wasOpen : BOOLEAN]
  /\ attached \in BOOLEAN
  /\ hasOpenedConnection \in BOOLEAN
  /\ retries \in [Layers -> Nat]
  /\ \A layer \in Layers : retries[layer] <= Budget(layer)
  /\ connection \in States
  /\ reader \in ReaderStates
  /\ responsible \in BOOLEAN
  /\ result \in {"none", "value", "thrown"}
  /\ dropped \in BOOLEAN
  /\ dials \in Nat
  /\ executions \in Nat
  /\ calls \in 0..MaxCalls

\* The call in progress, or the last one, came with its connection open.
Borrowed ==
  pc \notin {"idle", "disposed"} /\ call.attached /\ call.wasOpen /\ ~dropped

Lease == INSTANCE ConnectionLease WITH
  busy <- pc \notin {"idle", "returned", "disposed"},
  open <- connection = "Open",
  owned <- responsible,
  borrowed <- Borrowed,
  reader <- reader # "none",
  handed <- pc = "returned" /\ call.kind \in Readers /\ result = "value"

(***************************************************************************)
(* The wrapper implements the lease for commands that bring a connection:  *)
(* whichever of the nested loops retried, reopened or gave up, a call that *)
(* ends leaves nothing open that the owner does not know of, has not       *)
(* closed a connection it was given open, and hands over readers that can  *)
(* be read.                                                                *)
(***************************************************************************)
KeepsLease == Lease!Spec

(***************************************************************************)
(* The nested loops multiply, and no more than that: a command is sent at  *)
(* most (command retries + 1) x (failover retries + 1) times.              *)
(***************************************************************************)
ExecutionBudget == executions <= (CommandRetries + 1) * (FailoverRetries + 1)

(***************************************************************************)
(* The four nested loops around an unattached command dial at most once    *)
(* per combination of their rounds; Open alone once per round of its two.  *)
(***************************************************************************)
DialBudget ==
  dials <= (ConnectionRetries + 1) * (FailoverRetries + 1) *
           (IF call.kind = "Open" THEN 1 ELSE (CommandRetries + 1) * (FailoverRetries + 1))

(***************************************************************************)
(* Every call comes back.                                                  *)
(***************************************************************************)
Termination == ~BetweenCalls ~> pc \in {"returned", "disposed"}
=============================================================================
