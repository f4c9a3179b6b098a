----------------------------- MODULE RetryManager -----------------------------
(***************************************************************************)
(* RetryManager: the process-wide default manager, set by any thread       *)
(* through SetDefault, and one manager with its default strategy, which is *)
(* set by name, and the strategies of the technologies, which are looked   *)
(* up.  Nothing here takes a lock: an action is one access to a shared     *)
(* field.  A strategy is identified by its name.                           *)
(***************************************************************************)
EXTENDS FiniteSets

CONSTANTS
  Threads,
  Managers,   \* what SetDefault is called with
  Names,      \* the names of the strategies the manager was given
  Unknown,    \* a name it was not given
  Null        \* null, and for a name also the empty and the blank one

ASSUME NamesAssumption == Unknown \notin Names /\ Null \notin Names \cup {Unknown}
ASSUME ManagersAssumption == Null \notin Managers

VARIABLES
  defaultRetryManager,       \* the static field
  built,                     \* the constructor of the manager has returned
  defaultRetryStrategyName,
  defaultStrategy,
  strategiesMap,             \* _defaultRetryStrategiesMap: Null where it has no entry
  pc,                        \* where each thread is
  argument,                  \* per thread: the manager or the name being set
  throwIfSet,                \* per thread: the second argument of SetDefault
  answer,                    \* what the step just taken has answered to a lookup
  outdated,                  \* history: threads since whose first read the static field was written
  overlapped,                \* history: threads setting the name while another does
  torn,                      \* history: the last setter to end had been overlapped
  served                     \* history: technologies a lookup has been answered for

vars == <<defaultRetryManager, built, defaultRetryStrategyName, defaultStrategy,
          strategiesMap, pc, argument, throwIfSet, answer, outdated, overlapped,
          torn, served>>

staticVars == <<defaultRetryManager, throwIfSet, outdated>>
nameVars == <<defaultRetryStrategyName, defaultStrategy, overlapped, torn>>
mapVars == <<built, strategiesMap>>

Technologies == {"SQL", "SQLConnection"}
Locations == {"idle", "compare", "assign", "strategy", "fallback"}
Answers == [technology : Technologies, strategy : Names \cup {Null}]
NoAnswer == [technology |-> "none", strategy |-> Null]

GoTo(t, location) == pc' = [pc EXCEPT ![t] = location]

\* Return to the caller: the locals are gone.
Return(t) ==
  /\ GoTo(t, "idle")
  /\ argument' = [argument EXCEPT ![t] = Null]

NoLookup == answer' = NoAnswer /\ UNCHANGED served

Init ==
  /\ defaultRetryManager = Null
  /\ built = FALSE
  /\ defaultRetryStrategyName = Null
  /\ defaultStrategy = Null
  /\ strategiesMap = [technology \in Technologies |-> Null]
  /\ pc = [t \in Threads |-> "idle"]
  /\ argument = [t \in Threads |-> Null]
  /\ throwIfSet = [t \in Threads |-> FALSE]
  /\ answer = NoAnswer
  /\ outdated = {}
  /\ overlapped = {}
  /\ torn = FALSE
  /\ served = {}

-----------------------------------------------------------------------------
(* The static default.                                                     *)

SetDefault_WithoutTheCheck(t, m, flag) ==
  /\ pc[t] = "idle"
  /\ argument' = [argument EXCEPT ![t] = m]
  /\ throwIfSet' = [throwIfSet EXCEPT ![t] = flag]
  /\ GoTo(t, "assign")
  /\ NoLookup
  /\ UNCHANGED <<defaultRetryManager, outdated, mapVars, nameVars>>

\* SetDefault up to its first read of the field.
SetDefault(t, m, flag) ==
  /\ pc[t] = "idle"
  /\ argument' = [argument EXCEPT ![t] = m]
  /\ throwIfSet' = [throwIfSet EXCEPT ![t] = flag]
  /\ GoTo(t, IF defaultRetryManager # Null /\ flag THEN "compare" ELSE "assign")
  /\ NoLookup
  /\ UNCHANGED <<defaultRetryManager, outdated, mapVars, nameVars>>

EndSetDefault(t) ==
  /\ Return(t)
  /\ throwIfSet' = [throwIfSet EXCEPT ![t] = FALSE]

\* The second read: the same manager may be set again, another is refused.
CompareManagers(t) ==
  /\ pc[t] = "compare"
  /\ \/ /\ argument[t] = defaultRetryManager
        /\ GoTo(t, "assign")
        /\ UNCHANGED <<argument, throwIfSet, outdated>>
     \/ /\ argument[t] # defaultRetryManager
        /\ EndSetDefault(t)
        /\ outdated' = outdated \ {t}
  /\ NoLookup
  /\ UNCHANGED <<defaultRetryManager, mapVars, nameVars>>

AssignDefault(t) ==
  /\ pc[t] = "assign"
  /\ defaultRetryManager' = argument[t]
  /\ outdated' = {u \in Threads \ {t} : pc[u] \in {"compare", "assign"}}
  /\ EndSetDefault(t)
  /\ NoLookup
  /\ UNCHANGED <<mapVars, nameVars>>

-----------------------------------------------------------------------------
(* The manager.                                                            *)

\* The constructor throws, and no manager comes of it, for a name it has no
\* strategy for; a technology mapped to a blank name is left out.
Construct ==
  /\ ~built
  /\ built' = TRUE
  /\ defaultRetryStrategyName' \in Names \cup {Null}
  /\ defaultStrategy' = defaultRetryStrategyName'
  /\ strategiesMap' \in [Technologies -> Names \cup {Null}]
  /\ NoLookup
  /\ UNCHANGED <<pc, argument, overlapped, torn, staticVars>>

Setters == {t \in Threads : pc[t] = "strategy"}

SetName_BeforeTheLookup(t, value) ==
  /\ built /\ pc[t] = "idle"
  /\ defaultRetryStrategyName' = value
  /\ \/ /\ value \in Names
        /\ argument' = [argument EXCEPT ![t] = value]
        /\ overlapped' = IF Setters = {} THEN {} ELSE Setters \cup {t}
        /\ GoTo(t, "strategy")
     \/ value = Unknown /\ UNCHANGED <<pc, argument, overlapped>>
  /\ NoLookup
  /\ UNCHANGED <<defaultStrategy, torn, mapVars, staticVars>>

\* The setter up to its first write; an unknown name throws before it.
SetName(t, value) ==
  /\ built /\ pc[t] = "idle"
  /\ value \in Names
  /\ defaultRetryStrategyName' = value
  /\ argument' = [argument EXCEPT ![t] = value]
  /\ overlapped' = IF Setters = {} THEN {} ELSE Setters \cup {t}
  /\ GoTo(t, "strategy")
  /\ NoLookup
  /\ UNCHANGED <<defaultStrategy, torn, mapVars, staticVars>>

SetStrategy(t) ==
  /\ pc[t] = "strategy"
  /\ defaultStrategy' = argument[t]
  /\ torn' = (t \in overlapped)
  /\ overlapped' = overlapped \ {t}
  /\ Return(t)
  /\ NoLookup
  /\ UNCHANGED <<defaultRetryStrategyName, mapVars, staticVars>>

ClearName_AndStrategy(t) ==
  /\ built /\ pc[t] = "idle"
  /\ defaultRetryStrategyName' = Null
  /\ defaultStrategy' = Null
  /\ NoLookup
  /\ UNCHANGED <<pc, argument, overlapped, torn, mapVars, staticVars>>

\* A blank name clears the name and nothing else.
ClearName(t) ==
  /\ built /\ pc[t] = "idle"
  /\ defaultRetryStrategyName' = Null
  /\ NoLookup
  /\ UNCHANGED <<defaultStrategy, pc, argument, overlapped, torn, mapVars,
                 staticVars>>

-----------------------------------------------------------------------------
(* Lookups.                                                                *)

\* GetDefaultRetryStrategy, which throws where this is Null.
StrategyFor(technology) ==
  IF strategiesMap[technology] # Null THEN strategiesMap[technology]
  ELSE defaultStrategy

\* A lookup of one technology ends with what is found for another, or the same.
Answer(asked, used) ==
  /\ answer' = [technology |-> asked, strategy |-> StrategyFor(used)]
  /\ served' = IF StrategyFor(used) = Null THEN served ELSE served \cup {asked}

\* GetDefaultSqlCommandRetryStrategy
LookUpCommand(t) ==
  /\ built /\ pc[t] = "idle"
  /\ Answer("SQL", "SQL")
  /\ UNCHANGED <<pc, argument, mapVars, staticVars, nameVars>>

\* GetDefaultSqlConnectionRetryStrategy: without one, that of commands.
LookUpConnection(t) ==
  /\ built /\ pc[t] = "idle"
  /\ \/ /\ StrategyFor("SQLConnection") # Null
        /\ Answer("SQLConnection", "SQLConnection")
        /\ UNCHANGED pc
     \/ /\ StrategyFor("SQLConnection") = Null
        /\ GoTo(t, "fallback")
        /\ NoLookup
  /\ UNCHANGED <<argument, mapVars, staticVars, nameVars>>

\* Another read of the default, later than the first.
FallBack(t) ==
  /\ pc[t] = "fallback"
  /\ Answer("SQLConnection", "SQL")
  /\ Return(t)
  /\ UNCHANGED <<mapVars, staticVars, nameVars>>

-----------------------------------------------------------------------------

ThreadStep(t) ==
  \/ \E m \in Managers \cup {Null}, flag \in BOOLEAN : SetDefault(t, m, flag)
  \/ CompareManagers(t) \/ AssignDefault(t)
  \/ \E value \in Names \cup {Unknown} : SetName(t, value)
  \/ SetStrategy(t) \/ ClearName(t)
  \/ LookUpCommand(t) \/ LookUpConnection(t) \/ FallBack(t)

Next == Construct \/ \E t \in Threads : ThreadStep(t)

Spec == Init /\ [][Next]_vars

-----------------------------------------------------------------------------
(* Properties.                                                             *)

TypeOK ==
  /\ defaultRetryManager \in Managers \cup {Null}
  /\ built \in BOOLEAN
  /\ defaultRetryStrategyName \in Names \cup {Null}
  /\ defaultStrategy \in Names \cup {Null}
  /\ strategiesMap \in [Technologies -> Names \cup {Null}]
  /\ pc \in [Threads -> Locations]
  /\ argument \in [Threads -> Managers \cup Names \cup {Null}]
  /\ throwIfSet \in [Threads -> BOOLEAN]
  /\ answer \in Answers \cup {NoAnswer}
  /\ outdated \subseteq Threads
  /\ overlapped \subseteq Threads
  /\ torn \in BOOLEAN
  /\ served \subseteq Technologies

(***************************************************************************)
(* A SetDefault that was told to throw replaces another manager only if    *)
(* somebody set that one after the check had begun.                        *)
(***************************************************************************)
ReplacesOnlyInARace ==
  [][\A t \in Threads :
       AssignDefault(t) /\ throwIfSet[t]
       /\ defaultRetryManager \notin {Null, argument[t]} => t \in outdated]_vars

(***************************************************************************)
(* The name that is shown belongs to the strategy that is used, whichever  *)
(* setters have thrown, unless the last two of them ran at the same time.  *)
(***************************************************************************)
NameMatchesStrategy ==
  Setters = {} /\ ~torn /\ defaultRetryStrategyName # Null
    => defaultStrategy = defaultRetryStrategyName

(***************************************************************************)
(* Lookups do not stop working: once there has been a strategy for         *)
(* commands there is one for commands and for connections, and once there  *)
(* has been one for connections there is one for connections, also after   *)
(* the default name has been cleared.                                      *)
(***************************************************************************)
LookupsKeepWorking ==
  [][answer' \in Answers /\ answer'.strategy = Null =>
       /\ "SQL" \notin served
       /\ answer'.technology = "SQLConnection" => served = {}]_vars
=============================================================================
