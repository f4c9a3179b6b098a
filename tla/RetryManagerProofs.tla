-------------------------- MODULE RetryManagerProofs --------------------------
(***************************************************************************)
(* What holds of a manager that no lock protects, for any threads, names   *)
(* and managers.  The invariant says what a thread's locals are good for   *)
(* at each place, what a passed check of SetDefault is still worth, and    *)
(* that a strategy that has once been available stays so.                  *)
(***************************************************************************)
EXTENDS RetryManager, TLAPS

Arguments(t) ==
  /\ pc[t] \in {"compare", "assign"} => argument[t] \in Managers \cup {Null}
  /\ pc[t] = "strategy" => argument[t] \in Names

\* The check has passed: the field holds nothing to lose, or has changed since.
Passed(t) ==
  pc[t] = "assign" /\ throwIfSet[t] =>
    \/ defaultRetryManager \in {Null, argument[t]}
    \/ t \in outdated

\* What a lookup has found once can be found again.
Available ==
  /\ served # {} => built
  /\ "SQL" \in served => StrategyFor("SQL") # Null
  /\ "SQLConnection" \in served =>
       StrategyFor("SQLConnection") # Null \/ StrategyFor("SQL") # Null

Unmapped(t) ==
  /\ pc[t] = "strategy" => built
  /\ pc[t] = "fallback" => built /\ strategiesMap["SQLConnection"] = Null

IInv ==
  /\ TypeOK
  /\ \A t \in Threads : Arguments(t) /\ Passed(t) /\ Unmapped(t)
  /\ Available

(***************************************************************************)
(* The invariant holds at the start.                                       *)
(***************************************************************************)
LEMMA InitIInv == Init => IInv
<1> SUFFICES ASSUME Init PROVE IInv
  OBVIOUS
<1>1. TypeOK
  BY DEF Init, TypeOK, Locations, NoAnswer
<1>2. ASSUME NEW t \in Threads PROVE Arguments(t) /\ Passed(t) /\ Unmapped(t)
  BY DEF Init, Arguments, Passed, Unmapped
<1>3. Available
  BY DEF Init, Available
<1> QED
  BY <1>1, <1>2, <1>3 DEF IInv

(***************************************************************************)
(* The steps of SetDefault.                                                *)
(***************************************************************************)
LEMMA StaticIInv ==
  ASSUME IInv, NEW t \in Threads,
         \/ \E m \in Managers \cup {Null}, flag \in BOOLEAN : SetDefault(t, m, flag)
         \/ CompareManagers(t) \/ AssignDefault(t)
  PROVE  IInv'
<1> USE DEF IInv, TypeOK, GoTo, Return, EndSetDefault, NoLookup, mapVars, nameVars
<1>1. Available'
  BY DEF SetDefault, CompareManagers, AssignDefault, Available, StrategyFor
<1>2. ASSUME NEW m \in Managers \cup {Null}, NEW flag \in BOOLEAN,
             SetDefault(t, m, flag)
      PROVE  IInv'
  <2>1. TypeOK'
    BY <1>2 DEF SetDefault, Locations
  <2>2. \A u \in Threads : Arguments(u)' /\ Passed(u)' /\ Unmapped(u)'
    BY <1>2 DEF SetDefault, Arguments, Passed, Unmapped
  <2> QED
    BY <1>1, <2>1, <2>2
<1>3. CASE CompareManagers(t)
  <2>1. TypeOK'
    BY <1>3 DEF CompareManagers, Locations
  <2>2. \A u \in Threads : Arguments(u)' /\ Passed(u)' /\ Unmapped(u)'
    BY <1>3 DEF CompareManagers, Arguments, Passed, Unmapped
  <2> QED
    BY <1>1, <2>1, <2>2
<1>4. CASE AssignDefault(t)
  <2>1. TypeOK'
    BY <1>4 DEF AssignDefault, Arguments, Locations
  <2>2. \A u \in Threads : Arguments(u)' /\ Passed(u)' /\ Unmapped(u)'
    BY <1>4 DEF AssignDefault, Arguments, Passed, Unmapped
  <2> QED
    BY <1>1, <2>1, <2>2
<1> QED
  BY <1>2, <1>3, <1>4

(***************************************************************************)
(* The steps that set or clear the name.                                   *)
(***************************************************************************)
LEMMA NameIInv ==
  ASSUME IInv, NEW t \in Threads,
         \/ \E value \in Names \cup {Unknown} : SetName(t, value)
         \/ SetStrategy(t) \/ ClearName(t)
  PROVE  IInv'
<1> USE DEF IInv, TypeOK, GoTo, Return, NoLookup, mapVars, staticVars
<1>1. ASSUME NEW value \in Names \cup {Unknown}, SetName(t, value) PROVE IInv'
  <2>1. TypeOK'
    BY <1>1 DEF SetName, Setters, Locations
  <2>2. \A u \in Threads : Arguments(u)' /\ Passed(u)' /\ Unmapped(u)'
    BY <1>1 DEF SetName, Arguments, Passed, Unmapped
  <2>3. Available'
    BY <1>1 DEF SetName, Available, StrategyFor
  <2> QED
    BY <2>1, <2>2, <2>3
<1>2. CASE SetStrategy(t)
  <2>1. TypeOK'
    BY <1>2 DEF SetStrategy, Arguments, Locations
  <2>2. \A u \in Threads : Arguments(u)' /\ Passed(u)' /\ Unmapped(u)'
    BY <1>2 DEF SetStrategy, Arguments, Passed, Unmapped
  <2>3. Available'
    BY <1>2, NamesAssumption DEF SetStrategy, Arguments, Available, StrategyFor
  <2> QED
    BY <2>1, <2>2, <2>3
<1>3. CASE ClearName(t)
  <2>1. TypeOK'
    BY <1>3 DEF ClearName
  <2>2. \A u \in Threads : Arguments(u)' /\ Passed(u)' /\ Unmapped(u)'
    BY <1>3 DEF ClearName, Arguments, Passed, Unmapped
  <2>3. Available'
    BY <1>3 DEF ClearName, Available, StrategyFor
  <2> QED
    BY <2>1, <2>2, <2>3
<1> QED
  BY <1>1, <1>2, <1>3

(***************************************************************************)
(* The lookups.                                                            *)
(***************************************************************************)
LEMMA LookupIInv ==
  ASSUME IInv, NEW t \in Threads,
         LookUpCommand(t) \/ LookUpConnection(t) \/ FallBack(t)
  PROVE  IInv'
<1> USE DEF IInv, TypeOK, GoTo, Return, NoLookup, mapVars, staticVars, nameVars
<1>1. \A technology \in Technologies : StrategyFor(technology) \in Names \cup {Null}
  BY DEF StrategyFor
<1>2. CASE LookUpCommand(t)
  <2>1. TypeOK'
    BY <1>1, <1>2 DEF LookUpCommand, Answer, Answers, Technologies
  <2>2. \A u \in Threads : Arguments(u)' /\ Passed(u)' /\ Unmapped(u)'
    BY <1>2 DEF LookUpCommand, Arguments, Passed, Unmapped
  <2>3. Available'
    BY <1>2 DEF LookUpCommand, Answer, Available, StrategyFor
  <2> QED
    BY <2>1, <2>2, <2>3
<1>3. CASE LookUpConnection(t)
  <2>1. /\ pc' \in [Threads -> Locations]
        /\ UNCHANGED <<argument, mapVars, staticVars, nameVars>>
    BY <1>3 DEF LookUpConnection, Locations
  <2>2. answer' \in Answers \cup {NoAnswer} /\ served' \subseteq Technologies
    <3>1. CASE Answer("SQLConnection", "SQLConnection")
      BY <1>1, <3>1 DEF Answer, Answers, Technologies
    <3>2. CASE NoLookup
      BY <3>2
    <3> QED
      BY <1>3, <3>1, <3>2 DEF LookUpConnection
  <2>3. TypeOK'
    BY <2>1, <2>2
  <2>4. \A u \in Threads : Arguments(u)' /\ Passed(u)' /\ Unmapped(u)'
    BY <1>3 DEF LookUpConnection, StrategyFor, Technologies, Arguments, Passed,
                Unmapped
  <2>5. Available'
    BY <1>3 DEF LookUpConnection, Answer, Available, StrategyFor
  <2> QED
    BY <2>3, <2>4, <2>5
<1>4. CASE FallBack(t)
  <2>1. TypeOK'
    BY <1>1, <1>4 DEF FallBack, Answer, Answers, Technologies, Locations
  <2>2. \A u \in Threads : Arguments(u)' /\ Passed(u)' /\ Unmapped(u)'
    BY <1>4 DEF FallBack, Arguments, Passed, Unmapped
  <2>3. Available'
    BY <1>4 DEF FallBack, Answer, Available, Unmapped, StrategyFor
  <2> QED
    BY <2>1, <2>2, <2>3
<1> QED
  BY <1>2, <1>3, <1>4

(***************************************************************************)
(* The constructor, before which there is nothing to lose.                 *)
(***************************************************************************)
LEMMA ConstructIInv == IInv /\ Construct => IInv'
<1> SUFFICES ASSUME IInv, Construct PROVE IInv'
  OBVIOUS
<1> USE DEF IInv, TypeOK, NoLookup, staticVars, Construct
<1>1. TypeOK'
  OBVIOUS
<1>2. \A u \in Threads : Arguments(u)' /\ Passed(u)' /\ Unmapped(u)'
  BY DEF Arguments, Passed, Unmapped
<1>3. Available'
  BY DEF Available
<1> QED
  BY <1>1, <1>2, <1>3

(***************************************************************************)
(* The invariant holds throughout.                                         *)
(***************************************************************************)
LEMMA Invariance == Spec => []IInv
<1>1. ASSUME IInv, UNCHANGED vars PROVE IInv'
  BY <1>1 DEF vars, IInv, TypeOK, Arguments, Passed, Unmapped, Available,
              StrategyFor
<1>2. IInv /\ [Next]_vars => IInv'
  BY <1>1, StaticIInv, NameIInv, LookupIInv, ConstructIInv DEF Next, ThreadStep
<1> QED
  BY InitIInv, <1>2, PTL DEF Spec

(***************************************************************************)
(* The types of the manager: a name that is not one of its own is never    *)
(* stored.                                                                 *)
(***************************************************************************)
THEOREM TypeCorrect == Spec => []TypeOK
BY Invariance, PTL DEF IInv

(***************************************************************************)
(* SetDefault told to throw displaces another manager only in a race.      *)
(***************************************************************************)
THEOREM DisplacedOnlyInARace == Spec => ReplacesOnlyInARace
<1>1. IInv => \A t \in Threads :
        AssignDefault(t) /\ throwIfSet[t]
        /\ defaultRetryManager \notin {Null, argument[t]} => t \in outdated
  BY DEF IInv, Passed, AssignDefault
<1> QED
  BY <1>1, Invariance, PTL DEF ReplacesOnlyInARace

(***************************************************************************)
(* Once a lookup has been answered, those that rest on it go on being so.  *)
(***************************************************************************)
THEOREM LookupsAnswered == Spec => LookupsKeepWorking
<1> DEFINE Kept == answer' \in Answers /\ answer'.strategy = Null =>
                     /\ "SQL" \notin served
                     /\ answer'.technology = "SQLConnection" => served = {}
<1>1. ASSUME IInv, Next PROVE Kept
  <2> USE <1>1 DEF IInv, TypeOK, Answer, Available, StrategyFor
  <2>1. ASSUME NoLookup PROVE Kept
    BY <2>1 DEF NoLookup, NoAnswer, Answers, Technologies
  <2>2. ASSUME NEW t \in Threads, LookUpCommand(t) PROVE Kept
    BY <2>2 DEF LookUpCommand
  <2>3. ASSUME NEW t \in Threads, LookUpConnection(t) PROVE Kept
    BY <2>1, <2>3 DEF LookUpConnection
  <2>4. ASSUME NEW t \in Threads, FallBack(t) PROVE Kept
    BY <2>4 DEF FallBack, Unmapped, Technologies
  <2> QED
    BY <2>1, <2>2, <2>3, <2>4
    DEF Next, ThreadStep, Construct, SetDefault, CompareManagers, AssignDefault,
        SetName, SetStrategy, ClearName
<1>2. IInv /\ [Next]_vars => [Kept]_vars
  BY <1>1
<1> QED
  BY <1>2, Invariance, PTL DEF LookupsKeepWorking, Spec

-----------------------------------------------------------------------------
(***************************************************************************)
(* The two fields of the name.  A setter between its writes that no other  *)
(* has overlapped is alone, and the name is its own or has been cleared.   *)
(***************************************************************************)
Alone(t) ==
  t \in Setters /\ t \notin overlapped =>
    /\ \A u \in Setters : u = t
    /\ defaultRetryStrategyName \in {Null, argument[t]}

NameInv == NameMatchesStrategy /\ \A t \in Threads : Alone(t)

(***************************************************************************)
(* No step of SetDefault, no lookup, and no clearing of the name, which    *)
(* leaves nothing to match, touches what NameInv is about.                 *)
(***************************************************************************)
LEMMA OthersNameInv ==
  ASSUME IInv, NameInv,
         Setters' = Setters, overlapped' = overlapped, torn' = torn,
         defaultStrategy' = defaultStrategy,
         defaultRetryStrategyName' \in {Null, defaultRetryStrategyName},
         \A u \in Setters : argument'[u] = argument[u]
  PROVE  NameInv'
<1>1. NameMatchesStrategy'
  BY DEF NameInv, NameMatchesStrategy
<1>2. ASSUME NEW u \in Threads PROVE Alone(u)'
  BY DEF NameInv, Alone
<1> QED
  BY <1>1, <1>2 DEF NameInv

(***************************************************************************)
(* Every step keeps it.                                                    *)
(***************************************************************************)
LEMMA NextNameInv == IInv /\ NameInv /\ [Next]_vars => NameInv'
<1> SUFFICES ASSUME IInv, NameInv, [Next]_vars PROVE NameInv'
  OBVIOUS
<1>1. pc \in [Threads -> Locations] /\ argument \in [Threads -> Managers \cup Names \cup {Null}]
  BY DEF IInv, TypeOK
<1>2. ASSUME NEW t \in Threads, NEW value \in Names \cup {Unknown}, SetName(t, value)
      PROVE  NameInv'
  <2>1. Setters' = Setters \cup {t}
    BY <1>1, <1>2 DEF SetName, Setters, GoTo
  <2>2. NameMatchesStrategy'
    BY <2>1 DEF NameMatchesStrategy
  <2>3. ASSUME NEW u \in Threads PROVE Alone(u)'
    <3>1. CASE Setters = {}
      BY <1>1, <1>2, <2>1, <3>1 DEF SetName, Alone
    <3>2. CASE Setters # {}
      BY <1>2, <2>1, <3>2 DEF SetName, Alone
    <3> QED
      BY <3>1, <3>2
  <2> QED
    BY <2>2, <2>3 DEF NameInv
<1>3. ASSUME NEW t \in Threads, SetStrategy(t) PROVE NameInv'
  <2>1. t \in Setters /\ Setters' = Setters \ {t}
    BY <1>1, <1>3 DEF SetStrategy, Setters, Return, GoTo
  <2>2. NameMatchesStrategy'
    BY <1>3, <2>1 DEF SetStrategy, NameMatchesStrategy, NameInv, Alone
  <2>3. ASSUME NEW u \in Threads PROVE Alone(u)'
    BY <1>3, <2>1 DEF SetStrategy, NameInv, Alone
  <2> QED
    BY <2>2, <2>3 DEF NameInv
<1>4. ASSUME Construct PROVE NameInv'
  <2>1. Setters = {} /\ Setters' = {}
    BY <1>4 DEF IInv, Unmapped, Construct, Setters
  <2>2. NameMatchesStrategy'
    BY <1>4 DEF Construct, NameMatchesStrategy
  <2>3. ASSUME NEW u \in Threads PROVE Alone(u)'
    BY <2>1 DEF Alone
  <2> QED
    BY <2>2, <2>3 DEF NameInv
<1>5. ASSUME NEW t \in Threads,
             \/ \E m \in Managers \cup {Null}, flag \in BOOLEAN : SetDefault(t, m, flag)
             \/ CompareManagers(t) \/ AssignDefault(t) \/ ClearName(t)
             \/ LookUpCommand(t) \/ LookUpConnection(t) \/ FallBack(t)
      PROVE  NameInv'
  <2>1. /\ Setters' = Setters
        /\ \A u \in Setters : argument'[u] = argument[u]
    BY <1>1, <1>5 DEF SetDefault, CompareManagers, AssignDefault, ClearName, LookUpCommand,
         LookUpConnection, FallBack, Setters, EndSetDefault, Return, GoTo
  <2>2. /\ overlapped' = overlapped /\ torn' = torn /\ defaultStrategy' = defaultStrategy
        /\ defaultRetryStrategyName' \in {Null, defaultRetryStrategyName}
    BY <1>5 DEF SetDefault, CompareManagers, AssignDefault, ClearName, LookUpCommand,
         LookUpConnection, FallBack, nameVars
  <2> QED
    BY <2>1, <2>2, OthersNameInv
<1>6. CASE UNCHANGED vars
  BY <1>6, OthersNameInv DEF vars, Setters
<1> QED
  BY <1>2, <1>3, <1>4, <1>5, <1>6 DEF Next, ThreadStep

(***************************************************************************)
(* The name that is shown is that of the strategy in use, unless the last  *)
(* two setters ran at the same time.                                       *)
(***************************************************************************)
THEOREM NameAndStrategyAgree == Spec => []NameMatchesStrategy
<1>1. Init => NameInv
  BY DEF Init, NameInv, NameMatchesStrategy, Alone, Setters
<1>2. NameInv => NameMatchesStrategy
  BY DEF NameInv
<1> QED
  BY <1>1, <1>2, NextNameInv, Invariance, PTL DEF Spec
=============================================================================
