---------------------- MODULE TransactionRetryScopeProofs ---------------------
(***************************************************************************)
(* What holds of retried units of work in TransactionScopes, for any       *)
(* scopes, threads, policies and budget. The stack of a thread is in       *)
(* blocks, one for each scope in use in the order of their nesting, each   *)
(* with the TransactionScopes of one policy and the scope's own as the     *)
(* lowest. So a retry, which recycles whatever was ever built on its       *)
(* policy, takes down its own block only: the failed attempt is rolled     *)
(* back before a next one begins, and the scopes around keep their         *)
(* transaction. A handler is two steps, and between them the scope it      *)
(* renews has no TransactionScope at all. Two scopes nested on one policy  *)
(* have no blocks of their own, and where two threads have renewed one     *)
(* scope at a time a TransactionScope without an owner stays behind: the   *)
(* invariant does not speak of either.                                     *)
(***************************************************************************)
EXTENDS TransactionRetryScope, TLAPS

\* Every value a variable takes.
Places == {"new", "built", "work", "worked", "retrying", "renewing", "completed",
           "failed", "done"}
Results == {"none", "error", "interrupted", "spoilt", "success"}
Entries == [owner : Scopes \cup {Nobody}, transaction : Nat, root : BOOLEAN,
            complete : BOOLEAN]

TypeOK ==
  /\ thread \in [Scopes -> Threads]
  /\ policy \in [Scopes -> Policies]
  /\ pc \in [Scopes -> Places]
  /\ attempts \in [Scopes -> Nat]
  /\ active \in [Threads -> Seq(Scopes)]
  /\ within \in [Scopes -> SUBSET Scopes]
  /\ subscribers \in [Policies -> Seq(Scopes)]
  /\ pending \in [Scopes -> Seq(Scopes)]
  /\ stack \in [Threads -> Seq(Entries)]
  /\ effects \subseteq [scope : Scopes, attempt : Nat, transaction : Int]
  /\ failures \subseteq Scopes \X Nat
  /\ quits \subseteq Scopes \X Nat
  /\ committed \subseteq Int
  /\ aborted \subseteq Int
  /\ transactions \in Nat
  /\ result \in [Scopes -> Results]
  /\ raced \in BOOLEAN

(***************************************************************************)
(* A thread has its scopes in the order in which they were built, each     *)
(* within all those before it, and runs the last one.                      *)
(***************************************************************************)
InUse ==
  /\ \A t \in Threads : \A k \in 1..Len(active[t]) :
       /\ thread[active[t][k]] = t
       /\ pc[active[t][k]] \notin {"new", "done"}
       /\ k < Len(active[t]) => pc[active[t][k]] = "work"
       /\ \A l \in 1..Len(active[t]) : k < l => active[t][k] \in within[active[t][l]]
  /\ \A s \in Scopes :
       /\ pc[s] \notin {"new", "done"} =>
            \E k \in 1..Len(active[thread[s]]) : active[thread[s]][k] = s
       /\ pc[s] = "new" => within[s] = {}
       /\ s \notin within[s]

Acts(s) == Construct(s) \/ ScopeStep(s)

(***************************************************************************)
(* A sequence cut at its own length is the sequence.                       *)
(***************************************************************************)
LEMMA WholeSeq ==
  ASSUME NEW S, NEW q \in Seq(S)
  PROVE  SubSeq(q, 1, Len(q)) = q
<1>1. SubSeq(q, 1, Len(q)) \in Seq(S) /\ Len(SubSeq(q, 1, Len(q))) = Len(q)
  OBVIOUS
<1>2. \A i \in 1..Len(q) : SubSeq(q, 1, Len(q))[i] = q[i]
  OBVIOUS
<1> QED
  BY <1>1, <1>2

(***************************************************************************)
(* The elements of a sequence over S are its values, and in S.             *)
(***************************************************************************)
LEMMA ToSetTyped ==
  ASSUME NEW S, NEW q \in Seq(S)
  PROVE  ToSet(q) = {q[i] : i \in 1..Len(q)} /\ ToSet(q) \subseteq S
BY DEF ToSet

(***************************************************************************)
(* A new TransactionScope on a stack leaves a stack of entries.            *)
(***************************************************************************)
LEMMA EntryTyped ==
  ASSUME TypeOK, NEW under \in Seq(Entries), NEW s \in Scopes
  PROVE  Begin(under, s) \in Seq(Entries)
<1>1. CASE under = <<>>
  BY <1>1 DEF TypeOK, Begin, Entries
<1>2. CASE under # <<>>
  <2>1. Last(under) \in Entries
    BY <1>2 DEF Last
  <2> QED
    BY <1>2, <2>1 DEF Begin, Entries
<1> QED
  BY <1>1, <1>2

(***************************************************************************)
(* Disposing the TransactionScope of s leaves the part of the stack of t   *)
(* below it, or all of it where s has none there.                          *)
(***************************************************************************)
LEMMA WithoutIsPrefix ==
  ASSUME TypeOK, NEW t \in Threads, NEW s \in Scopes
  PROVE  \E h \in 0..Len(stack[t]) :
           /\ StackWithout(t, s) = SubSeq(stack[t], 1, h)
           /\ Position(t, s) = {} => h = Len(stack[t])
           /\ Position(t, s) # {} => h + 1 \in Position(t, s)
<1>1. CASE Position(t, s) = {}
  <2>1. stack[t] \in Seq(Entries)
    BY DEF TypeOK
  <2>2. SubSeq(stack[t], 1, Len(stack[t])) = stack[t]
    BY <2>1, WholeSeq
  <2>3. StackWithout(t, s) = stack[t]
    BY <1>1 DEF StackWithout
  <2>4. Len(stack[t]) \in 0..Len(stack[t])
    BY <2>1
  <2> QED
    BY <1>1, <2>2, <2>3, <2>4
<1>2. CASE Position(t, s) # {}
  <2> DEFINE i == CHOOSE i \in Position(t, s) : TRUE
  <2>1. i \in Position(t, s)
    BY <1>2
  <2>2. i \in 1..Len(stack[t])
    BY <2>1 DEF Position, TypeOK
  <2>3. StackWithout(t, s) = SubSeq(stack[t], 1, i - 1)
    BY <1>2 DEF StackWithout, Below
  <2> HIDE DEF i
  <2>4. i - 1 \in 0..Len(stack[t]) /\ (i - 1) + 1 = i /\ i - 1 # Len(stack[t])
    BY <2>2 DEF TypeOK
  <2> QED
    BY <1>2, <2>1, <2>3, <2>4
<1> QED
  BY <1>1, <1>2

(***************************************************************************)
(* What disposing leaves of a stack is a stack of entries.                 *)
(***************************************************************************)
LEMMA WithoutTyped ==
  ASSUME TypeOK, NEW t \in Threads, NEW s \in Scopes
  PROVE  StackWithout(t, s) \in Seq(Entries)
<1>1. PICK h \in 0..Len(stack[t]) : StackWithout(t, s) = SubSeq(stack[t], 1, h)
  BY WithoutIsPrefix
<1>2. stack[t] \in Seq(Entries)
  BY DEF TypeOK
<1> QED
  BY <1>1, <1>2

(***************************************************************************)
(* The TransactionScopes whose field was taken over are entries still.     *)
(***************************************************************************)
LEMMA OrphanedTyped ==
  ASSUME TypeOK, NEW u \in Threads, NEW q \in Scopes
  PROVE  /\ Orphaned(u, q) \in Seq(Entries)
         /\ Len(Orphaned(u, q)) = Len(stack[u])
<1>1. stack[u] \in Seq(Entries)
  BY DEF TypeOK
<1>2. Orphaned(u, q) = [i \in 1..Len(stack[u]) |->
         IF stack[u][i].owner = q THEN [stack[u][i] EXCEPT !.owner = Nobody]
         ELSE stack[u][i]]
  BY <1>1 DEF Orphaned
<1>3. \A x \in Entries : [x EXCEPT !.owner = Nobody] \in Entries
  BY DEF Entries
<1>4. \A i \in 1..Len(stack[u]) : stack[u][i] \in Entries
  BY <1>1
<1>5. Len(stack[u]) \in Nat
  BY <1>1
<1> QED
  BY <1>2, <1>3, <1>4, <1>5

(***************************************************************************)
(* Disposing commits and rolls back transactions only.                     *)
(***************************************************************************)
LEMMA DisposeTyped ==
  ASSUME TypeOK, NEW t \in Threads, NEW s \in Scopes, DisposeTransactionScope(t, s)
  PROVE  committed' \subseteq Int /\ aborted' \subseteq Int
<1>1. CASE Position(t, s) = {}
  BY <1>1 DEF DisposeTransactionScope, TypeOK
<1>2. CASE Position(t, s) # {}
  <2> DEFINE i == CHOOSE i \in Position(t, s) : TRUE
  <2>1. stack[t] \in Seq(Entries)
    BY DEF TypeOK
  <2>2. i \in 1..Len(stack[t])
    BY <1>2, <2>1 DEF Position
  <2>3. FromOn(t, s) = SubSeq(stack[t], i, Len(stack[t]))
    BY DEF FromOn
  <2>4. Last(stack[t]) \in Entries
    BY <2>1, <2>2 DEF Last
  <2> HIDE DEF i
  <2>5. FromOn(t, s) \in Seq(Entries)
    BY <2>1, <2>2, <2>3
  <2>6. \A x \in ToSet(FromOn(t, s)) : x.transaction \in Int
    <3>1. ToSet(FromOn(t, s)) \subseteq Entries
      BY <2>5, ToSetTyped
    <3>2. \A x \in Entries : x.transaction \in Int
      BY DEF Entries
    <3> QED
      BY <3>1, <3>2
  <2>7. Last(stack[t]).transaction \in Int
    BY <2>4 DEF Entries
  <2>8. committed' = committed \/ committed' = committed \cup {Last(stack[t]).transaction}
    BY <1>2 DEF DisposeTransactionScope
  <2>9. \/ aborted' = aborted
        \/ aborted' = aborted \cup {x.transaction : x \in ToSet(FromOn(t, s))}
    BY <1>2 DEF DisposeTransactionScope
  <2> QED
    BY <2>6, <2>7, <2>8, <2>9 DEF TypeOK
<1> QED
  BY <1>1, <1>2

(***************************************************************************)
(* No scope is built, no stack has an entry: all values are typed.         *)
(***************************************************************************)
LEMMA InitTypeOK == Init => TypeOK
<1> SUFFICES ASSUME Init PROVE TypeOK
  OBVIOUS
<1>1. /\ thread \in [Scopes -> Threads] /\ policy \in [Scopes -> Policies]
      /\ pc \in [Scopes -> Places] /\ attempts \in [Scopes -> Nat]
      /\ result \in [Scopes -> Results] /\ within \in [Scopes -> SUBSET Scopes]
  BY DEF Init, Places, Results
<1>2. <<>> \in Seq(Scopes) /\ <<>> \in Seq(Entries)
  OBVIOUS
<1>3. /\ active \in [Threads -> Seq(Scopes)] /\ subscribers \in [Policies -> Seq(Scopes)]
      /\ pending \in [Scopes -> Seq(Scopes)] /\ stack \in [Threads -> Seq(Entries)]
  BY <1>2 DEF Init
<1>4. /\ effects = {} /\ failures = {} /\ quits = {} /\ committed = {-1}
      /\ aborted = {} /\ transactions \in Nat /\ raced \in BOOLEAN
  BY DEF Init, AutoCommit
<1> QED
  BY <1>1, <1>3, <1>4 DEF TypeOK

(***************************************************************************)
(* Every step of every scope keeps every variable in its type.             *)
(***************************************************************************)
LEMMA NextTypeOK == TypeOK /\ [Next]_vars => TypeOK'
<1> SUFFICES ASSUME TypeOK, [Next]_vars PROVE TypeOK'
  OBVIOUS
<1>1. CASE UNCHANGED vars
  BY <1>1 DEF vars, TypeOK
<1>2. ASSUME NEW s \in Scopes, Acts(s), UNCHANGED <<thread, policy>>
      PROVE  TypeOK'
  <2> DEFINE t == thread[s]
  <2>0. t \in Threads /\ stack[t] \in Seq(Entries) /\ active[t] \in Seq(Scopes)
    BY DEF TypeOK
  <2>1. CASE Construct(s)
    <3>1. Begin(stack[t], s) \in Seq(Entries)
      BY <2>0, EntryTyped
    <3>2. stack' \in [Threads -> Seq(Entries)]
      BY <2>1, <3>1, <2>0 DEF Construct, TypeOK
    <3>3. transactions' \in Nat
      BY <2>1 DEF Construct, TypeOK, Begun
    <3>4. ToSet(active[t]) \subseteq Scopes
      BY <2>0 DEF ToSet
    <3>5. within' \in [Scopes -> SUBSET Scopes]
      BY <2>1, <3>4 DEF Construct, TypeOK
    <3>6. active' \in [Threads -> Seq(Scopes)]
      BY <2>1, <2>0 DEF Construct, TypeOK
    <3>7. subscribers' \in [Policies -> Seq(Scopes)]
      BY <2>1 DEF Construct, TypeOK
    <3>8. pc' \in [Scopes -> Places]
      BY <2>1 DEF Construct, TypeOK, Places
    <3> QED
      BY <2>1, <1>2, <3>2, <3>3, <3>5, <3>6, <3>7, <3>8 DEF Construct, TypeOK
  <2>2. CASE InvokeUnitOfWork(s)
    BY <2>2, <1>2 DEF InvokeUnitOfWork, TypeOK, Places
  <2>3. Ambient(t) \in Int
    <3>1. stack[t] # <<>> => stack[t][Len(stack[t])] \in Entries
      BY <2>0
    <3> QED
      BY <3>1 DEF Ambient, AutoCommit, Last, Entries
  <2>4. CASE WorkSucceeds(s)
    <3>1. effects' \subseteq [scope : Scopes, attempt : Nat, transaction : Int]
      BY <2>4, <2>3 DEF WorkSucceeds, Work, TypeOK
    <3> QED
      BY <2>4, <1>2, <3>1 DEF WorkSucceeds, TypeOK, Places
  <2>5. CASE WorkFails(s)
    <3>1. effects' \subseteq [scope : Scopes, attempt : Nat, transaction : Int]
      BY <2>5, <2>3 DEF WorkFails, Work, TypeOK
    <3>2. failures' \subseteq Scopes \X Nat
      BY <2>5 DEF WorkFails, TypeOK
    <3>3. pc' \in [Scopes -> Places] /\ result' \in [Scopes -> Results]
      <4>1. /\ pc' = [pc EXCEPT ![s] = "retrying"] \/ pc' = [pc EXCEPT ![s] = "failed"]
            /\ result' = result \/ result' = [result EXCEPT ![s] = "error"]
        BY <2>5 DEF WorkFails
      <4>2. pc' \in [Scopes -> Places]
        BY <4>1 DEF TypeOK, Places
      <4>3. result' \in [Scopes -> Results]
        BY <4>1 DEF TypeOK, Results
      <4> QED
        BY <4>2, <4>3
    <3>4. pending' \in [Scopes -> Seq(Scopes)]
      BY <2>5 DEF WorkFails, TypeOK, Handlers
    <3> QED
      BY <2>5, <1>2, <3>1, <3>2, <3>3, <3>4 DEF WorkFails, TypeOK
  <2>6. CASE Recycle(s)
    <3> DEFINE q == Recycled(s)
    <3>1. q \in Scopes
      BY <2>6 DEF Recycle, Recycled, TypeOK
    <3>2. StackWithout(t, q) \in Seq(Entries)
      BY <2>0, <3>1, WithoutTyped
    <3>3. committed' \subseteq Int /\ aborted' \subseteq Int
      BY <2>6, <2>0, <3>1, DisposeTyped DEF Recycle
    <3> HIDE DEF q
    <3>4. stack' \in [Threads -> Seq(Entries)]
      BY <2>6, <2>0, <3>2 DEF Recycle, TypeOK, q
    <3>5. pc' \in [Scopes -> Places] /\ result' \in [Scopes -> Results]
      BY <2>6 DEF Recycle, Interrupt, TypeOK, Places, Results
    <3>6. pending' \in [Scopes -> Seq(Scopes)]
      <4>1. pending' = pending \/ pending' = [pending EXCEPT ![s] = <<>>]
        BY <2>6 DEF Recycle, Interrupt
      <4>2. <<>> \in Seq(Scopes) /\ pending \in [Scopes -> Seq(Scopes)]
        BY DEF TypeOK
      <4> QED
        BY <4>1, <4>2
    <3>7. raced' \in BOOLEAN
      BY <2>6 DEF Recycle, RenewedElsewhere, TypeOK
    <3> QED
      BY <2>6, <1>2, <3>3, <3>4, <3>5, <3>6, <3>7 DEF Recycle, TypeOK
  <2>10. CASE Renew(s)
    <3> DEFINE q == Recycled(s)
    <3>1. q \in Scopes /\ Tail(pending[s]) \in Seq(Scopes)
      BY <2>10 DEF Renew, Recycled, TypeOK
    <3>2. ASSUME NEW u \in Threads
          PROVE  Orphaned(u, q) \in Seq(Entries)
      BY <3>1, OrphanedTyped
    <3> HIDE DEF q
    <3>3. stack' \in [Threads -> Seq(Entries)]
      <4>1. CASE stack' = stack
        BY <4>1 DEF TypeOK
      <4>2. CASE stack' = [u \in Threads |->
                   IF u = t THEN Begin(Orphaned(u, q), q) ELSE Orphaned(u, q)]
        <5>1. Begin(Orphaned(t, q), q) \in Seq(Entries)
          BY <2>0, <3>1, <3>2, EntryTyped
        <5> QED
          BY <4>2, <5>1, <3>2
      <4> QED
        BY <2>10, <4>1, <4>2 DEF Renew, q
    <3>4. transactions' \in Nat
      <4>1. \A under : Begun(under) \in Nat
        BY DEF Begun, TypeOK
      <4>2. transactions' = transactions \/ transactions' = Begun(stack[t])
        BY <2>10 DEF Renew
      <4> QED
        BY <4>1, <4>2 DEF TypeOK
    <3>5. pc' \in [Scopes -> Places] /\ result' \in [Scopes -> Results]
      BY <2>10 DEF Renew, Interrupt, TypeOK, Places, Results
    <3>6. pending' \in [Scopes -> Seq(Scopes)]
      <4>1. \/ pending' = [pending EXCEPT ![s] = Tail(pending[s])]
            \/ pending' = [pending EXCEPT ![s] = <<>>]
        BY <2>10 DEF Renew, Interrupt
      <4>2. <<>> \in Seq(Scopes) /\ pending \in [Scopes -> Seq(Scopes)]
        BY DEF TypeOK
      <4> QED
        BY <4>1, <4>2, <3>1
    <3> QED
      BY <2>10, <1>2, <3>3, <3>4, <3>5, <3>6 DEF Renew, TypeOK
  <2>11. CASE WorkQuits(s)
    <3>1. effects' \subseteq [scope : Scopes, attempt : Nat, transaction : Int]
      BY <2>11, <2>3 DEF WorkQuits, Work, TypeOK
    <3>2. failures' \subseteq Scopes \X Nat /\ quits' \subseteq Scopes \X Nat
      BY <2>11 DEF WorkQuits, TypeOK
    <3>3. pc' \in [Scopes -> Places]
      BY <2>11 DEF WorkQuits, TypeOK, Places
    <3> QED
      BY <2>11, <1>2, <3>1, <3>2, <3>3 DEF WorkQuits, TypeOK
  <2>7. CASE Retry(s)
    <3>1. attempts' \in [Scopes -> Nat]
      BY <2>7 DEF Retry, TypeOK
    <3>2. pc' \in [Scopes -> Places]
      BY <2>7 DEF Retry, TypeOK, Places
    <3> QED
      BY <2>7, <1>2, <3>1, <3>2 DEF Retry, TypeOK
  <2>8. CASE Complete(s)
    <3>1. ASSUME NEW u \in Threads
          PROVE  stack'[u] \in Seq(Entries)
      <4>1. stack[u] \in Seq(Entries)
        BY DEF TypeOK
      <4>2. stack'[u] = [i \in 1..Len(stack[u]) |->
               IF stack[u][i].owner = s THEN [stack[u][i] EXCEPT !.complete = TRUE]
               ELSE stack[u][i]]
        BY <2>8, <4>1 DEF Complete
      <4>3. \A x \in Entries : [x EXCEPT !.complete = TRUE] \in Entries
        BY DEF Entries
      <4>4. \A i \in 1..Len(stack[u]) : stack[u][i] \in Entries
        BY <4>1
      <4> QED
        BY <4>1, <4>2, <4>3, <4>4
    <3>2. stack' \in [Threads -> Seq(Entries)]
      BY <2>8, <3>1 DEF Complete
    <3>3. pc' \in [Scopes -> Places] /\ result' \in [Scopes -> Results]
      BY <2>8 DEF Complete, TypeOK, Places, Results
    <3> QED
      BY <2>8, <1>2, <3>2, <3>3 DEF Complete, TypeOK
  <2>9. CASE Dispose(s)
    <3>1. StackWithout(t, s) \in Seq(Entries)
      BY <2>0, WithoutTyped
    <3>2. committed' \subseteq Int /\ aborted' \subseteq Int
      BY <2>9, <2>0, DisposeTyped DEF Dispose
    <3>3. stack' \in [Threads -> Seq(Entries)]
      BY <2>9, <2>0, <3>1 DEF Dispose, TypeOK
    <3>4. active[t] # <<>>
      BY <2>9 DEF Dispose, Innermost
    <3>5. Front(active[t]) \in Seq(Scopes)
      BY <2>0, <3>4 DEF Front
    <3>6. active' \in [Threads -> Seq(Scopes)]
      BY <2>9, <2>0, <3>5 DEF Dispose, TypeOK
    <3>7. pc' \in [Scopes -> Places] /\ result' \in [Scopes -> Results]
      BY <2>9 DEF Dispose, TypeOK, Places, Results
    <3> QED
      BY <2>9, <1>2, <3>2, <3>3, <3>6, <3>7 DEF Dispose, TypeOK
  <2> QED
    BY <1>2, <2>1, <2>2, <2>4, <2>5, <2>6, <2>7, <2>8, <2>9, <2>10, <2>11
    DEF Acts, ScopeStep
<1> QED
  BY <1>1, <1>2 DEF Next, Acts

-----------------------------------------------------------------------------
(* The scopes in use of a thread.                                          *)

\* s is the scope its thread runs.
Running(s) ==
  LET t == thread[s] IN
  /\ Len(active[t]) > 0
  /\ active[t][Len(active[t])] = s
  /\ \A k \in 1..Len(active[t]) : active[t][k] = s => k = Len(active[t])
  /\ \A u \in Scopes \ {s} : thread[u] = t => pc[u] \in {"new", "work", "done"}

(***************************************************************************)
(* A scope that acts is the last one in use on its thread, and those       *)
(* around it wait in their unit of work.                                   *)
(***************************************************************************)
LEMMA RunsLast ==
  ASSUME TypeOK, InUse, NEW s \in Scopes,
         Innermost(s) \/ pc[s] \notin {"new", "work", "done"}
  PROVE  Running(s)
<1> DEFINE t == thread[s]
<1>1. t \in Threads /\ active[t] \in Seq(Scopes)
  BY DEF TypeOK
<1>2. \A k, l \in 1..Len(active[t]) : k < l => active[t][k] # active[t][l]
  <2> SUFFICES ASSUME NEW k \in 1..Len(active[t]), NEW l \in 1..Len(active[t]), k < l
               PROVE  active[t][k] # active[t][l]
    OBVIOUS
  <2>1. active[t][l] \in Scopes
    BY <1>1
  <2>2. active[t][k] \in within[active[t][l]] /\ active[t][l] \notin within[active[t][l]]
    BY <1>1, <2>1 DEF InUse
  <2> QED
    BY <2>2
<1>3. Len(active[t]) > 0 /\ active[t][Len(active[t])] = s
  <2>1. CASE Innermost(s)
    BY <2>1, <1>1 DEF Innermost, Last
  <2>2. CASE pc[s] \notin {"new", "work", "done"}
    <3>1. PICK k \in 1..Len(active[t]) : active[t][k] = s
      BY <2>2 DEF InUse
    <3>2. ~(k < Len(active[t]))
      BY <1>1, <2>2, <3>1 DEF InUse
    <3> QED
      BY <1>1, <3>1, <3>2
  <2> QED
    BY <2>1, <2>2
<1>4. \A k \in 1..Len(active[t]) : active[t][k] = s => k = Len(active[t])
  BY <1>1, <1>2, <1>3
<1>5. ASSUME NEW u \in Scopes \ {s}, thread[u] = t
      PROVE  pc[u] \in {"new", "work", "done"}
  <2> SUFFICES ASSUME pc[u] \notin {"new", "done"}
               PROVE  pc[u] = "work"
    OBVIOUS
  <2>1. PICK k \in 1..Len(active[t]) : active[t][k] = u
    BY <1>5 DEF InUse
  <2>2. k < Len(active[t])
    BY <1>1, <1>3, <2>1
  <2> QED
    BY <1>1, <2>1, <2>2 DEF InUse
<1> HIDE DEF t
<1> QED
  BY <1>3, <1>4, <1>5 DEF Running, t

(***************************************************************************)
(* A running scope that goes on with its life, not yet done, keeps the     *)
(* order in which the scopes of its thread are in use.                     *)
(***************************************************************************)
LEMMA InUseAdvances ==
  ASSUME TypeOK, InUse, NEW s \in Scopes, Running(s), NEW v \in Places \ {"new", "done"},
         pc' = [pc EXCEPT ![s] = v],
         UNCHANGED <<thread, active, within>>
  PROVE  InUse'
<1>1. pc[s] \notin {"new", "done"}
  <2>1. thread[s] \in Threads /\ active[thread[s]] \in Seq(Scopes)
    BY DEF TypeOK
  <2>2. Len(active[thread[s]]) \in 1..Len(active[thread[s]])
    BY <2>1 DEF Running
  <2> QED
    BY <2>1, <2>2 DEF Running, InUse
<1>2. pc' \in [Scopes -> Places] /\ pc'[s] = v /\ \A u \in Scopes \ {s} : pc'[u] = pc[u]
  BY DEF TypeOK
<1>3. ASSUME NEW t \in Threads, NEW k \in 1..Len(active[t])
      PROVE  /\ thread[active[t][k]] = t
             /\ pc'[active[t][k]] \notin {"new", "done"}
             /\ k < Len(active[t]) => pc'[active[t][k]] = "work"
             /\ \A l \in 1..Len(active[t]) : k < l => active[t][k] \in within[active[t][l]]
  <2>1. /\ thread[active[t][k]] = t
        /\ pc[active[t][k]] \notin {"new", "done"}
        /\ k < Len(active[t]) => pc[active[t][k]] = "work"
        /\ \A l \in 1..Len(active[t]) : k < l => active[t][k] \in within[active[t][l]]
    BY DEF InUse
  <2>2. active[t][k] \in Scopes
    BY DEF TypeOK
  <2>3. CASE active[t][k] # s
    BY <1>2, <2>1, <2>2, <2>3
  <2>4. CASE active[t][k] = s
    <3>1. k = Len(active[t])
      BY <2>1, <2>4 DEF Running
    <3> QED
      BY <1>2, <2>1, <2>4, <3>1
  <2> QED
    BY <2>3, <2>4
<1>4. ASSUME NEW u \in Scopes
      PROVE  /\ pc'[u] \notin {"new", "done"} =>
                  \E k \in 1..Len(active[thread[u]]) : active[thread[u]][k] = u
             /\ pc'[u] = "new" => within[u] = {}
             /\ u \notin within[u]
  BY <1>1, <1>2 DEF InUse
<1> QED
  BY <1>3, <1>4 DEF InUse

(***************************************************************************)
(* Every step keeps the scopes in use of a thread nested in the order in   *)
(* which they were built: construction adds one at the end, the end of a   *)
(* using block takes that one away.                                        *)
(***************************************************************************)
LEMMA InUseStep == TypeOK /\ InUse /\ [Next]_vars => InUse'
<1> SUFFICES ASSUME TypeOK, InUse, [Next]_vars PROVE InUse'
  OBVIOUS
<1>1. CASE UNCHANGED vars
  BY <1>1 DEF vars, InUse
<1>2. ASSUME NEW s \in Scopes, Acts(s), UNCHANGED <<thread, policy>>
      PROVE  InUse'
  <2> DEFINE t == thread[s]
  <2>0. t \in Threads /\ active[t] \in Seq(Scopes)
    BY DEF TypeOK
  <2>1. CASE Construct(s)
    <3>1. /\ pc' = [pc EXCEPT ![s] = "built"] /\ pc[s] = "new"
          /\ active' = [active EXCEPT ![t] = Append(active[t], s)]
          /\ within' = [within EXCEPT ![s] = ToSet(active[t])]
          /\ active[t] # <<>> => pc[active[t][Len(active[t])]] = "work"
      BY <2>1 DEF Construct, Last
    <3>2. ToSet(active[t]) = {active[t][i] : i \in 1..Len(active[t])}
      BY <2>0, ToSetTyped
    <3>3. \A u \in Threads : \A k \in 1..Len(active[u]) : active[u][k] # s
      BY <3>1 DEF InUse
    <3>4. ASSUME NEW u \in Threads, NEW k \in 1..Len(active'[u])
          PROVE  /\ thread[active'[u][k]] = u
                 /\ pc'[active'[u][k]] \notin {"new", "done"}
                 /\ k < Len(active'[u]) => pc'[active'[u][k]] = "work"
                 /\ \A l \in 1..Len(active'[u]) :
                      k < l => active'[u][k] \in within'[active'[u][l]]
      <4>1. CASE u # t
        <5>1. active'[u] = active[u]
          BY <3>1, <4>1 DEF TypeOK
        <5>2. \A l \in 1..Len(active[u]) :
                /\ active[u][l] \in Scopes \ {s}
                /\ pc'[active[u][l]] = pc[active[u][l]]
                /\ within'[active[u][l]] = within[active[u][l]]
          <6>0. active[u] \in Seq(Scopes)
            BY DEF TypeOK
          <6>1. \A l \in 1..Len(active[u]) : active[u][l] \in Scopes \ {s}
            BY <3>3, <6>0
          <6> QED
            BY <3>1, <6>1 DEF TypeOK
        <5> QED
          BY <5>1, <5>2 DEF InUse
      <4>2. CASE u = t
        <5>1. active'[u] = Append(active[t], s)
          BY <3>1, <4>2, <2>0 DEF TypeOK
        <5>2. \A l \in 1..Len(active[t]) :
                /\ active[t][l] \in Scopes \ {s}
                /\ pc'[active[t][l]] = pc[active[t][l]]
                /\ within'[active[t][l]] = within[active[t][l]]
                /\ Append(active[t], s)[l] = active[t][l]
                /\ pc[active[t][l]] = "work"
          <6> SUFFICES ASSUME NEW l \in 1..Len(active[t])
                       PROVE  /\ active[t][l] \in Scopes \ {s}
                              /\ pc'[active[t][l]] = pc[active[t][l]]
                              /\ within'[active[t][l]] = within[active[t][l]]
                              /\ Append(active[t], s)[l] = active[t][l]
                              /\ pc[active[t][l]] = "work"
            OBVIOUS
          <6>1. active[t][l] \in Scopes \ {s} /\ Append(active[t], s)[l] = active[t][l]
            BY <3>3, <2>0
          <6>2. l < Len(active[t]) => pc[active[t][l]] = "work"
            BY <2>0 DEF InUse
          <6>3. active[t] # <<>> /\ (l < Len(active[t]) \/ l = Len(active[t]))
            BY <2>0
          <6> QED
            BY <3>1, <6>1, <6>2, <6>3 DEF TypeOK
        <5>3. /\ Len(Append(active[t], s)) = Len(active[t]) + 1
              /\ Append(active[t], s)[Len(active[t]) + 1] = s
          BY <2>0
        <5>4. pc'[s] = "built" /\ within'[s] = ToSet(active[t])
          BY <3>1 DEF TypeOK
        <5>5. CASE k = Len(active[t]) + 1
          BY <5>1, <5>3, <5>4, <5>5, <4>2, <2>0
        <5>6. CASE k \in 1..Len(active[t])
          <6>1. /\ thread[active[t][k]] = t /\ pc'[active[t][k]] = "work"
                /\ active'[u][k] = active[t][k]
            BY <5>1, <5>2, <5>6, <2>0 DEF InUse
          <6>2. ASSUME NEW l \in 1..Len(active'[u]), k < l
                PROVE  active'[u][k] \in within'[active'[u][l]]
            <7>1. CASE l = Len(active[t]) + 1
              BY <5>1, <5>3, <5>4, <5>6, <6>1, <7>1, <3>2
            <7>2. CASE l \in 1..Len(active[t])
              BY <5>1, <5>2, <5>6, <6>1, <6>2, <7>2, <2>0 DEF InUse
            <7> QED
              BY <5>1, <5>3, <2>0, <7>1, <7>2
          <6> QED
            BY <6>1, <6>2, <4>2
        <5> QED
          BY <5>1, <5>3, <2>0, <5>5, <5>6
      <4> QED
        BY <4>1, <4>2
    <3>5. ASSUME NEW u \in Scopes
          PROVE  /\ pc'[u] \notin {"new", "done"} =>
                      \E k \in 1..Len(active'[thread[u]]) : active'[thread[u]][k] = u
                 /\ pc'[u] = "new" => within'[u] = {}
                 /\ u \notin within'[u]
      <4>1. CASE u = s
        <5>1. active'[t] = Append(active[t], s)
          BY <3>1, <2>0 DEF TypeOK
        <5>2. Len(active[t]) + 1 \in 1..Len(active'[t]) /\ active'[t][Len(active[t]) + 1] = s
          BY <5>1, <2>0
        <5>3. pc'[s] = "built" /\ within'[s] = ToSet(active[t])
          BY <3>1 DEF TypeOK
        <5>4. s \notin ToSet(active[t])
          BY <3>2, <3>3, <2>0
        <5> QED
          BY <4>1, <5>2, <5>3, <5>4
      <4>2. CASE u # s
        <5>1. pc'[u] = pc[u] /\ within'[u] = within[u]
          BY <3>1, <4>2 DEF TypeOK
        <5>2. thread[u] \in Threads /\ active[thread[u]] \in Seq(Scopes)
          BY DEF TypeOK
        <5>3. ASSUME NEW k \in 1..Len(active[thread[u]])
              PROVE  /\ k \in 1..Len(active'[thread[u]])
                     /\ active'[thread[u]][k] = active[thread[u]][k]
          <6>1. CASE thread[u] = t
            BY <6>1, <3>1, <2>0, <5>2 DEF TypeOK
          <6>2. CASE thread[u] # t
            BY <6>2, <3>1, <2>0, <5>2 DEF TypeOK
          <6> QED
            BY <6>1, <6>2
        <5> QED
          BY <5>1, <5>3 DEF InUse
      <4> QED
        BY <4>1, <4>2
    <3> QED
      BY <1>2, <3>4, <3>5 DEF InUse
  <2>2. CASE InvokeUnitOfWork(s) \/ WorkSucceeds(s) \/ WorkFails(s) \/ WorkQuits(s)
             \/ Retry(s) \/ Complete(s) \/ Recycle(s) \/ Renew(s)
    <3>1. Innermost(s) \/ pc[s] \notin {"new", "work", "done"}
      BY <2>2 DEF InvokeUnitOfWork, WorkSucceeds, WorkFails, WorkQuits, Retry, Complete,
                       Recycle, Renew
    <3>2. Running(s)
      BY <3>1, RunsLast
    <3>3. PICK v \in Places \ {"new", "done"} : pc' = [pc EXCEPT ![s] = v]
      <4>2. CASE InvokeUnitOfWork(s)
        BY <4>2 DEF InvokeUnitOfWork, Places
      <4>3. CASE WorkSucceeds(s)
        BY <4>3 DEF WorkSucceeds, Places
      <4>4. CASE WorkFails(s)
        BY <4>4 DEF WorkFails, Places
      <4>5. CASE Retry(s)
        BY <4>5 DEF Retry, Places
      <4>6. CASE Complete(s)
        BY <4>6 DEF Complete, Places
      <4>7. CASE Recycle(s)
        BY <4>7 DEF Recycle, Interrupt, Places
      <4>8. CASE Renew(s)
        BY <4>8 DEF Renew, Interrupt, Places
      <4>9. CASE WorkQuits(s)
        BY <4>9 DEF WorkQuits, Places
      <4> QED
        BY <2>2, <4>2, <4>3, <4>4, <4>5, <4>6, <4>7, <4>8, <4>9
    <3>4. UNCHANGED <<thread, active, within>>
      BY <2>2, <1>2 DEF InvokeUnitOfWork, WorkSucceeds, WorkFails, WorkQuits, Retry, Complete,
                       Recycle, Renew
    <3> QED
      BY <3>2, <3>3, <3>4, InUseAdvances
  <2>3. CASE Dispose(s)
    <3>1. Running(s)
      BY <2>3, RunsLast DEF Dispose
    <3>2. /\ pc' = [pc EXCEPT ![s] = "done"]
          /\ active' = [active EXCEPT ![t] = Front(active[t])]
          /\ within' = within
      BY <2>3 DEF Dispose
    <3>3. /\ Len(active[t]) > 0 /\ active[t][Len(active[t])] = s
          /\ \A k \in 1..Len(active[t]) : active[t][k] = s => k = Len(active[t])
      BY <3>1 DEF Running
    <3>4. /\ active'[t] \in Seq(Scopes)
          /\ Len(active'[t]) = Len(active[t]) - 1
          /\ \A k \in 1..Len(active[t]) - 1 : active'[t][k] = active[t][k]
      <4>1. active'[t] = SubSeq(active[t], 1, Len(active[t]) - 1)
        BY <3>2, <2>0 DEF Front, TypeOK
      <4> QED
        BY <4>1, <2>0, <3>3
    <3>5. pc'[s] = "done" /\ \A u \in Scopes \ {s} : pc'[u] = pc[u]
      BY <3>2 DEF TypeOK
    <3>6. ASSUME NEW u \in Threads, u # t
          PROVE  active'[u] = active[u]
      BY <3>2, <3>6 DEF TypeOK
    <3>7. ASSUME NEW u \in Threads, NEW k \in 1..Len(active'[u])
          PROVE  /\ thread[active'[u][k]] = u
                 /\ pc'[active'[u][k]] \notin {"new", "done"}
                 /\ k < Len(active'[u]) => pc'[active'[u][k]] = "work"
                 /\ \A l \in 1..Len(active'[u]) :
                      k < l => active'[u][k] \in within'[active'[u][l]]
      <4>1. CASE u # t
        <5>0. k \in 1..Len(active[u]) /\ active[u] \in Seq(Scopes)
          BY <3>6, <4>1 DEF TypeOK
        <5>1. active[u][k] \in Scopes /\ thread[active[u][k]] = u
          BY <5>0 DEF InUse
        <5>2. pc'[active[u][k]] = pc[active[u][k]]
          BY <5>1, <4>1, <3>5
        <5> QED
          BY <5>1, <5>2, <3>6, <4>1, <3>2 DEF InUse
      <4>2. CASE u = t
        <5>1. /\ k \in 1..Len(active[t]) /\ k < Len(active[t])
              /\ active'[t][k] = active[t][k]
          BY <4>2, <3>4, <2>0
        <5>2. active[t][k] \in Scopes \ {s}
          BY <5>1, <3>3, <2>0
        <5>3. /\ thread[active[t][k]] = t
              /\ pc[active[t][k]] = "work"
              /\ \A l \in 1..Len(active[t]) : k < l => active[t][k] \in within[active[t][l]]
          BY <5>1, <2>0 DEF InUse
        <5>4. \A l \in 1..Len(active'[t]) :
                l \in 1..Len(active[t]) /\ active'[t][l] = active[t][l]
          BY <3>4, <2>0
        <5> QED
          BY <4>2, <5>1, <5>2, <5>3, <5>4, <3>5, <3>2
      <4> QED
        BY <4>1, <4>2
    <3>8. ASSUME NEW u \in Scopes
          PROVE  /\ pc'[u] \notin {"new", "done"} =>
                      \E k \in 1..Len(active'[thread[u]]) : active'[thread[u]][k] = u
                 /\ pc'[u] = "new" => within'[u] = {}
                 /\ u \notin within'[u]
      <4>1. u \notin within'[u] /\ (u = s => pc'[u] = "done")
        BY <3>2, <3>5 DEF InUse
      <4>2. CASE u # s
        <5>1. pc'[u] = pc[u] /\ (pc[u] = "new" => within[u] = {})
          BY <3>5, <4>2 DEF InUse
        <5>2. ASSUME pc[u] \notin {"new", "done"}
              PROVE  \E k \in 1..Len(active'[thread[u]]) : active'[thread[u]][k] = u
          <6>1. PICK k \in 1..Len(active[thread[u]]) : active[thread[u]][k] = u
            BY <5>2 DEF InUse
          <6>2. CASE thread[u] = t
            <7>1. k \in 1..Len(active[t]) - 1
              BY <6>1, <6>2, <4>2, <3>3, <2>0
            <7> QED
              BY <6>1, <6>2, <7>1, <3>4
          <6>3. CASE thread[u] # t
            <7>1. thread[u] \in Threads
              BY DEF TypeOK
            <7> QED
              BY <6>1, <6>3, <7>1, <3>6
          <6> QED
            BY <6>2, <6>3
        <5> QED
          BY <4>1, <5>1, <5>2, <3>2
      <4> QED
        BY <4>1, <4>2
    <3> QED
      BY <1>2, <3>7, <3>8 DEF InUse
  <2> QED
    BY <1>2, <2>1, <2>2, <2>3 DEF Acts, ScopeStep
<1> QED
  BY <1>1, <1>2 DEF Next, Acts

-----------------------------------------------------------------------------
(* Subscribers, attempts and endings.                                      *)

\* A policy has exactly the scopes built on it as subscribers, and a retry
\* calls no other handlers than theirs.
Subscribed ==
  /\ \A p \in Policies : \A k \in 1..Len(subscribers[p]) :
       policy[subscribers[p][k]] = p /\ pc[subscribers[p][k]] # "new"
  /\ \A s \in Scopes :
       /\ pc[s] # "new" =>
            \E k \in 1..Len(subscribers[policy[s]]) : subscribers[policy[s]][k] = s
       /\ \A k \in 1..Len(pending[s]) :
            policy[pending[s][k]] = policy[s] /\ pc[pending[s][k]] # "new"

\* Attempt a of s was made: it is at most the present one, and an earlier one
\* while its unit of work runs.
Numbered(s, a) ==
  /\ a <= attempts[s]
  /\ pc[s] = "work" => a < attempts[s]
  /\ pc[s] \notin {"new", "built"}

\* Effects and failures are of attempts that were made.
Numbers ==
  /\ \A x \in effects : Numbered(x.scope, x.attempt)
  /\ \A f \in failures : Numbered(f[1], f[2])

\* A scope succeeds by its disposal, and its retry is interrupted before
\* that.
Endings ==
  \A s \in Scopes :
    /\ result[s] = "success" => pc[s] = "done"
    /\ result[s] = "interrupted" => pc[s] \in {"failed", "done"}

(***************************************************************************)
(* A step moves one scope on, and a scope that was built stays built.      *)
(***************************************************************************)
LEMMA Moves ==
  ASSUME TypeOK, NEW s \in Scopes, Acts(s)
  PROVE  /\ pc' \in [Scopes -> Places]
         /\ pc'[s] # "new"
         /\ \A u \in Scopes \ {s} : pc'[u] = pc[u] /\ attempts'[u] = attempts[u]
         /\ \A u \in Scopes \ {s} : result'[u] = result[u] /\ pending'[u] = pending[u]
<1>1. CASE Construct(s)
  BY <1>1 DEF Construct, TypeOK, Places
<1>2. CASE InvokeUnitOfWork(s)
  BY <1>2 DEF InvokeUnitOfWork, TypeOK, Places
<1>3. CASE WorkSucceeds(s)
  BY <1>3 DEF WorkSucceeds, TypeOK, Places
<1>4. CASE WorkFails(s)
  BY <1>4 DEF WorkFails, TypeOK, Places
<1>5. CASE Recycle(s)
  BY <1>5, ZenonT(30) DEF Recycle, Interrupt, TypeOK, Places
<1>9. CASE Renew(s)
  BY <1>9, ZenonT(30) DEF Renew, Interrupt, TypeOK, Places
<1>10. CASE WorkQuits(s)
  BY <1>10 DEF WorkQuits, TypeOK, Places
<1>6. CASE Retry(s)
  <2>1. /\ pc' = [pc EXCEPT ![s] = "work"] /\ UNCHANGED <<pending, result>>
        /\ \A u \in Scopes \ {s} : attempts'[u] = attempts[u]
    BY <1>6 DEF Retry, TypeOK
  <2> QED
    BY <2>1 DEF TypeOK, Places
<1>7. CASE Complete(s)
  BY <1>7 DEF Complete, TypeOK, Places
<1>8. CASE Dispose(s)
  BY <1>8 DEF Dispose, TypeOK, Places
<1> QED
  BY <1>1, <1>2, <1>3, <1>4, <1>5, <1>6, <1>7, <1>8, <1>9, <1>10 DEF Acts, ScopeStep

(***************************************************************************)
(* Nothing unsubscribes: a built scope stays a handler of its policy.      *)
(***************************************************************************)
LEMMA SubscribedStep == TypeOK /\ Subscribed /\ [Next]_vars => Subscribed'
<1> SUFFICES ASSUME TypeOK, Subscribed, [Next]_vars PROVE Subscribed'
  OBVIOUS
<1>1. CASE UNCHANGED vars
  BY <1>1 DEF vars, Subscribed
<1>2. ASSUME NEW s \in Scopes, Acts(s), UNCHANGED <<thread, policy>>
      PROVE  Subscribed'
  <2>0. /\ \A u \in Scopes : pc[u] # "new" => pc'[u] # "new"
        /\ \A u \in Scopes \ {s} : pc'[u] = pc[u] /\ pending'[u] = pending[u]
        /\ pc'[s] # "new"
    BY <1>2, Moves
  <2> DEFINE Known(u, q) == q \in Scopes /\ policy[q] = policy[u] /\ pc[q] # "new"
  <2>1. \A p \in Policies : subscribers[p] \in Seq(Scopes)
    BY DEF TypeOK
  <2>2. \A u \in Scopes : \A k \in 1..Len(pending[u]) : Known(u, pending[u][k])
    BY SMTT(30) DEF Subscribed, TypeOK
  <2>3. \A u \in Scopes : \A k \in 1..Len(subscribers[policy[u]]) :
          Known(u, subscribers[policy[u]][k])
    <3>1. \A u \in Scopes : policy[u] \in Policies
      BY DEF TypeOK
    <3> QED
      BY <2>1, <3>1 DEF Subscribed
  <2>4. \A k \in 1..Len(pending'[s]) : Known(s, pending'[s][k])
    <3>1. CASE pending'[s] = pending[s]
      BY <3>1, <2>2
    <3>2. CASE pending'[s] = subscribers[policy[s]]
      BY <3>2, <2>3
    <3>3. CASE pending'[s] = <<>>
      BY <3>3
    <3>4. CASE pending[s] # <<>> /\ pending'[s] = Tail(pending[s])
      <4>1. pending[s] \in Seq(Scopes)
        BY DEF TypeOK
      <4>2. \A k \in 1..Len(pending'[s]) :
              k + 1 \in 1..Len(pending[s]) /\ pending'[s][k] = pending[s][k + 1]
        BY <3>4, <4>1
      <4> QED
        BY <4>2, <2>2
    <3>5. CASE WorkFails(s)
      BY <3>5, <3>1, <3>2 DEF WorkFails, Handlers, TypeOK
    <3>6. CASE Recycle(s) \/ Renew(s)
      BY <3>6, <3>1, <3>3, <3>4, ZenonT(30) DEF Recycle, Renew, Interrupt, TypeOK
    <3>7. CASE ~WorkFails(s) /\ ~Recycle(s) /\ ~Renew(s)
      BY <1>2, <3>7, <3>1 DEF Acts, ScopeStep, Construct, InvokeUnitOfWork,
           WorkSucceeds, Retry, Complete, Dispose, WorkQuits, Renew, Interrupt
    <3> QED
      BY <3>5, <3>6, <3>7
  <2>5. ASSUME NEW u \in Scopes, NEW k \in 1..Len(pending'[u])
        PROVE  policy'[pending'[u][k]] = policy'[u] /\ pc'[pending'[u][k]] # "new"
    <3>1. Known(u, pending'[u][k])
      BY <2>0, <2>2, <2>4
    <3> QED
      BY <3>1, <2>0, <1>2
  <2>6. CASE Construct(s)
    <3> DEFINE p == policy[s]
    <3>1. p \in Policies /\ subscribers' = [subscribers EXCEPT ![p] = Append(subscribers[p], s)]
      BY <2>6 DEF Construct, TypeOK
    <3>2. /\ subscribers'[p] = Append(subscribers[p], s)
          /\ \A r \in Policies \ {p} : subscribers'[r] = subscribers[r]
      BY <3>1 DEF TypeOK
    <3>3. /\ Len(subscribers'[p]) = Len(subscribers[p]) + 1
          /\ subscribers'[p][Len(subscribers[p]) + 1] = s
          /\ \A k \in 1..Len(subscribers[p]) : subscribers'[p][k] = subscribers[p][k]
      BY <2>1, <3>1, <3>2
    <3>4. Len(subscribers[p]) \in Nat
      BY <2>1, <3>1
    <3>5. ASSUME NEW r \in Policies, NEW k \in 1..Len(subscribers'[r])
          PROVE  policy'[subscribers'[r][k]] = r /\ pc'[subscribers'[r][k]] # "new"
      <4>1. CASE r # p
        <5>1. subscribers'[r] = subscribers[r] /\ subscribers[r][k] \in Scopes
          BY <4>1, <3>2, <2>1
        <5> QED
          BY <5>1, <2>0, <1>2 DEF Subscribed
      <4>2. CASE r = p /\ k = Len(subscribers[p]) + 1
        BY <4>2, <3>3, <2>0, <1>2
      <4>3. CASE r = p /\ k \in 1..Len(subscribers[p])
        <5>1. subscribers'[r][k] = subscribers[r][k] /\ subscribers[r][k] \in Scopes
          BY <4>3, <3>3, <2>1
        <5> QED
          BY <5>1, <4>3, <2>0, <1>2 DEF Subscribed
      <4> HIDE DEF p
      <4> QED
        BY <3>3, <3>4, <4>1, <4>2, <4>3
    <3>6. ASSUME NEW u \in Scopes, pc'[u] # "new"
          PROVE  \E k \in 1..Len(subscribers'[policy[u]]) : subscribers'[policy[u]][k] = u
      <4>1. CASE u = s
        BY <4>1, <3>3, <3>4
      <4>2. CASE u # s
        <5>1. PICK k \in 1..Len(subscribers[policy[u]]) : subscribers[policy[u]][k] = u
          BY <4>2, <3>6, <2>0 DEF Subscribed
        <5>2. k \in 1..Len(subscribers'[policy[u]])
              /\ subscribers'[policy[u]][k] = subscribers[policy[u]][k]
          <6>1. CASE policy[u] = p
            BY <6>1, <3>3, <3>4
          <6>2. CASE policy[u] # p
            <7>1. policy[u] \in Policies
              BY DEF TypeOK
            <7> QED
              BY <6>2, <7>1, <3>2
          <6> QED
            BY <6>1, <6>2
        <5> QED
          BY <5>1, <5>2
      <4> QED
        BY <4>1, <4>2
    <3> QED
      BY <1>2, <2>5, <3>5, <3>6 DEF Subscribed
  <2>7. CASE ~Construct(s)
    <3>1. UNCHANGED subscribers
      BY <1>2, <2>7 DEF Acts, ScopeStep, InvokeUnitOfWork, WorkSucceeds, WorkFails,
           Recycle, Retry, Complete, Dispose, WorkQuits, Renew, Interrupt
    <3>2. pc[s] # "new"
      BY <1>2, <2>7 DEF Acts, ScopeStep, InvokeUnitOfWork, WorkSucceeds, WorkFails,
           Recycle, Retry, Complete, Dispose, WorkQuits, Renew, Interrupt
    <3>3. ASSUME NEW r \in Policies, NEW k \in 1..Len(subscribers[r])
          PROVE  policy'[subscribers[r][k]] = r /\ pc'[subscribers[r][k]] # "new"
      <4>1. subscribers[r][k] \in Scopes
        BY <2>1
      <4> QED
        BY <4>1, <2>0, <1>2 DEF Subscribed
    <3>4. ASSUME NEW u \in Scopes, pc'[u] # "new"
          PROVE  \E k \in 1..Len(subscribers[policy[u]]) : subscribers[policy[u]][k] = u
      BY <2>0, <3>2, <3>4 DEF Subscribed
    <3> QED
      BY <1>2, <2>5, <3>1, <3>3, <3>4 DEF Subscribed
  <2> QED
    BY <2>6, <2>7
<1> QED
  BY <1>1, <1>2 DEF Next, Acts

(***************************************************************************)
(* What was written and what failed keeps the number of its attempt.       *)
(***************************************************************************)
LEMMA NumbersStep == TypeOK /\ Numbers /\ [Next]_vars => Numbers'
<1> SUFFICES ASSUME TypeOK, Numbers, [Next]_vars PROVE Numbers'
  OBVIOUS
<1>1. CASE UNCHANGED vars
  BY <1>1 DEF vars, Numbers, Numbered
<1>2. ASSUME NEW s \in Scopes, Acts(s), UNCHANGED <<thread, policy>>
      PROVE  Numbers'
  <2> DEFINE New(u, a) == u = s /\ a = attempts[s] /\ attempts' = attempts /\ pc'[s] \notin {"new", "built", "work"}
  <2>1. \A u \in Scopes \ {s} : pc'[u] = pc[u] /\ attempts'[u] = attempts[u]
    BY <1>2, Moves
  <2>2. attempts[s] \in Nat
    BY DEF TypeOK
  <2>3. ASSUME NEW u \in Scopes, NEW a \in Nat, Numbered(u, a)
        PROVE  Numbered(u, a)'
    <3>1. CASE u # s
      BY <2>1, <2>3, <3>1 DEF Numbered
    <3>2. CASE u = s
      <4>1. pc[s] \notin {"new", "built"} /\ a <= attempts[s] /\ (pc[s] = "work" => a < attempts[s])
        BY <2>3, <3>2 DEF Numbered
      <4>2. CASE Retry(s)
        <5>1. attempts'[s] = attempts[s] + 1 /\ pc'[s] = "work"
          BY <4>2 DEF Retry, TypeOK
        <5>2. PICK n \in Nat : n = attempts[s]
          BY <2>2
        <5>3. a <= n + 1 /\ a < n + 1
          BY <4>1, <5>2
        <5>4. attempts'[s] = n + 1
          BY <5>1, <5>2
        <5> QED
          BY <3>2, <5>1, <5>3, <5>4 DEF Numbered
      <4>3. CASE ~Retry(s)
        <5>1. attempts' = attempts
          BY <1>2, <4>1, <4>3 DEF Acts, ScopeStep, Construct, InvokeUnitOfWork,
               WorkSucceeds, WorkFails, Recycle, Complete, Dispose, WorkQuits, Renew,
               Interrupt
        <5>2. pc'[s] \notin {"new", "built"} /\ (pc'[s] = "work" => pc[s] = "work")
          BY <1>2, <4>1, <4>3 DEF Acts, ScopeStep, Construct, InvokeUnitOfWork,
               WorkSucceeds, WorkFails, Recycle, Complete, Dispose, TypeOK, WorkQuits,
               Renew, Interrupt
        <5> QED
          BY <3>2, <4>1, <5>1, <5>2 DEF Numbered
      <4> QED
        BY <4>2, <4>3
    <3> QED
      BY <3>1, <3>2
  <2>4. \A u, a : New(u, a) => Numbered(u, a)'
    BY <2>2 DEF Numbered
  <2>5. ASSUME NEW x \in effects'
        PROVE  x \in effects \/ New(x.scope, x.attempt)
    <3>1. CASE WorkSucceeds(s) \/ WorkFails(s) \/ WorkQuits(s)
      <4>1. attempts' = attempts /\ pc'[s] \in {"worked", "retrying", "failed"}
        BY <3>1 DEF WorkSucceeds, WorkFails, WorkQuits, TypeOK
      <4>2. x \in effects \/ (x.scope = s /\ x.attempt = attempts[s])
        BY <3>1 DEF WorkSucceeds, WorkFails, WorkQuits, Work
      <4> QED
        BY <4>1, <4>2
    <3>2. CASE ~WorkSucceeds(s) /\ ~WorkFails(s) /\ ~WorkQuits(s)
      <4>1. effects' = effects
        BY <1>2, <3>2 DEF Acts, ScopeStep, Construct, InvokeUnitOfWork, Recycle, Renew,
             Retry, Complete, Dispose
      <4> QED
        BY <4>1
    <3> QED
      BY <3>1, <3>2
  <2>6. ASSUME NEW f \in failures'
        PROVE  f \in failures \/ New(f[1], f[2])
    <3>1. CASE WorkFails(s)
      <4>1. f \in failures \/ f = <<s, attempts[s]>>
        BY <3>1 DEF WorkFails
      <4>2. attempts' = attempts /\ pc'[s] \in {"retrying", "failed"}
        BY <3>1 DEF WorkFails, TypeOK
      <4> QED
        BY <4>1, <4>2
    <3>3. CASE WorkQuits(s)
      <4>1. f \in failures \/ f = <<s, attempts[s]>>
        BY <3>3 DEF WorkQuits
      <4>2. attempts' = attempts /\ pc'[s] = "worked"
        BY <3>3 DEF WorkQuits, TypeOK
      <4> QED
        BY <4>1, <4>2
    <3>2. CASE ~WorkFails(s) /\ ~WorkQuits(s)
      BY <1>2, <3>2 DEF Acts, ScopeStep, Construct, InvokeUnitOfWork, WorkSucceeds,
           Recycle, Retry, Complete, Dispose, WorkQuits, Renew, Interrupt
    <3> QED
      BY <3>1, <3>2, <3>3
  <2>7. /\ \A x \in effects : x.scope \in Scopes /\ x.attempt \in Nat
        /\ \A f \in failures : f[1] \in Scopes /\ f[2] \in Nat
    BY DEF TypeOK
  <2>8. \A x \in effects' : Numbered(x.scope, x.attempt)'
    BY <2>3, <2>4, <2>5, <2>7 DEF Numbers
  <2>9. \A f \in failures' : Numbered(f[1], f[2])'
    BY <2>3, <2>4, <2>6, <2>7 DEF Numbers
  <2> QED
    BY <2>8, <2>9 DEF Numbers
<1> QED
  BY <1>1, <1>2 DEF Next, Acts

(***************************************************************************)
(* A result stays with the place in the life of the scope it belongs to.   *)
(***************************************************************************)
LEMMA EndingsStep == TypeOK /\ Endings /\ [Next]_vars => Endings'
<1> SUFFICES ASSUME TypeOK, Endings, [Next]_vars PROVE Endings'
  OBVIOUS
<1>1. CASE UNCHANGED vars
  BY <1>1 DEF vars, Endings
<1>2. ASSUME NEW s \in Scopes, Acts(s), UNCHANGED <<thread, policy>>
      PROVE  Endings'
  <2>1. \A u \in Scopes \ {s} : pc'[u] = pc[u] /\ result'[u] = result[u]
    BY <1>2, Moves
  <2>2. /\ result[s] = "success" => pc[s] = "done"
        /\ result[s] = "interrupted" => pc[s] \in {"failed", "done"}
    BY DEF Endings
  <2>3. /\ result'[s] = "success" => pc'[s] = "done"
        /\ result'[s] = "interrupted" => pc'[s] \in {"failed", "done"}
    <3>1. CASE Construct(s) \/ InvokeUnitOfWork(s) \/ WorkSucceeds(s) \/ WorkQuits(s)
               \/ Retry(s)
      BY <3>1, <2>2 DEF Construct, InvokeUnitOfWork, WorkSucceeds, WorkQuits, Retry
    <3>2. CASE WorkFails(s)
      BY <3>2, <2>2 DEF WorkFails, TypeOK
    <3>3. CASE Recycle(s)
      BY <3>3, <2>2 DEF Recycle, Interrupt, TypeOK
    <3>6. CASE Renew(s)
      BY <3>6, <2>2 DEF Renew, Interrupt, TypeOK
    <3>4. CASE Complete(s)
      BY <3>4, <2>2 DEF Complete, TypeOK
    <3>5. CASE Dispose(s)
      BY <3>5, <2>2 DEF Dispose, TypeOK
    <3> QED
      BY <1>2, <3>1, <3>2, <3>3, <3>4, <3>5, <3>6 DEF Acts, ScopeStep
  <2> QED
    BY <2>1, <2>3 DEF Endings
<1> QED
  BY <1>1, <1>2 DEF Next, Acts

-----------------------------------------------------------------------------
(* The stacks of TransactionScopes.                                        *)

\* The scope whose TransactionScope is at i, and the transaction of a thread.
Owner(t, i) == stack[t][i].owner

Tx(t) == stack[t][1].transaction

\* All entries of a stack are in one transaction, which the lowest began and
\* which is not committed, and the field of a scope refers to each.
Sound(t, i) ==
  /\ Owner(t, i) \in Scopes
  /\ stack[t][i].transaction = Tx(t)
  /\ stack[t][i].transaction \in 1..transactions
  /\ stack[t][i].transaction \notin committed
  /\ stack[t][i].root = (i = 1)
  /\ pc[Owner(t, i)] # "new"

\* No transaction is on two threads, and no scope has two TransactionScopes.
Stacks ==
  /\ \A t \in Threads : \A i \in 1..Len(stack[t]) : Sound(t, i)
  /\ \A t, u \in Threads : \A i \in 1..Len(stack[t]), j \in 1..Len(stack[u]) :
       /\ t # u => stack[t][i].transaction # stack[u][j].transaction
       /\ Owner(t, i) = Owner(u, j) => t = u /\ i = j

\* A scope that is being renewed has no TransactionScope, and one thread only
\* renews it.
Renewals ==
  \A s \in Scopes : pc[s] = "renewing" =>
    /\ pending[s] # <<>>
    /\ \A u \in Threads : \A i \in 1..Len(stack[u]) : Owner(u, i) # Recycled(s)
    /\ ~RenewedElsewhere(s)

\* No transaction is both committed and rolled back.
Ledger ==
  /\ committed \subseteq {AutoCommit} \cup 1..transactions
  /\ aborted \cap committed = {}

(***************************************************************************)
(* Two scopes in use on one thread that share a policy are one scope.      *)
(***************************************************************************)
LEMMA Separate ==
  ASSUME TypeOK, InUse, ~NestedOnOnePolicy, NEW t \in Threads,
         NEW k \in 1..Len(active[t]), NEW l \in 1..Len(active[t]),
         policy[active[t][k]] = policy[active[t][l]]
  PROVE  k = l
<1>1. active[t] \in Seq(Scopes) /\ active[t][k] \in Scopes /\ active[t][l] \in Scopes
  BY SMTT(30) DEF TypeOK
<1>2. ~(k < l) /\ ~(l < k)
  BY <1>1 DEF InUse, NestedOnOnePolicy
<1> QED
  BY <1>1, <1>2

\* What the shape of the stacks is claimed for.
Calm == ~NestedOnOnePolicy /\ ~raced

(***************************************************************************)
(* Scopes that were nested on one policy stay so: the history of a built   *)
(* scope never changes.  Nor is a race ever forgotten.                     *)
(***************************************************************************)
LEMMA StaysCalm ==
  ASSUME TypeOK, InUse, [Next]_vars, Calm'
  PROVE  Calm
<1>1. CASE UNCHANGED vars
  BY <1>1 DEF vars, Calm, NestedOnOnePolicy
<1>2. ASSUME NEW s \in Scopes, Acts(s), UNCHANGED <<thread, policy>>
      PROVE  Calm
  <2>1. ~raced
    <3>1. CASE Recycle(s)
      BY <3>1 DEF Recycle, Calm
    <3>2. CASE ~Recycle(s)
      <4>1. UNCHANGED raced
        BY <1>2, <3>2 DEF Acts, ScopeStep, Construct, InvokeUnitOfWork, WorkSucceeds,
             WorkFails, WorkQuits, Renew, Retry, Complete, Dispose
      <4> QED
        BY <4>1 DEF Calm
    <3> QED
      BY <3>1, <3>2
  <2>2. CASE Construct(s)
    <3>1. within[s] = {} /\ \A u \in Scopes \ {s} : within'[u] = within[u]
      BY <2>2 DEF Construct, InUse, TypeOK
    <3> QED
      BY <2>1, <3>1, <1>2 DEF Calm, NestedOnOnePolicy
  <2>3. CASE ~Construct(s)
    <3>1. within' = within
      BY <1>2, <2>3 DEF Acts, ScopeStep, InvokeUnitOfWork, WorkSucceeds, WorkFails,
           WorkQuits, Recycle, Renew, Retry, Complete, Dispose
    <3> QED
      BY <2>1, <3>1, <1>2 DEF Calm, NestedOnOnePolicy
  <2> QED
    BY <2>2, <2>3
<1> QED
  BY <1>1, <1>2 DEF Next, Acts

(***************************************************************************)
(* What disposing the TransactionScope of q on thread t does: nothing      *)
(* where it has none; otherwise its part of the stack and all above goes,  *)
(* and the transaction of the thread is rolled back, unless q was on top   *)
(* and complete.                                                           *)
(***************************************************************************)
Absent(t, q, h) ==
  /\ h = Len(stack[t])
  /\ \A i \in 1..Len(stack[t]) : Owner(t, i) # q
  /\ UNCHANGED <<committed, aborted>>
  /\ ~DisposeThrows(t, q) => ~Live(q)

Closed(t, q, h) ==
  /\ h + 1 = Len(stack[t])
  /\ Owner(t, h + 1) = q
  /\ stack[t][h + 1].complete
  /\ committed' = IF h = 0 /\ Tx(t) \notin aborted THEN committed \cup {Tx(t)} ELSE committed
  /\ aborted' = aborted
  /\ DisposeThrows(t, q) <=> Tx(t) \in aborted

RolledBack(t, q, h) ==
  /\ h < Len(stack[t])
  /\ Owner(t, h + 1) = q
  /\ h + 1 = Len(stack[t]) => ~stack[t][h + 1].complete
  /\ committed' = committed
  /\ aborted' = aborted \cup {Tx(t)}
  /\ ~DisposeThrows(t, q) <=> h + 1 = Len(stack[t])

(***************************************************************************)
(* Disposing does one of the three, and leaves the stack below h.          *)
(***************************************************************************)
LEMMA DisposeEffect ==
  ASSUME TypeOK, Stacks, NEW t \in Threads, NEW q \in Scopes,
         DisposeTransactionScope(t, q)
  PROVE  \E h \in 0..Len(stack[t]) :
           /\ StackWithout(t, q) = SubSeq(stack[t], 1, h)
           /\ Absent(t, q, h) \/ Closed(t, q, h) \/ RolledBack(t, q, h)
<1>0. stack[t] \in Seq(Entries) /\ Position(t, q) = {i \in 1..Len(stack[t]) : Owner(t, i) = q}
  BY DEF TypeOK, Position, Owner
<1>1. PICK h \in 0..Len(stack[t]) :
        /\ StackWithout(t, q) = SubSeq(stack[t], 1, h)
        /\ Position(t, q) = {} => h = Len(stack[t])
        /\ Position(t, q) # {} => h + 1 \in Position(t, q)
  BY WithoutIsPrefix
<1>2. CASE Position(t, q) = {}
  <2>1. ~OnTop(t, q)
    BY <1>0, <1>2 DEF OnTop, Last, Owner
  <2>2. UNCHANGED <<committed, aborted>>
    BY <1>2 DEF DisposeTransactionScope
  <2>3. Absent(t, q, h)
    BY <1>0, <1>1, <1>2, <2>1, <2>2 DEF Absent, DisposeThrows
  <2> QED
    BY <1>1, <2>3
<1>3. CASE Position(t, q) # {}
  <2>1. h + 1 \in 1..Len(stack[t]) /\ Owner(t, h + 1) = q /\ h < Len(stack[t])
    BY <1>0, <1>1, <1>3
  <2>2. Live(q)
    BY <1>3 DEF Live
  <2>3. \A i \in 1..Len(stack[t]) : Owner(t, i) = q => i = h + 1
    BY <2>1 DEF Stacks
  <2>4. OnTop(t, q) <=> h + 1 = Len(stack[t])
    <3>1. Len(stack[t]) \in 1..Len(stack[t])
      BY <1>0, <2>1
    <3> QED
      BY <3>1, <2>1, <2>3, <1>0 DEF OnTop, Last, Owner
  <2>5. \A i \in 1..Len(stack[t]) :
          stack[t][i].transaction = Tx(t) /\ stack[t][i].root = (i = 1)
    BY DEF Stacks, Sound
  <2>6. Len(stack[t]) \in 1..Len(stack[t])
    BY <1>0, <2>1
  <2>7. {x.transaction : x \in ToSet(FromOn(t, q))} = {Tx(t)}
    <3> DEFINE i == CHOOSE i \in Position(t, q) : TRUE
    <3>1. i \in Position(t, q)
      BY <1>3
    <3>2. i \in 1..Len(stack[t])
      BY <3>1, <1>0
    <3>3. FromOn(t, q) = SubSeq(stack[t], i, Len(stack[t]))
      BY DEF FromOn
    <3> HIDE DEF i
    <3> DEFINE f == SubSeq(stack[t], i, Len(stack[t]))
    <3>4. /\ f \in Seq(Entries) /\ Len(f) = Len(stack[t]) - i + 1
          /\ \A j \in 1..Len(f) : f[j] = stack[t][i + j - 1] /\ i + j - 1 \in 1..Len(stack[t])
      BY <1>0, <3>2
    <3>5. 1 \in 1..Len(f)
      BY <3>4, <3>2, <1>0
    <3> HIDE DEF f
    <3>6. \A j \in 1..Len(f) : f[j].transaction = Tx(t)
      BY <3>4, <2>5, SMTT(30)
    <3>7. {x.transaction : x \in ToSet(f)} = {Tx(t)}
      <4>1. f \in Seq(Entries)
        BY <3>4 DEF f
      <4>2. ToSet(f) = {f[j] : j \in 1..Len(f)}
        BY <4>1, ToSetTyped
      <4> QED
        BY <4>2, <3>5, <3>6
    <3> QED
      BY <3>3, <3>7 DEF f
  <2>8. Last(stack[t]) = stack[t][Len(stack[t])]
    BY DEF Last
  <2>9. Last(stack[t]).transaction = Tx(t) /\ Last(stack[t]).root = (Len(stack[t]) = 1)
    BY <2>5, <2>6, <2>8
  <2>10. /\ committed' = IF Commits(t, q) /\ Last(stack[t]).root /\ ~DisposeThrows(t, q)
                         THEN committed \cup {Tx(t)} ELSE committed
         /\ aborted' = IF Commits(t, q) THEN aborted ELSE aborted \cup {Tx(t)}
    BY <1>3, <2>7, <2>9 DEF DisposeTransactionScope
  <2>11. CASE Commits(t, q)
    <3>1. h + 1 = Len(stack[t]) /\ stack[t][h + 1].complete
      BY <2>4, <2>8, <2>11 DEF Commits
    <3>2. DisposeThrows(t, q) <=> Tx(t) \in aborted
      BY <2>2, <2>4, <2>9, <2>11, <3>1 DEF DisposeThrows, Commits
    <3>3. Len(stack[t]) = 1 <=> h = 0
      <4>1. h \in Nat /\ h + 1 = Len(stack[t])
        BY <3>1, <1>0
      <4>2. \A m, n \in Nat : m + 1 = n => (n = 1 <=> m = 0)
        OBVIOUS
      <4>3. Len(stack[t]) \in Nat
        BY <1>0
      <4> QED
        BY <4>1, <4>2, <4>3
    <3>4. Closed(t, q, h)
      BY <2>1, <2>9, <2>10, <2>11, <3>1, <3>2, <3>3 DEF Closed
    <3> QED
      BY <1>1, <3>4
  <2>12. CASE ~Commits(t, q)
    <3>1. h + 1 = Len(stack[t]) => ~stack[t][h + 1].complete
      BY <2>4, <2>8, <2>12 DEF Commits
    <3>2. ~DisposeThrows(t, q) <=> h + 1 = Len(stack[t])
      BY <2>2, <2>4, <2>8, <3>1 DEF DisposeThrows
    <3>3. RolledBack(t, q, h)
      BY <2>1, <2>10, <2>12, <3>1, <3>2 DEF RolledBack
    <3> QED
      BY <1>1, <3>3
  <2> QED
    BY <2>11, <2>12
<1> QED
  BY <1>2, <1>3

(***************************************************************************)
(* The ways in which a step changes the stack of thread t.                 *)
(***************************************************************************)
Kept(t, h) ==
  /\ \A u \in Threads \ {t} : stack'[u] = stack[u]
  /\ \A i \in 1..h : stack'[t][i] = stack[t][i]

Dropped(t, h) ==
  /\ Kept(t, h)
  /\ Len(stack'[t]) = h
  /\ transactions' = transactions

Renewed(t, h, q) ==
  /\ Kept(t, h)
  /\ Len(stack'[t]) = h + 1
  /\ stack'[t][h + 1] =
       [owner |-> q, root |-> (h = 0), complete |-> FALSE,
        transaction |-> IF h = 0 THEN transactions + 1 ELSE Tx(t)]
  /\ transactions' = IF h = 0 THEN transactions + 1 ELSE transactions

(***************************************************************************)
(* Cutting the stack of t at h drops what is above h, no more.             *)
(***************************************************************************)
LEMMA DropsTo ==
  ASSUME TypeOK, NEW t \in Threads, NEW h \in 0..Len(stack[t]),
         stack' = [stack EXCEPT ![t] = SubSeq(stack[t], 1, h)],
         transactions' = transactions
  PROVE  Dropped(t, h)
<1>1. stack[t] \in Seq(Entries)
  BY DEF TypeOK
<1>2. stack'[t] = SubSeq(stack[t], 1, h) /\ \A u \in Threads \ {t} : stack'[u] = stack[u]
  BY DEF TypeOK
<1>3. Len(SubSeq(stack[t], 1, h)) = h /\ \A i \in 1..h : SubSeq(stack[t], 1, h)[i] = stack[t][i]
  BY <1>1
<1> QED
  BY <1>2, <1>3 DEF Dropped, Kept

(***************************************************************************)
(* Cutting the stack of t at h and beginning a TransactionScope for q      *)
(* joins the transaction of t, or begins one where nothing is left.        *)
(***************************************************************************)
LEMMA RenewsFrom ==
  ASSUME TypeOK, Stacks, NEW t \in Threads, NEW h \in 0..Len(stack[t]), NEW q \in Scopes,
         stack' = [stack EXCEPT ![t] = Begin(SubSeq(stack[t], 1, h), q)],
         transactions' = Begun(SubSeq(stack[t], 1, h))
  PROVE  Renewed(t, h, q)
<1> DEFINE under == SubSeq(stack[t], 1, h)
<1>1. stack[t] \in Seq(Entries)
  BY DEF TypeOK
<1>2. /\ under \in Seq(Entries) /\ Len(under) = h
      /\ \A i \in 1..h : under[i] = stack[t][i]
  BY <1>1
<1>3. stack'[t] = Begin(under, q) /\ \A u \in Threads \ {t} : stack'[u] = stack[u]
  BY DEF TypeOK
<1>4. transactions' = Begun(under)
  OBVIOUS
<1> HIDE DEF under
<1>5. (under = <<>>) <=> (h = 0)
  BY <1>2
<1>6. h # 0 => Last(under).transaction = Tx(t)
  <2> SUFFICES ASSUME h # 0 PROVE Last(under).transaction = Tx(t)
    OBVIOUS
  <2>1. h \in 1..h /\ h \in 1..Len(stack[t])
    OBVIOUS
  <2>2. Last(under) = stack[t][h]
    BY <1>2, <2>1 DEF Last
  <2> QED
    BY <2>1, <2>2 DEF Stacks, Sound
<1> DEFINE e == [owner |-> q, root |-> (h = 0), complete |-> FALSE,
                 transaction |-> IF h = 0 THEN transactions + 1 ELSE Tx(t)]
<1>7. stack'[t] = Append(under, e)
  BY <1>3, <1>5, <1>6 DEF Begin
<1> HIDE DEF e
<1>8. /\ Len(stack'[t]) = h + 1 /\ stack'[t][h + 1] = e
      /\ \A i \in 1..h : stack'[t][i] = stack[t][i]
  BY <1>2, <1>7, SMTT(30)
<1>9. transactions' = IF h = 0 THEN transactions + 1 ELSE transactions
  BY <1>4, <1>5 DEF Begun
<1> QED
  BY <1>3, <1>8, <1>9 DEF Renewed, Kept, e

-----------------------------------------------------------------------------
(* The blocks of a stack.                                                  *)

\* The lowest TransactionScope of the policy of s on thread t is its own, at i.
Anchor(t, i, s) ==
  /\ Owner(t, i) = s
  /\ stack[t][i].complete <=> pc[s] = "completed"
  /\ \A j \in 1..Len(stack[t]) : policy[Owner(t, j)] = policy[s] => i <= j

\* The scope s has its TransactionScope on thread t.
Anchored(t, s) == \E i \in 1..Len(stack[t]) : Anchor(t, i, s)

\* No TransactionScope of the policy of s is left on thread t.
Cleared(t, s) == \A j \in 1..Len(stack[t]) : policy[Owner(t, j)] # policy[s]

\* Entry i belongs to the policy of a scope in use on its thread.
Covered(t, i) == \E k \in 1..Len(active[t]) : policy[Owner(t, i)] = policy[active[t][k]]

Blockless(s) == pc[s] = "failed" \/ (pc[s] = "renewing" /\ Recycled(s) = s)

\* The stack of t consists of blocks, one for each scope in use, in their
\* order: the TransactionScopes of its policy, of which its own is the
\* lowest. Only a scope that has failed, or whose own handler is between the
\* disposal and the renewal, may have lost its block.
BlocksOf(t) ==
  /\ \A i \in 1..Len(stack[t]) :
       /\ Covered(t, i)
       /\ stack[t][i].complete => pc[Owner(t, i)] = "completed"
  /\ \A i, j \in 1..Len(stack[t]), k, l \in 1..Len(active[t]) :
       /\ k < l
       /\ policy[Owner(t, i)] = policy[active[t][k]]
       /\ policy[Owner(t, j)] = policy[active[t][l]]
       => i < j
  /\ \A k \in 1..Len(active[t]) :
       \/ Anchored(t, active[t][k])
       \/ Blockless(active[t][k]) /\ Cleared(t, active[t][k])

Blocks == \A t \in Threads : BlocksOf(t)

\* What the shape of the stacks rests on.
Shaped == TypeOK /\ InUse /\ Subscribed /\ Stacks /\ Renewals /\ Ledger /\ Blocks

(***************************************************************************)
(* Every entry of a stack is owned by a scope.                             *)
(***************************************************************************)
LEMMA OwnerTyped ==
  ASSUME Stacks, NEW t \in Threads, NEW i \in 1..Len(stack[t])
  PROVE  Owner(t, i) \in Scopes
BY DEF Stacks, Sound

(***************************************************************************)
(* A running scope has its own TransactionScope on its thread, as the      *)
(* lowest of its policy, unless it has failed or is about to renew it.     *)
(***************************************************************************)
LEMMA RunningBlock ==
  ASSUME Shaped, NEW s \in Scopes, Running(s), ~Blockless(s)
  PROVE  Anchored(thread[s], s)
<1> DEFINE t == thread[s]
<1>1. t \in Threads /\ active[t] \in Seq(Scopes)
  BY DEF Shaped, TypeOK
<1>2. Len(active[t]) \in 1..Len(active[t]) /\ active[t][Len(active[t])] = s
  BY <1>1 DEF Running
<1>3. BlocksOf(t)
  BY <1>1 DEF Shaped, Blocks
<1> QED
  BY <1>2, <1>3 DEF BlocksOf

(***************************************************************************)
(* The TransactionScope of a scope that has completed is on its own        *)
(* thread.                                                                 *)
(***************************************************************************)
LEMMA CompletedAtHome ==
  ASSUME Shaped, NEW s \in Scopes, pc[s] = "completed",
         NEW u \in Threads, NEW i \in 1..Len(stack[u]), Owner(u, i) = s
  PROVE  u = thread[s]
<1>1. Running(s)
  BY RunsLast DEF Shaped
<1>2. PICK a \in 1..Len(stack[thread[s]]) : Owner(thread[s], a) = s
  BY <1>1, RunningBlock DEF Anchored, Anchor, Blockless
<1>3. thread[s] \in Threads
  BY DEF Shaped, TypeOK
<1> QED
  BY <1>2, <1>3 DEF Shaped, Stacks

(***************************************************************************)
(* The blocks of a thread on which nothing happens stay as they are.       *)
(***************************************************************************)
LEMMA BlocksElsewhere ==
  ASSUME Shaped, NEW s \in Scopes, NEW u \in Threads, u # thread[s],
         stack'[u] = stack[u], active'[u] = active[u], policy' = policy,
         \A v \in Scopes \ {s} : pc'[v] = pc[v] /\ pending'[v] = pending[v]
  PROVE  BlocksOf(u)'
<1>1. BlocksOf(u) /\ stack[u] \in Seq(Entries) /\ active[u] \in Seq(Scopes)
  BY DEF Shaped, Blocks, TypeOK
<1>2. \A k \in 1..Len(active[u]) : active[u][k] \in Scopes \ {s}
  BY <1>1 DEF Shaped, InUse
<1>3. \A i \in 1..Len(stack[u]) : Owner(u, i) \in Scopes /\ stack'[u][i].owner = Owner(u, i)
  BY OwnerTyped DEF Shaped, Owner
<1>4. ASSUME NEW i \in 1..Len(stack[u])
      PROVE  Covered(u, i)' /\ (stack'[u][i].complete => pc'[Owner(u, i)'] = "completed")
  <2>1. Covered(u, i)'
    BY <1>1, <1>3 DEF BlocksOf, Covered, Owner
  <2>2. ASSUME stack[u][i].complete PROVE pc'[Owner(u, i)] = "completed"
    <3>1. pc[Owner(u, i)] = "completed"
      BY <1>1, <2>2 DEF BlocksOf
    <3>2. Owner(u, i) # s
      BY <1>3, <3>1, CompletedAtHome
    <3> QED
      BY <1>3, <3>1, <3>2
  <2> QED
    BY <1>3, <2>1, <2>2 DEF Owner
<1>5. ASSUME NEW k \in 1..Len(active[u])
      PROVE  Anchored(u, active[u][k])' \/ (Blockless(active[u][k]) /\ Cleared(u, active[u][k]))'
  <2>1. /\ pc'[active[u][k]] = pc[active[u][k]]
        /\ pending'[active[u][k]] = pending[active[u][k]]
    BY <1>2
  <2>2. active'[u][k] = active[u][k]
    OBVIOUS
  <2> QED
    BY <1>1, <1>3, <2>1, <2>2 DEF BlocksOf, Anchored, Anchor, Cleared, Owner, Blockless, Recycled
<1>6. ASSUME NEW i \in 1..Len(stack[u]), NEW j \in 1..Len(stack[u]),
             NEW k \in 1..Len(active[u]), NEW l \in 1..Len(active[u]),
             k < l,
             policy[Owner(u, i)] = policy[active[u][k]],
             policy[Owner(u, j)] = policy[active[u][l]]
      PROVE  i < j
  BY <1>1, <1>6 DEF BlocksOf
<1> QED
  BY <1>3, <1>4, <1>5, <1>6 DEF BlocksOf, Owner

(***************************************************************************)
(* A step of s that leaves the stack as it is keeps the blocks.            *)
(***************************************************************************)
LEMMA BlocksMove ==
  ASSUME Shaped, NEW s \in Scopes, Running(s), NEW t \in Threads, t = thread[s],
         pc[s] # "completed", pc'[s] # "completed", ~Blockless(s),
         \A v \in Scopes \ {s} : pc'[v] = pc[v] /\ pending'[v] = pending[v],
         UNCHANGED <<stack, active, policy>>
  PROVE  Blocks'
<1>1. active[t] \in Seq(Scopes) /\ stack[t] \in Seq(Entries)
  BY DEF Shaped, TypeOK
<1>2. \A u \in Threads \ {t} : BlocksOf(u)'
  BY BlocksElsewhere
<1>3. BlocksOf(t)
  BY <1>1 DEF Shaped, Blocks
<1>4. \A k \in 1..Len(active[t]) : active[t][k] \in Scopes
  BY <1>1
<1>5. \A i \in 1..Len(stack[t]) : Owner(t, i) \in Scopes /\ stack'[t][i].owner = Owner(t, i)
  BY OwnerTyped DEF Shaped, Owner
<1>6. BlocksOf(t)'
  <2>1. ASSUME NEW i \in 1..Len(stack[t])
        PROVE  Covered(t, i)' /\ (stack'[t][i].complete => pc'[Owner(t, i)'] = "completed")
    <3>1. Covered(t, i)'
      BY <1>3, <1>5 DEF BlocksOf, Covered, Owner
    <3>2. ASSUME stack[t][i].complete PROVE pc'[Owner(t, i)] = "completed"
      <4>1. pc[Owner(t, i)] = "completed"
        BY <1>3, <3>2 DEF BlocksOf
      <4> QED
        BY <1>5, <4>1
    <3> QED
      BY <1>5, <3>1, <3>2 DEF Owner
  <2>2. ASSUME NEW k \in 1..Len(active[t])
        PROVE  Anchored(t, active[t][k])' \/ (Blockless(active[t][k]) /\ Cleared(t, active[t][k]))'
    <3>1. CASE active[t][k] = s
      <4>1. PICK i \in 1..Len(stack[t]) : Anchor(t, i, s)
        BY RunningBlock DEF Anchored
      <4>2. Anchor(t, i, s)'
        BY <4>1, <1>5 DEF Anchor, Owner
      <4> QED
        BY <3>1, <4>2 DEF Anchored
    <3>2. CASE active[t][k] # s
      <4>1. /\ pc'[active[t][k]] = pc[active[t][k]]
            /\ pending'[active[t][k]] = pending[active[t][k]]
        BY <1>4, <3>2
      <4>2. PICK v \in Scopes : v = active[t][k]
        BY <1>4
      <4>3. CASE Anchored(t, v)
        <5>1. Anchored(t, v)'
          BY <1>5, <4>1, <4>2, <4>3 DEF Anchored, Anchor, Owner
        <5> QED
          BY <4>2, <5>1
      <4>4. CASE Blockless(v) /\ Cleared(t, v)
        <5>1. Blockless(v)'
          BY <4>1, <4>2, <4>4 DEF Blockless, Recycled
        <5>2. Cleared(t, v)'
          BY <1>5, <4>4 DEF Cleared, Owner
        <5> QED
          BY <4>2, <5>1, <5>2
      <4> QED
        BY <1>3, <4>2, <4>3, <4>4 DEF BlocksOf
    <3> QED
      BY <3>1, <3>2
  <2>3. ASSUME NEW i \in 1..Len(stack[t]), NEW j \in 1..Len(stack[t]),
               NEW k \in 1..Len(active[t]), NEW l \in 1..Len(active[t]),
               k < l,
               policy[Owner(t, i)] = policy[active[t][k]],
               policy[Owner(t, j)] = policy[active[t][l]]
        PROVE  i < j
    BY <1>3, <2>3 DEF BlocksOf
  <2> QED
    BY <1>5, <2>1, <2>2, <2>3 DEF BlocksOf, Owner
<1> QED
  BY <1>2, <1>6 DEF Blocks

-----------------------------------------------------------------------------
(* What each action does to the stacks.                                    *)

(***************************************************************************)
(* What the retry of s does to its thread t when it recycles q: only parts *)
(* of the stack that belong to the policy of s are dropped, and nothing is *)
(* committed.                                                              *)
(***************************************************************************)
Unwound(t, q, s, h) ==
  /\ h \in 0..Len(stack[t])
  /\ q \in Scopes /\ policy[q] = policy[s] /\ pc[q] # "new"
  /\ Absent(t, q, h) \/ RolledBack(t, q, h)
  /\ \E a \in 1..Len(stack[t]) : Anchor(t, a, s) /\ (a <= h \/ (a = h + 1 /\ q = s))
  /\ committed' = committed

(***************************************************************************)
(* Disposing for handler q drops that part of the stack, and either goes   *)
(* well, and q is to be renewed next, or interrupts the retry there.       *)
(***************************************************************************)
LEMMA RecycleEffect ==
  ASSUME Shaped, ~NestedOnOnePolicy, NEW s \in Scopes, Recycle(s),
         NEW t \in Threads, t = thread[s]
  PROVE  \E q, h :
           /\ q = Recycled(s)
           /\ Unwound(t, q, s, h)
           /\ Dropped(t, h)
           /\ \/ /\ ~DisposeThrows(t, q)
                 /\ pc' = [pc EXCEPT ![s] = "renewing"]
                 /\ raced' = (raced \/ RenewedElsewhere(s))
                 /\ UNCHANGED <<pending, result>>
              \/ DisposeThrows(t, q) /\ Interrupt(s)
<1> DEFINE q == Recycled(s)
<1>0. TypeOK /\ InUse /\ Subscribed /\ Stacks /\ Blocks
  BY DEF Shaped
<1>1. pending[s] \in Seq(Scopes) /\ pending[s] # <<>> /\ pc[s] = "retrying"
  BY <1>0 DEF Recycle, TypeOK
<1>2. q \in Scopes /\ q = pending[s][1] /\ 1 \in 1..Len(pending[s])
  BY <1>1 DEF Recycled
<1>3. policy[q] = policy[s] /\ pc[q] # "new"
  BY <1>0, <1>2 DEF Subscribed
<1>4. DisposeTransactionScope(t, q)
  BY DEF Recycle
<1>5. /\ stack' = [stack EXCEPT ![t] = StackWithout(t, q)]
      /\ \/ /\ ~DisposeThrows(t, q)
            /\ pc' = [pc EXCEPT ![s] = "renewing"]
            /\ raced' = (raced \/ RenewedElsewhere(s))
            /\ UNCHANGED <<pending, result>>
         \/ DisposeThrows(t, q) /\ Interrupt(s)
      /\ UNCHANGED transactions
  BY DEF Recycle
<1> HIDE DEF q
<1>6. PICK h \in 0..Len(stack[t]) :
        /\ StackWithout(t, q) = SubSeq(stack[t], 1, h)
        /\ Absent(t, q, h) \/ Closed(t, q, h) \/ RolledBack(t, q, h)
  BY <1>0, <1>2, <1>4, DisposeEffect
<1>7. Running(s)
  BY <1>0, <1>1, RunsLast
<1>8. stack[t] \in Seq(Entries)
  BY <1>0 DEF TypeOK
<1>9. PICK a \in 1..Len(stack[t]) : Anchor(t, a, s)
  BY <1>1, <1>7, RunningBlock DEF Anchored, Blockless
<1>10. ~Closed(t, q, h)
  <2> SUFFICES ASSUME Closed(t, q, h) PROVE FALSE
    OBVIOUS
  <2>1. h + 1 \in 1..Len(stack[t]) /\ Owner(t, h + 1) = q /\ stack[t][h + 1].complete
    BY <1>8 DEF Closed
  <2>2. pc[q] = "completed"
    BY <1>0, <2>1 DEF Blocks, BlocksOf
  <2>3. thread[q] = t
    BY <1>2, <2>1, <2>2, CompletedAtHome
  <2> QED
    BY <1>1, <1>2, <1>7, <2>2, <2>3 DEF Running
<1>11. a <= h \/ (a = h + 1 /\ q = s)
  <2>1. CASE Absent(t, q, h)
    BY <1>8, <1>9, <2>1 DEF Absent
  <2>2. CASE RolledBack(t, q, h)
    <3>1. h + 1 \in 1..Len(stack[t]) /\ Owner(t, h + 1) = q
      BY <1>8, <2>2 DEF RolledBack
    <3>2. a <= h + 1
      BY <1>3, <1>9, <3>1 DEF Anchor
    <3>3. a = h + 1 => q = s
      BY <1>9, <3>1 DEF Anchor
    <3> QED
      BY <1>8, <3>2, <3>3
  <2> QED
    BY <1>6, <1>10, <2>1, <2>2
<1>12. Unwound(t, q, s, h)
  <2>1. committed' = committed
    BY <1>6, <1>10 DEF Absent, RolledBack
  <2> QED
    BY <1>2, <1>3, <1>6, <1>9, <1>10, <1>11, <2>1 DEF Unwound
<1>13. Dropped(t, h)
  BY <1>0, <1>5, <1>6, DropsTo
<1> QED
  BY <1>5, <1>12, <1>13 DEF q

(***************************************************************************)
(* Where nobody's TransactionScope is q's, none is orphaned.               *)
(***************************************************************************)
LEMMA NothingOrphaned ==
  ASSUME TypeOK, NEW u \in Threads, NEW q,
         \A i \in 1..Len(stack[u]) : Owner(u, i) # q
  PROVE  Orphaned(u, q) = stack[u]
<1>1. stack[u] \in Seq(Entries)
  BY DEF TypeOK
<1>2. Orphaned(u, q) = [i \in 1..Len(stack[u]) |-> stack[u][i]]
  BY <1>1 DEF Orphaned, Owner
<1>3. stack[u] = [i \in 1..Len(stack[u]) |-> stack[u][i]]
  BY <1>1
<1> QED
  BY <1>2, <1>3

(***************************************************************************)
(* The second half of the handler of q puts a TransactionScope on top, or  *)
(* leaves everything as it is and interrupts the retry.                    *)
(***************************************************************************)
LEMMA RenewEffect ==
  ASSUME Shaped, NEW s \in Scopes, Renew(s), NEW t \in Threads, t = thread[s]
  PROVE  \E q \in Scopes :
           /\ q = Recycled(s)
           /\ policy[q] = policy[s] /\ pc[q] # "new"
           /\ \A u \in Threads : \A i \in 1..Len(stack[u]) : Owner(u, i) # q
           /\ \/ /\ CanBegin(stack[t], aborted)
                 /\ Renewed(t, Len(stack[t]), q)
                 /\ pending' = [pending EXCEPT ![s] = Tail(@)]
                 /\ pc' = [pc EXCEPT ![s] = "retrying"]
                 /\ UNCHANGED result
              \/ /\ ~CanBegin(stack[t], aborted)
                 /\ Interrupt(s)
                 /\ UNCHANGED <<stack, transactions>>
           /\ UNCHANGED <<committed, aborted>>
<1> DEFINE q == Recycled(s)
<1>0. TypeOK /\ Subscribed /\ Stacks /\ Renewals
  BY DEF Shaped
<1>1. pending[s] \in Seq(Scopes) /\ pending[s] # <<>> /\ pc[s] = "renewing"
  BY <1>0 DEF Renew, TypeOK
<1>2. q \in Scopes /\ q = pending[s][1] /\ 1 \in 1..Len(pending[s])
  BY <1>1 DEF Recycled
<1>3. policy[q] = policy[s] /\ pc[q] # "new"
  BY <1>0, <1>2 DEF Subscribed
<1>4. \A u \in Threads : \A i \in 1..Len(stack[u]) : Owner(u, i) # q
  BY <1>0, <1>1 DEF Renewals
<1>5. CASE CanBegin(stack[t], aborted)
  <2>1. /\ stack' = [u \in Threads |->
                       IF u = t THEN Begin(Orphaned(u, q), q) ELSE Orphaned(u, q)]
        /\ transactions' = Begun(stack[t])
        /\ pending' = [pending EXCEPT ![s] = Tail(@)]
        /\ pc' = [pc EXCEPT ![s] = "retrying"]
        /\ UNCHANGED <<result, committed, aborted>>
    BY <1>5 DEF Renew
  <2>2. \A u \in Threads : Orphaned(u, q) = stack[u]
    BY <1>0, <1>4, NothingOrphaned
  <2> HIDE DEF q
  <2>3. stack[t] \in Seq(Entries) /\ stack \in [Threads -> Seq(Entries)]
    BY <1>0 DEF TypeOK
  <2>4. SubSeq(stack[t], 1, Len(stack[t])) = stack[t] /\ Len(stack[t]) \in 0..Len(stack[t])
    BY <2>3, WholeSeq
  <2>5. stack' = [u \in Threads |-> IF u = t THEN Begin(stack[t], q) ELSE stack[u]]
    BY <2>1, <2>2
  <2>6. stack' = [stack EXCEPT ![t] = Begin(stack[t], q)]
    BY <2>3, <2>5
  <2>7. Renewed(t, Len(stack[t]), q)
    BY <1>0, <1>2, <2>1, <2>4, <2>6, RenewsFrom
  <2> QED
    BY <1>2, <1>3, <1>4, <1>5, <2>1, <2>7 DEF q
<1>6. CASE ~CanBegin(stack[t], aborted)
  <2>1. Interrupt(s) /\ UNCHANGED <<stack, transactions, committed, aborted>>
    BY <1>6 DEF Renew
  <2> QED
    BY <1>2, <1>3, <1>4, <1>6, <2>1
<1> QED
  BY <1>5, <1>6

(***************************************************************************)
(* The end of the using block of s, on its thread t: nothing of its policy *)
(* stays on the stack.                                                     *)
(***************************************************************************)
Unused(t, s, h) ==
  /\ h \in 0..Len(stack[t])
  /\ \/ pc[s] = "failed" /\ Cleared(t, s) /\ Absent(t, s, h)
     \/ /\ h < Len(stack[t]) /\ Anchor(t, h + 1, s)
        /\ Closed(t, s, h) \/ RolledBack(t, s, h)

(***************************************************************************)
(* The end of a using block drops its block, and the lowest entry of it is *)
(* its own TransactionScope.                                               *)
(***************************************************************************)
LEMMA DisposeScopeEffect ==
  ASSUME Shaped, NEW s \in Scopes, Dispose(s), NEW t \in Threads, t = thread[s]
  PROVE  \E h : Unused(t, s, h) /\ Dropped(t, h)
<1>0. TypeOK /\ InUse /\ Stacks /\ Blocks
  BY DEF Shaped
<1>1. /\ DisposeTransactionScope(t, s)
      /\ stack' = [stack EXCEPT ![t] = StackWithout(t, s)]
      /\ UNCHANGED transactions
      /\ pc[s] \in {"completed", "failed"}
  BY DEF Dispose
<1>2. PICK h \in 0..Len(stack[t]) :
        /\ StackWithout(t, s) = SubSeq(stack[t], 1, h)
        /\ Absent(t, s, h) \/ Closed(t, s, h) \/ RolledBack(t, s, h)
  BY <1>0, <1>1, DisposeEffect
<1>3. Running(s)
  BY <1>0, <1>1, RunsLast
<1>4. stack[t] \in Seq(Entries) /\ active[t] \in Seq(Scopes)
  BY <1>0 DEF TypeOK
<1>5. Len(active[t]) \in 1..Len(active[t]) /\ active[t][Len(active[t])] = s
  BY <1>3, <1>4 DEF Running
<1>6. Anchored(t, s) \/ (pc[s] = "failed" /\ Cleared(t, s))
  BY <1>0, <1>1, <1>5 DEF Blocks, BlocksOf, Blockless
<1>7. Unused(t, s, h)
  <2>1. CASE Absent(t, s, h)
    <3>1. ~Anchored(t, s)
      BY <2>1 DEF Absent, Anchored, Anchor
    <3> QED
      BY <1>6, <2>1, <3>1 DEF Unused
  <2>2. CASE Closed(t, s, h) \/ RolledBack(t, s, h)
    <3>1. h + 1 \in 1..Len(stack[t]) /\ Owner(t, h + 1) = s /\ h < Len(stack[t])
      BY <1>4, <2>2 DEF Closed, RolledBack
    <3>2. ~Cleared(t, s)
      BY <3>1 DEF Cleared
    <3>3. PICK a \in 1..Len(stack[t]) : Anchor(t, a, s)
      BY <1>6, <3>2 DEF Anchored
    <3>4. a = h + 1
      BY <1>0, <3>1, <3>3 DEF Anchor, Stacks
    <3> QED
      BY <2>2, <3>1, <3>3, <3>4 DEF Unused
  <2> QED
    BY <1>2, <2>1, <2>2
<1>8. Dropped(t, h)
  BY <1>0, <1>1, <1>2, DropsTo
<1> QED
  BY <1>7, <1>8

(***************************************************************************)
(* Construction puts one TransactionScope on top of the stack.             *)
(***************************************************************************)
LEMMA ConstructEffect ==
  ASSUME TypeOK, Stacks, NEW s \in Scopes, Construct(s), NEW t \in Threads, t = thread[s]
  PROVE  Renewed(t, Len(stack[t]), s)
<1>1. stack[t] \in Seq(Entries)
  BY DEF TypeOK
<1>2. SubSeq(stack[t], 1, Len(stack[t])) = stack[t] /\ Len(stack[t]) \in 0..Len(stack[t])
  BY <1>1, WholeSeq
<1>3. stack' = [stack EXCEPT ![t] = Begin(stack[t], s)] /\ transactions' = Begun(stack[t])
  BY DEF Construct
<1> QED
  BY <1>2, <1>3, RenewsFrom

-----------------------------------------------------------------------------

(***************************************************************************)
(* A stack of which the upper part is gone is still sound.                 *)
(***************************************************************************)
LEMMA StacksShrink ==
  ASSUME Stacks, TypeOK,
         \A u \in Threads :
           /\ Len(stack'[u]) <= Len(stack[u]) /\ Len(stack'[u]) \in Nat
           /\ \A i \in 1..Len(stack'[u]) :
                /\ stack'[u][i].owner = Owner(u, i)
                /\ stack'[u][i].transaction = stack[u][i].transaction
                /\ stack'[u][i].root = stack[u][i].root
                /\ stack'[u][i].transaction \notin committed',
         \A v \in Scopes : pc[v] # "new" => pc'[v] # "new",
         transactions' = transactions
  PROVE  Stacks'
<1>1. \A u \in Threads : \A i \in 1..Len(stack'[u]) : i \in 1..Len(stack[u])
  BY DEF TypeOK
<1>2. ASSUME NEW u \in Threads, NEW i \in 1..Len(stack'[u])
      PROVE  Sound(u, i)'
  <2>1. i \in 1..Len(stack[u]) /\ 1 \in 1..Len(stack'[u])
    BY <1>1
  <2>2. Sound(u, i) /\ Owner(u, i) \in Scopes
    BY <2>1, OwnerTyped DEF Stacks
  <2> QED
    BY <2>1, <2>2 DEF Sound, Tx, Owner
<1>3. ASSUME NEW t \in Threads, NEW u \in Threads,
             NEW i \in 1..Len(stack'[t]), NEW j \in 1..Len(stack'[u])
      PROVE  /\ t # u => stack'[t][i].transaction # stack'[u][j].transaction
             /\ stack'[t][i].owner = stack'[u][j].owner => t = u /\ i = j
  <2>1. i \in 1..Len(stack[t]) /\ j \in 1..Len(stack[u])
    BY <1>1
  <2>2. /\ t # u => stack[t][i].transaction # stack[u][j].transaction
        /\ Owner(t, i) = Owner(u, j) => t = u /\ i = j
    BY <2>1 DEF Stacks
  <2>3. /\ stack'[t][i].transaction = stack[t][i].transaction
        /\ stack'[t][i].owner = Owner(t, i)
        /\ stack'[u][j].transaction = stack[u][j].transaction
        /\ stack'[u][j].owner = Owner(u, j)
    OBVIOUS
  <2> QED
    BY ONLY <2>2, <2>3
<1> QED
  BY <1>2, <1>3 DEF Stacks, Owner

(***************************************************************************)
(* A stack of which the upper part is replaced by a TransactionScope of q  *)
(* is still sound, where q had no other one.                               *)
(***************************************************************************)
LEMMA StacksRenewed ==
  ASSUME Stacks, Ledger, TypeOK, NEW t \in Threads, NEW h \in 0..Len(stack[t]), NEW q \in Scopes,
         Renewed(t, h, q), committed' = committed, pc'[q] # "new",
         \A v \in Scopes : pc[v] # "new" => pc'[v] # "new",
         \A u \in Threads : \A i \in 1..Len(stack[u]) : Owner(u, i) = q => u = t /\ i > h
  PROVE  Stacks'
<1> DEFINE m == IF h = 0 THEN transactions + 1 ELSE transactions
           x == IF h = 0 THEN transactions + 1 ELSE Tx(t)
<1>1. /\ transactions' = m /\ m \in Nat /\ m >= transactions
      /\ Len(stack'[t]) = h + 1
      /\ stack'[t][h + 1].owner = q
      /\ stack'[t][h + 1].root = (h = 0)
      /\ stack'[t][h + 1].transaction = x
      /\ \A u \in Threads \ {t} : stack'[u] = stack[u]
      /\ \A i \in 1..h : stack'[t][i] = stack[t][i]
  <2>1. m \in Nat /\ m >= transactions
    BY DEF TypeOK
  <2>2. stack'[t][h + 1] = [owner |-> q, root |-> (h = 0), complete |-> FALSE,
                            transaction |-> x]
    BY DEF Renewed
  <2>3. /\ transactions' = m /\ Len(stack'[t]) = h + 1
        /\ \A u \in Threads \ {t} : stack'[u] = stack[u]
        /\ \A i \in 1..h : stack'[t][i] = stack[t][i]
    BY DEF Renewed, Kept
  <2> QED
    BY <2>1, <2>2, <2>3
<1>2. h # 0 => 1 \in 1..Len(stack[t]) /\ 1 \in 1..h
  BY DEF TypeOK
<1>3. x \in 1..m /\ x \notin committed
  <2>1. CASE h = 0
    BY <2>1 DEF Ledger, AutoCommit, TypeOK
  <2>2. CASE h # 0
    BY <1>2, <2>2 DEF Stacks, Sound
  <2> QED
    BY <2>1, <2>2
<1>4. stack'[t][1].transaction = x
  BY <1>1, <1>2 DEF Tx
<1>5. \A u \in Threads : \A i \in 1..Len(stack[u]) :
        stack[u][i].transaction \in 1..transactions
  BY DEF Stacks, Sound
<1> HIDE DEF m, x
<1> DEFINE old(u, i) == i \in 1..Len(stack[u]) /\ stack'[u][i] = stack[u][i] /\ (u = t => i <= h)
<1>6. ASSUME NEW u \in Threads, NEW i \in 1..Len(stack'[u])
      PROVE  old(u, i) \/ (u = t /\ i = h + 1)
  <2>1. CASE u = t
    <3>1. Len(stack'[t]) = h + 1 /\ h \in Nat /\ Len(stack[t]) \in Nat /\ h <= Len(stack[t])
      BY <1>1 DEF TypeOK
    <3>2. i \in 1..h \/ i = h + 1
      BY <2>1, <3>1
    <3>3. i \in 1..h => i \in 1..Len(stack[t]) /\ stack'[t][i] = stack[t][i] /\ i <= h
      BY <1>1, <3>1
    <3> QED
      BY <2>1, <3>2, <3>3
  <2>2. CASE u # t
    BY <1>1, <2>2
  <2> QED
    BY <2>1, <2>2
<1>7. ASSUME NEW u \in Threads, NEW i \in 1..Len(stack'[u])
      PROVE  Sound(u, i)'
  <2>1. CASE old(u, i)
    <3>1. Sound(u, i) /\ Owner(u, i) \in Scopes
      BY <2>1, OwnerTyped DEF Stacks
    <3>2. stack'[u][i].transaction \in 1..m
      <4>1. stack'[u][i].transaction \in 1..transactions
        BY <2>1, <1>5
      <4>2. \A n \in 1..transactions : n \in 1..m
        BY <1>1 DEF TypeOK
      <4> QED
        BY <4>1, <4>2
    <3>3. stack'[u][1].transaction = Tx(u)
      BY <1>1, <2>1, <1>2, <1>4 DEF Tx
    <3>4. /\ stack'[u][i].transaction = stack'[u][1].transaction
          /\ stack'[u][i].transaction \notin committed
          /\ stack'[u][i].root = (i = 1)
          /\ stack'[u][i].owner \in Scopes
          /\ pc'[stack'[u][i].owner] # "new"
      BY <2>1, <3>1, <3>3 DEF Sound, Owner
    <3> QED
      BY <1>1, <3>2, <3>4 DEF Sound, Tx, Owner
  <2>2. CASE u = t /\ i = h + 1
    <3>1. (h = 0) = (i = 1)
      BY <2>2
    <3> QED
      BY <1>1, <1>3, <1>4, <2>2, <3>1 DEF Sound, Tx, Owner
  <2> QED
    BY <1>6, <2>1, <2>2
<1>8. ASSUME NEW u \in Threads, NEW i \in 1..Len(stack'[u]), u # t
      PROVE  stack'[u][i].transaction # x
  <2>1. old(u, i)
    BY <1>6, <1>8
  <2>2. CASE h = 0
    BY <1>5, <2>1, <2>2 DEF x, TypeOK
  <2>3. CASE h # 0
    <3>1. x = stack[t][1].transaction /\ 1 \in 1..Len(stack[t])
      BY <1>2, <2>3 DEF x, Tx
    <3> QED
      BY <3>1, <2>1, <1>8 DEF Stacks
  <2> QED
    BY <2>2, <2>3
<1>9. \A i \in 1..Len(stack'[t]) : stack'[t][i].transaction = x
  BY <1>4, <1>7 DEF Sound, Tx
<1>10. ASSUME NEW v \in Threads, NEW u \in Threads,
              NEW i \in 1..Len(stack'[v]), NEW j \in 1..Len(stack'[u])
       PROVE  /\ v # u => stack'[v][i].transaction # stack'[u][j].transaction
              /\ stack'[v][i].owner = stack'[u][j].owner => v = u /\ i = j
  <2>1. CASE old(v, i) /\ old(u, j)
    <3>1. /\ v # u => stack[v][i].transaction # stack[u][j].transaction
          /\ Owner(v, i) = Owner(u, j) => v = u /\ i = j
      BY <2>1 DEF Stacks
    <3> QED
      BY <3>1, <2>1 DEF Owner
  <2>2. CASE v = t /\ i = h + 1
    <3>1. v # u => stack'[u][j].transaction # x
      BY <1>8, <2>2
    <3>2. CASE old(u, j)
      <4>1. Owner(u, j) # q
        BY <3>2
      <4> QED
        BY <1>1, <1>9, <2>2, <3>1, <3>2, <4>1 DEF Owner
    <3>3. CASE u = t /\ j = h + 1
      BY <2>2, <3>3
    <3> QED
      BY <1>6, <3>2, <3>3
  <2>3. CASE old(v, i) /\ u = t /\ j = h + 1
    <3>1. v # u => stack'[v][i].transaction # x
      BY <1>8, <2>3
    <3>2. Owner(v, i) # q
      BY <2>3
    <3> QED
      BY <1>1, <1>9, <2>3, <3>1, <3>2 DEF Owner
  <2> QED
    BY <1>6, <2>1, <2>2, <2>3
<1> QED
  BY <1>7, <1>10 DEF Stacks, Owner

-----------------------------------------------------------------------------
(* Transactions are committed or rolled back, once.                        *)

(***************************************************************************)
(* An entry is in the transaction of its thread, which is not committed.   *)
(***************************************************************************)
LEMMA TransactionsOf ==
  ASSUME TypeOK, Stacks, NEW t \in Threads, NEW i \in 1..Len(stack[t])
  PROVE  /\ stack[t][i].transaction = Tx(t)
         /\ Tx(t) \in 1..transactions /\ Tx(t) \notin committed
         /\ Len(stack[t]) \in Nat
BY DEF TypeOK, Stacks, Sound

(***************************************************************************)
(* Complete changes nothing of the stacks but the mark of the              *)
(* TransactionScope of s.                                                  *)
(***************************************************************************)
LEMMA CompletePointwise ==
  ASSUME TypeOK, NEW s \in Scopes, Complete(s), NEW u \in Threads
  PROVE  /\ Len(stack'[u]) = Len(stack[u])
         /\ \A i \in 1..Len(stack[u]) :
              /\ stack'[u][i].owner = Owner(u, i)
              /\ stack'[u][i].transaction = stack[u][i].transaction
              /\ stack'[u][i].root = stack[u][i].root
              /\ stack'[u][i].complete <=> (Owner(u, i) = s \/ stack[u][i].complete)
<1>1. stack[u] \in Seq(Entries)
  BY DEF TypeOK
<1>2. stack'[u] = [i \in 1..Len(stack[u]) |->
         IF stack[u][i].owner = s THEN [stack[u][i] EXCEPT !.complete = TRUE]
         ELSE stack[u][i]]
  BY <1>1 DEF Complete
<1>3. Len(stack'[u]) = Len(stack[u])
  BY <1>1, <1>2
<1>4. ASSUME NEW x \in Entries
      PROVE  /\ [x EXCEPT !.complete = TRUE].owner = x.owner
             /\ [x EXCEPT !.complete = TRUE].transaction = x.transaction
             /\ [x EXCEPT !.complete = TRUE].root = x.root
             /\ [x EXCEPT !.complete = TRUE].complete
  BY DEF Entries
<1>5. ASSUME NEW i \in 1..Len(stack[u])
      PROVE  /\ stack'[u][i].owner = Owner(u, i)
             /\ stack'[u][i].transaction = stack[u][i].transaction
             /\ stack'[u][i].root = stack[u][i].root
             /\ stack'[u][i].complete <=> (Owner(u, i) = s \/ stack[u][i].complete)
  <2>1. stack[u][i] \in Entries
    BY <1>1
  <2>2. stack'[u][i] = IF stack[u][i].owner = s THEN [stack[u][i] EXCEPT !.complete = TRUE]
                       ELSE stack[u][i]
    BY <1>2
  <2> QED
    BY <1>4, <2>1, <2>2 DEF Owner
<1> QED
  BY <1>3, <1>5

(***************************************************************************)
(* Only the disposal of a completed outermost TransactionScope commits,    *)
(* and never a transaction that was rolled back.                           *)
(***************************************************************************)
LEMMA LedgerStep ==
  ASSUME Shaped, ~NestedOnOnePolicy, [Next]_vars
  PROVE  Ledger'
<1>0. TypeOK /\ Stacks /\ Ledger
  BY DEF Shaped
<1>1. CASE UNCHANGED vars
  BY <1>0, <1>1 DEF vars, Ledger
<1>2. ASSUME NEW s \in Scopes, Acts(s), UNCHANGED <<thread, policy>>
      PROVE  Ledger'
  <2>0. PICK t \in Threads : t = thread[s]
    BY <1>0 DEF TypeOK
  <2> DEFINE Grows == transactions' \in Nat /\ transactions <= transactions'
  <2>1. Grows => 1..transactions \subseteq 1..transactions'
    BY <1>0 DEF TypeOK
  <2>2. CASE Recycle(s)
    <3>1. PICK q, h : Unwound(t, q, s, h) /\ Dropped(t, h)
      BY <2>0, <2>2, RecycleEffect
    <3>2. transactions' = transactions
      BY <3>1 DEF Dropped
    <3>3. Grows
      BY <1>0, <3>2 DEF TypeOK
    <3>4. committed' = committed
      BY <3>1 DEF Unwound
    <3>5. aborted' = aborted \/ (aborted' = aborted \cup {Tx(t)} /\ Tx(t) \notin committed)
      <4>1. CASE Absent(t, q, h)
        BY <4>1 DEF Absent
      <4>2. CASE RolledBack(t, q, h)
        <5>1. h + 1 \in 1..Len(stack[t])
          BY <1>0, <3>1, <4>2 DEF RolledBack, Unwound, TypeOK
        <5> QED
          BY <1>0, <4>2, <5>1, TransactionsOf DEF RolledBack
      <4> QED
        BY <3>1, <4>1, <4>2 DEF Unwound
    <3> QED
      BY <1>0, <2>1, <3>3, <3>4, <3>5 DEF Ledger
  <2>3. CASE Dispose(s)
    <3>1. PICK h : Unused(t, s, h) /\ Dropped(t, h)
      BY <2>0, <2>3, DisposeScopeEffect
    <3>2. transactions' = transactions
      BY <3>1 DEF Dropped
    <3>3. h < Len(stack[t]) => Tx(t) \in 1..transactions /\ Tx(t) \notin committed
      <4> SUFFICES ASSUME h < Len(stack[t])
                   PROVE  Tx(t) \in 1..transactions /\ Tx(t) \notin committed
        OBVIOUS
      <4>1. h + 1 \in 1..Len(stack[t])
        BY <1>0, <3>1 DEF Unused, TypeOK
      <4> QED
        BY <1>0, <4>1, TransactionsOf
    <3>4. \/ UNCHANGED <<committed, aborted>>
          \/ /\ h < Len(stack[t])
             /\ \/ /\ committed' = committed
                   /\ aborted' = aborted \/ aborted' = aborted \cup {Tx(t)}
                \/ /\ committed' = committed \cup {Tx(t)}
                   /\ aborted' = aborted /\ Tx(t) \notin aborted
      BY <3>1 DEF Unused, Absent, Closed, RolledBack
    <3> QED
      BY <1>0, <3>2, <3>3, <3>4 DEF Ledger
  <2>4. CASE Construct(s)
    <3>1. committed' = committed /\ aborted' = aborted
      BY <2>4 DEF Construct
    <3>2. transactions' = transactions \/ transactions' = transactions + 1
      BY <2>4 DEF Construct, Begun
    <3>3. Grows
      BY <1>0, <3>2 DEF TypeOK
    <3> QED
      BY <1>0, <2>1, <3>1, <3>3 DEF Ledger
  <2>5. CASE Renew(s)
    <3>1. committed' = committed /\ aborted' = aborted
      BY <2>5 DEF Renew
    <3>2. transactions' = transactions \/ transactions' = transactions + 1
      BY <2>5 DEF Renew, Begun
    <3>3. Grows
      BY <1>0, <3>2 DEF TypeOK
    <3> QED
      BY <1>0, <2>1, <3>1, <3>3 DEF Ledger
  <2>6. CASE ~Recycle(s) /\ ~Renew(s) /\ ~Dispose(s) /\ ~Construct(s)
    <3>1. UNCHANGED <<committed, aborted, transactions>>
      BY <1>2, <2>6 DEF Acts, ScopeStep, InvokeUnitOfWork, WorkSucceeds, WorkFails,
           WorkQuits, Retry, Complete
    <3> QED
      BY <1>0, <3>1 DEF Ledger
  <2> QED
    BY <2>2, <2>3, <2>4, <2>5, <2>6
<1> QED
  BY <1>1, <1>2 DEF Next, Acts

(***************************************************************************)
(* Every step keeps the stacks sound.                                      *)
(***************************************************************************)
LEMMA StacksStep ==
  ASSUME Shaped, ~NestedOnOnePolicy, [Next]_vars
  PROVE  Stacks'
<1>0. TypeOK /\ Stacks /\ Ledger
  BY DEF Shaped
<1>1. CASE UNCHANGED vars
  BY <1>0, <1>1 DEF vars, Stacks, Sound, Owner, Tx
<1>2. ASSUME NEW s \in Scopes, Acts(s), UNCHANGED <<thread, policy>>
      PROVE  Stacks'
  <2>0. PICK t \in Threads : t = thread[s]
    BY <1>0 DEF TypeOK
  <2>1. \A v \in Scopes : pc[v] # "new" => pc'[v] # "new"
    BY <1>0, <1>2, Moves
  <2>2. /\ \A u \in Threads : Len(stack[u]) \in Nat
        /\ \A u \in Threads : \A i \in 1..Len(stack[u]) :
             stack[u][i].transaction = Tx(u) /\ Tx(u) \notin committed
    <3>1. \A u \in Threads : Len(stack[u]) \in Nat
      BY <1>0 DEF TypeOK
    <3>2. ASSUME NEW u \in Threads, NEW i \in 1..Len(stack[u])
          PROVE  stack[u][i].transaction = Tx(u) /\ Tx(u) \notin committed
      BY <1>0, TransactionsOf
    <3> QED
      BY <3>1, <3>2
  <2>3. ASSUME NEW h \in 0..Len(stack[t]), Dropped(t, h),
               committed' = committed \/ (h = 0 /\ h < Len(stack[t]) /\ committed' = committed \cup {Tx(t)})
        PROVE  Stacks'
    <3>1. ASSUME NEW u \in Threads
          PROVE  /\ Len(stack'[u]) <= Len(stack[u]) /\ Len(stack'[u]) \in Nat
                 /\ \A i \in 1..Len(stack'[u]) :
                      /\ i \in 1..Len(stack[u])
                      /\ stack'[u][i] = stack[u][i]
      <4>1. CASE u = t
        BY <2>2, <2>3, <4>1 DEF Dropped, Kept
      <4>2. CASE u # t
        BY <2>2, <2>3, <4>2 DEF Dropped, Kept
      <4> QED
        BY <4>1, <4>2
    <3>2. ASSUME NEW u \in Threads, NEW i \in 1..Len(stack'[u])
          PROVE  stack'[u][i].transaction \notin committed'
      <4>1. i \in 1..Len(stack[u]) /\ stack'[u][i].transaction = Tx(u) /\ Tx(u) \notin committed
        BY <2>2, <3>1
      <4>2. CASE committed' = committed
        BY <4>1, <4>2
      <4>3. CASE h = 0 /\ h < Len(stack[t]) /\ committed' = committed \cup {Tx(t)}
        <5>1. u # t
          BY <2>3, <4>3 DEF Dropped
        <5>2. 1 \in 1..Len(stack[t])
          BY <2>2, <4>3
        <5>3. stack[u][i].transaction # stack[t][1].transaction
          BY <1>0, <4>1, <5>1, <5>2 DEF Stacks
        <5> QED
          BY <4>1, <4>3, <5>3, <3>1 DEF Tx
      <4> QED
        BY <2>3, <4>2, <4>3
    <3>3. transactions' = transactions
      BY <2>3 DEF Dropped
    <3> QED
      BY <1>0, <2>1, <3>1, <3>2, <3>3, StacksShrink DEF Owner
  <2>4. CASE Construct(s)
    <3>1. Renewed(t, Len(stack[t]), s) /\ Len(stack[t]) \in 0..Len(stack[t])
      BY <1>0, <2>0, <2>2, <2>4, ConstructEffect
    <3>2. committed' = committed /\ pc[s] = "new" /\ pc'[s] # "new"
      BY <1>0, <1>2, <2>4, Moves DEF Construct
    <3>3. \A u \in Threads : \A i \in 1..Len(stack[u]) : Owner(u, i) # s
      BY <1>0, <3>2 DEF Stacks, Sound
    <3> QED
      BY <1>0, <2>1, <3>1, <3>2, <3>3, StacksRenewed
  <2>5. CASE Recycle(s)
    <3>1. PICK q, h : Unwound(t, q, s, h) /\ Dropped(t, h)
      BY <2>0, <2>5, RecycleEffect
    <3>2. h \in 0..Len(stack[t]) /\ committed' = committed
      BY <3>1 DEF Unwound
    <3> QED
      BY <2>3, <3>1, <3>2
  <2>9. CASE Renew(s)
    <3>1. PICK q \in Scopes :
            /\ pc[q] # "new"
            /\ \A u \in Threads : \A i \in 1..Len(stack[u]) : Owner(u, i) # q
            /\ Renewed(t, Len(stack[t]), q) \/ UNCHANGED <<stack, transactions>>
            /\ committed' = committed
      BY <2>0, <2>9, RenewEffect
    <3>2. Len(stack[t]) \in 0..Len(stack[t])
      BY <2>2
    <3>3. CASE Renewed(t, Len(stack[t]), q)
      BY <1>0, <2>1, <3>1, <3>2, <3>3, StacksRenewed
    <3>4. CASE UNCHANGED <<stack, transactions>>
      BY <1>0, <2>1, <2>2, <3>1, <3>4, StacksShrink DEF Owner
    <3> QED
      BY <3>1, <3>3, <3>4
  <2>6. CASE Dispose(s)
    <3>1. PICK h : Unused(t, s, h) /\ Dropped(t, h)
      BY <2>0, <2>6, DisposeScopeEffect
    <3>2. h \in 0..Len(stack[t])
      BY <3>1 DEF Unused
    <3>3. committed' = committed \/ (h = 0 /\ h < Len(stack[t]) /\ committed' = committed \cup {Tx(t)})
      BY <3>1 DEF Unused, Absent, Closed, RolledBack
    <3> QED
      BY <2>3, <3>1, <3>2, <3>3
  <2>7. CASE Complete(s)
    <3>1. committed' = committed /\ transactions' = transactions
      BY <2>7 DEF Complete
    <3>2. ASSUME NEW u \in Threads
          PROVE  /\ Len(stack'[u]) = Len(stack[u])
                 /\ \A i \in 1..Len(stack'[u]) :
                      /\ stack'[u][i].owner = Owner(u, i)
                      /\ stack'[u][i].transaction = stack[u][i].transaction
                      /\ stack'[u][i].root = stack[u][i].root
      BY <1>0, <2>7, CompletePointwise
    <3> QED
      BY <1>0, <2>1, <2>2, <3>1, <3>2, StacksShrink
  <2>8. CASE ~Construct(s) /\ ~Recycle(s) /\ ~Renew(s) /\ ~Dispose(s) /\ ~Complete(s)
    <3>1. UNCHANGED <<stack, committed, transactions>>
      BY <1>2, <2>8 DEF Acts, ScopeStep, InvokeUnitOfWork, WorkSucceeds, WorkFails,
           WorkQuits, Retry
    <3> QED
      BY <1>0, <2>1, <2>2, <3>1, StacksShrink DEF Owner
  <2> QED
    BY <2>4, <2>5, <2>6, <2>7, <2>8, <2>9
<1> QED
  BY <1>1, <1>2 DEF Next, Acts

(***************************************************************************)
(* Without a race, every step keeps the field of a scope to the one thread *)
(* that is renewing it.                                                    *)
(***************************************************************************)
LEMMA RenewalsStep ==
  ASSUME Shaped, ~NestedOnOnePolicy, [Next]_vars, ~raced'
  PROVE  Renewals'
<1>0. TypeOK /\ InUse /\ Subscribed /\ Stacks /\ Renewals
  BY DEF Shaped
<1>1. CASE UNCHANGED vars
  BY <1>0, <1>1 DEF vars, Renewals, RenewedElsewhere, Recycled, Owner
<1>2. ASSUME NEW s \in Scopes, Acts(s), UNCHANGED <<thread, policy>>
      PROVE  Renewals'
  <2>0. PICK t \in Threads : t = thread[s]
    BY <1>0 DEF TypeOK
  <2>1. \A v \in Scopes \ {s} : pc'[v] = pc[v] /\ pending'[v] = pending[v]
    BY <1>0, <1>2, Moves
  <2>2. ASSUME NEW v \in Scopes, pc[v] = "renewing"
        PROVE  /\ pending[v] # <<>> /\ pending[v][1] \in Scopes
               /\ pc[pending[v][1]] # "new"
               /\ \A u \in Threads : \A i \in 1..Len(stack[u]) : Owner(u, i) # pending[v][1]
               /\ \A r \in Scopes \ {v} : pc[r] = "renewing" => pending[r][1] # pending[v][1]
    <3>1. pending[v] # <<>> /\ pending[v] \in Seq(Scopes)
      BY <1>0, <2>2 DEF Renewals, TypeOK
    <3>2. 1 \in 1..Len(pending[v])
      BY <3>1
    <3>3. pc[pending[v][1]] # "new" /\ pending[v][1] \in Scopes
      BY <1>0, <3>1, <3>2 DEF Subscribed
    <3>4. \A r \in Scopes : pc[r] = "renewing" => pending[r] # <<>>
      BY <1>0 DEF Renewals
    <3> QED
      BY <1>0, <2>2, <3>1, <3>3, <3>4 DEF Renewals, RenewedElsewhere, Recycled
  \* It suffices that no entry of a renewed scope appears, and that s is not
  \* the second one to renew a scope.
  <2>3. ASSUME \A v \in Scopes : pc'[v] = "renewing" =>
                 /\ pending'[v] # <<>>
                 /\ \A u \in Threads : \A i \in 1..Len(stack'[u]) :
                      stack'[u][i].owner # pending'[v][1],
               \A v \in Scopes \ {s} :
                 pc'[v] = "renewing" /\ pc'[s] = "renewing" => pending'[v][1] # pending'[s][1]
        PROVE  Renewals'
    <3>1. ASSUME NEW v \in Scopes, pc'[v] = "renewing",
                 NEW r \in Scopes \ {v}, pc'[r] = "renewing"
          PROVE  pending'[r][1] # pending'[v][1]
      <4>1. CASE r # s /\ v # s
        BY <2>1, <2>2, <3>1, <4>1
      <4>2. CASE r = s \/ v = s
        BY <2>3, <3>1, <4>2
      <4> QED
        BY <4>1, <4>2
    <3> QED
      BY <2>3, <3>1 DEF Renewals, RenewedElsewhere, Recycled, Owner
  <2>4. CASE Construct(s)
    <3>1. /\ Renewed(t, Len(stack[t]), s) /\ pc[s] = "new" /\ pc'[s] = "built"
          /\ Len(stack[t]) \in Nat
      <4>1. Renewed(t, Len(stack[t]), s)
        BY <1>0, <2>0, <2>4, ConstructEffect
      <4>2. pc[s] = "new" /\ pc'[s] = "built" /\ Len(stack[t]) \in Nat
        BY <1>0, <2>4 DEF Construct, TypeOK
      <4> QED
        BY <4>1, <4>2
    <3>2. ASSUME NEW u \in Threads, NEW i \in 1..Len(stack'[u])
          PROVE  stack'[u][i].owner = s \/ (i \in 1..Len(stack[u]) /\ stack'[u][i] = stack[u][i])
      BY <3>1 DEF Renewed, Kept
    <3> QED
      BY <2>1, <2>2, <2>3, <3>1, <3>2 DEF Owner
  <2>5. CASE Recycle(s)
    <3>1. PICK q, h :
            /\ q = Recycled(s)
            /\ Unwound(t, q, s, h) /\ Dropped(t, h)
            /\ \/ /\ ~DisposeThrows(t, q)
                  /\ pc' = [pc EXCEPT ![s] = "renewing"]
                  /\ raced' = (raced \/ RenewedElsewhere(s))
                  /\ UNCHANGED <<pending, result>>
               \/ DisposeThrows(t, q) /\ Interrupt(s)
      BY <2>0, <2>5, RecycleEffect
    <3>2. ASSUME NEW u \in Threads, NEW i \in 1..Len(stack'[u])
          PROVE  /\ i \in 1..Len(stack[u]) /\ stack'[u][i] = stack[u][i]
                 /\ u = t => i <= h
      <4>1. h \in 0..Len(stack[t]) /\ Len(stack[t]) \in Nat
        BY <1>0, <3>1 DEF Unwound, TypeOK
      <4> QED
        BY <3>1, <4>1 DEF Dropped, Kept
    <3>3. CASE pc' = [pc EXCEPT ![s] = "renewing"] /\ ~DisposeThrows(t, q)
      <4>1. pending[s] # <<>> /\ pending' = pending /\ raced' = (raced \/ RenewedElsewhere(s))
        <5>1. pc'[s] = "renewing"
          BY <1>0, <3>3 DEF TypeOK
        <5>2. UNCHANGED pending /\ raced' = (raced \/ RenewedElsewhere(s))
          BY <3>1, <3>3
        <5> QED
          BY <2>5, <5>2 DEF Recycle
      <4>2. q = pending[s][1] /\ q \in Scopes
        BY <1>0, <3>1, <4>1 DEF Recycled, Unwound, TypeOK
      <4>3. \A v \in Scopes \ {s} : pc[v] = "renewing" => pending[v][1] # pending[s][1]
        <5>1. ~RenewedElsewhere(s)
          BY <4>1
        <5>2. \A v \in Scopes : pc[v] = "renewing" => Recycled(v) = pending[v][1]
          BY <2>2 DEF Recycled
        <5> QED
          BY <3>1, <4>2, <5>1, <5>2 DEF RenewedElsewhere
      <4>4. ASSUME NEW u \in Threads, NEW i \in 1..Len(stack'[u]), stack'[u][i].owner = q
            PROVE  FALSE
        <5>1. i \in 1..Len(stack[u]) /\ Owner(u, i) = q /\ (u = t => i <= h)
          BY <3>2, <4>4 DEF Owner
        <5>2. CASE Absent(t, q, h)
          <6>1. i \in Position(u, q)
            BY <1>0, <5>1 DEF Position, TypeOK, Owner
          <6> QED
            BY <3>3, <5>2, <6>1 DEF Absent, Live
        <5>3. CASE RolledBack(t, q, h)
          <6>1. h + 1 \in 1..Len(stack[t]) /\ Owner(t, h + 1) = q
            BY <1>0, <3>1, <5>3 DEF RolledBack, Unwound, TypeOK
          <6>2. u = t /\ i = h + 1
            BY <1>0, <5>1, <6>1 DEF Stacks
          <6> QED
            BY <3>1, <5>1, <6>2 DEF Unwound
        <5> QED
          BY <3>1, <5>2, <5>3 DEF Unwound
      <4> QED
        BY <2>1, <2>2, <2>3, <3>2, <4>1, <4>2, <4>3, <4>4 DEF Owner
    <3>4. CASE Interrupt(s)
      <4>1. pc'[s] = "failed"
        BY <1>0, <3>4 DEF Interrupt, TypeOK
      <4> QED
        BY <2>1, <2>2, <2>3, <3>2, <4>1 DEF Owner
    <3> QED
      BY <3>1, <3>3, <3>4
  <2>6. CASE Renew(s)
    <3>1. PICK q \in Scopes :
            /\ q = Recycled(s)
            /\ \/ /\ Renewed(t, Len(stack[t]), q)
                  /\ pc' = [pc EXCEPT ![s] = "retrying"]
               \/ Interrupt(s) /\ UNCHANGED stack
      BY <2>0, <2>6, RenewEffect
    <3>2. pc[s] = "renewing" /\ q = pending[s][1] /\ Len(stack[t]) \in Nat
      BY <1>0, <2>6, <3>1 DEF Renew, Recycled, TypeOK
    <3>3. pc'[s] # "renewing"
      BY <1>0, <3>1 DEF Interrupt, TypeOK
    <3>4. ASSUME NEW u \in Threads, NEW i \in 1..Len(stack'[u])
          PROVE  stack'[u][i].owner = q \/ (i \in 1..Len(stack[u]) /\ stack'[u][i] = stack[u][i])
      BY <3>1, <3>2 DEF Renewed, Kept
    <3>5. \A v \in Scopes \ {s} : pc[v] = "renewing" => pending[v][1] # q
      BY <2>2, <3>2
    <3> QED
      BY <2>1, <2>2, <2>3, <3>3, <3>4, <3>5 DEF Owner
  <2>7. CASE Complete(s)
    <3>1. ASSUME NEW u \in Threads, NEW i \in 1..Len(stack'[u])
          PROVE  i \in 1..Len(stack[u]) /\ stack'[u][i].owner = Owner(u, i)
      BY <1>0, <2>7, CompletePointwise
    <3>2. pc'[s] # "renewing"
      BY <1>0, <2>7 DEF Complete, TypeOK
    <3> QED
      BY <2>1, <2>2, <2>3, <3>1, <3>2
  <2>8. CASE Dispose(s)
    <3>1. PICK h : Unused(t, s, h) /\ Dropped(t, h)
      BY <2>0, <2>8, DisposeScopeEffect
    <3>2. ASSUME NEW u \in Threads, NEW i \in 1..Len(stack'[u])
          PROVE  i \in 1..Len(stack[u]) /\ stack'[u][i] = stack[u][i]
      <4>1. h \in 0..Len(stack[t]) /\ Len(stack[t]) \in Nat
        BY <1>0, <3>1 DEF Unused, TypeOK
      <4> QED
        BY <3>1, <4>1 DEF Dropped, Kept
    <3>3. pc'[s] # "renewing"
      BY <1>0, <2>8 DEF Dispose, TypeOK
    <3> QED
      BY <2>1, <2>2, <2>3, <3>2, <3>3 DEF Owner
  <2>9. CASE InvokeUnitOfWork(s) \/ WorkSucceeds(s) \/ WorkFails(s) \/ WorkQuits(s) \/ Retry(s)
    <3>1. stack' = stack
      BY <2>9 DEF InvokeUnitOfWork, WorkSucceeds, WorkFails, WorkQuits, Retry
    <3>2. pc'[s] # "renewing"
      BY <1>0, <2>9 DEF InvokeUnitOfWork, WorkSucceeds, WorkFails, WorkQuits, Retry, TypeOK
    <3> QED
      BY <2>1, <2>2, <2>3, <3>1, <3>2 DEF Owner
  <2> QED
    BY <1>2, <2>4, <2>5, <2>6, <2>7, <2>8, <2>9 DEF Acts, ScopeStep
<1> QED
  BY <1>1, <1>2 DEF Next, Acts

-----------------------------------------------------------------------------
(* Every action keeps the blocks.                                          *)

(***************************************************************************)
(* What the invariant says of thread t, for a scope s that it runs: the    *)
(* scopes around s are on other policies, at work, and have their blocks.  *)
(***************************************************************************)
LEMMA TopBlock ==
  ASSUME Shaped, ~NestedOnOnePolicy, NEW s \in Scopes, Running(s),
         NEW t \in Threads, t = thread[s]
  PROVE  /\ BlocksOf(t)
         /\ active[t] \in Seq(Scopes) /\ Len(active[t]) \in 1..Len(active[t])
         /\ active[t][Len(active[t])] = s
         /\ \A k \in 1..Len(active[t]) :
              k < Len(active[t]) => /\ active[t][k] \in Scopes \ {s}
                                    /\ policy[active[t][k]] # policy[s]
                                    /\ pc[active[t][k]] = "work"
                                    /\ Anchored(t, active[t][k])
<1>1. TypeOK /\ InUse /\ BlocksOf(t)
  BY DEF Shaped, Blocks
<1>2. /\ active[t] \in Seq(Scopes) /\ Len(active[t]) \in 1..Len(active[t])
      /\ active[t][Len(active[t])] = s
  BY <1>1 DEF TypeOK, Running
<1>3. ASSUME NEW k \in 1..Len(active[t]), k < Len(active[t])
      PROVE  /\ active[t][k] \in Scopes \ {s}
             /\ policy[active[t][k]] # policy[s]
             /\ pc[active[t][k]] = "work"
             /\ Anchored(t, active[t][k])
  <2>1. policy[active[t][k]] # policy[s]
    BY <1>1, <1>2, <1>3, Separate
  <2>2. pc[active[t][k]] = "work"
    BY <1>1, <1>3 DEF InUse
  <2>3. ~Blockless(active[t][k])
    BY <2>2 DEF Blockless
  <2>4. Anchored(t, active[t][k])
    BY <1>1, <2>3 DEF BlocksOf
  <2>5. active[t][k] \in Scopes \ {s}
    BY <1>2, <2>1
  <2> QED
    BY <2>1, <2>2, <2>4, <2>5
<1> QED
  BY <1>1, <1>2, <1>3

(***************************************************************************)
(* Complete marks the TransactionScope of s alone, and s with it.          *)
(***************************************************************************)
LEMMA BlocksComplete ==
  ASSUME Shaped, NEW s \in Scopes, Complete(s), UNCHANGED <<thread, policy>>
  PROVE  Blocks' /\ pc'[s] = "completed"
<1>0. PICK t \in Threads : t = thread[s]
  BY DEF Shaped, TypeOK
<1>1. TypeOK /\ InUse /\ Stacks /\ Blocks /\ stack[t] \in Seq(Entries) /\ active[t] \in Seq(Scopes)
  BY DEF Shaped, TypeOK
<1>2. Running(s) /\ pc[s] = "worked"
  BY <1>1, RunsLast DEF Complete
<1>3. PICK a \in 1..Len(stack[t]) : Anchor(t, a, s)
  BY <1>0, <1>2, RunningBlock DEF Anchored, Blockless
<1>4. a \in Position(t, s)
  BY <1>1, <1>3 DEF Position, Anchor, Owner
<1>5. Live(s)
  BY <1>4 DEF Live
<1>6. /\ pc'[s] = "completed" /\ \A v \in Scopes \ {s} : pc'[v] = pc[v]
      /\ active' = active /\ pending' = pending
  BY <1>1, <1>5 DEF Complete, TypeOK
<1>7. ASSUME NEW u \in Threads
      PROVE  /\ Len(stack'[u]) = Len(stack[u])
             /\ \A i \in 1..Len(stack[u]) :
                  /\ stack'[u][i].owner = Owner(u, i)
                  /\ stack'[u][i].complete <=> (Owner(u, i) = s \/ stack[u][i].complete)
                  /\ Owner(u, i) \in Scopes
  BY <1>1, CompletePointwise, OwnerTyped
<1>8. ASSUME NEW u \in Threads
      PROVE  BlocksOf(u)'
  <2>1. BlocksOf(u) /\ active[u] \in Seq(Scopes)
    BY <1>1 DEF Blocks, TypeOK
  <2>2. ASSUME NEW i \in 1..Len(stack[u])
        PROVE  Covered(u, i)' /\ (stack'[u][i].complete => pc'[Owner(u, i)'] = "completed")
    <3>0. PICK k \in 1..Len(active[u]) : policy[Owner(u, i)] = policy[active[u][k]]
      BY <2>1 DEF BlocksOf, Covered
    <3>4. active'[u] = active[u] /\ policy' = policy /\ stack'[u][i].owner = Owner(u, i)
      BY <1>6, <1>7
    <3>1. Covered(u, i)'
      BY <3>0, <3>4 DEF Covered, Owner
    <3>2. stack[u][i].complete => pc[Owner(u, i)] = "completed"
      BY <2>1 DEF BlocksOf
    <3>3. stack'[u][i].complete => pc'[Owner(u, i)] = "completed"
      BY <1>6, <1>7, <3>2
    <3> QED
      BY <1>7, <3>1, <3>3 DEF Owner
  <2>3. ASSUME NEW i \in 1..Len(stack[u]), NEW j \in 1..Len(stack[u]),
               NEW k \in 1..Len(active[u]), NEW l \in 1..Len(active[u]),
               k < l,
               policy[Owner(u, i)] = policy[active[u][k]],
               policy[Owner(u, j)] = policy[active[u][l]]
        PROVE  i < j
    BY <2>1, <2>3 DEF BlocksOf
  <2>4. ASSUME NEW k \in 1..Len(active[u])
        PROVE  Anchored(u, active[u][k])' \/ (Blockless(active[u][k]) /\ Cleared(u, active[u][k]))'
    <3> DEFINE v == active[u][k]
    <3>0. v \in Scopes /\ active'[u][k] = v
      BY <1>6, <2>1
    <3>1. CASE v = s
      <4>1. u = t
        BY <1>0, <1>1, <3>1 DEF InUse
      <4>2. Anchor(t, a, s)'
        <5>1. stack'[t][a].owner = s /\ stack'[t][a].complete
          BY <1>3, <1>7 DEF Anchor
        <5>2. \A j \in 1..Len(stack'[t]) : policy'[stack'[t][j].owner] = policy'[s] => a <= j
          BY <1>3, <1>7 DEF Anchor
        <5> QED
          BY <1>6, <5>1, <5>2 DEF Anchor, Owner
      <4> QED
        BY <1>3, <1>7, <3>0, <3>1, <4>1, <4>2 DEF Anchored
    <3>2. CASE v # s
      <4>1. pc'[v] = pc[v]
        BY <1>6, <3>0, <3>2
      <4>2. CASE Anchored(u, v)
        <5>1. PICK b \in 1..Len(stack[u]) : Anchor(u, b, v)
          BY <4>2 DEF Anchored
        <5>2. Anchor(u, b, v)'
          <6>1. stack'[u][b].owner = v /\ (stack'[u][b].complete <=> stack[u][b].complete)
            BY <1>7, <3>2, <5>1 DEF Anchor
          <6>2. \A j \in 1..Len(stack'[u]) : policy'[stack'[u][j].owner] = policy'[v] => b <= j
            BY <1>7, <5>1 DEF Anchor
          <6> QED
            BY <3>0, <4>1, <5>1, <6>1, <6>2 DEF Anchor, Owner
        <5> QED
          BY <1>7, <3>0, <5>2 DEF Anchored
      <4>3. CASE Blockless(v) /\ Cleared(u, v)
        BY <1>6, <1>7, <3>0, <4>1, <4>3 DEF Cleared, Owner, Blockless, Recycled
      <4> QED
        BY <2>1, <4>2, <4>3 DEF BlocksOf
    <3> QED
      BY <3>1, <3>2
  <2>5. ASSUME NEW i \in 1..Len(stack'[u]), NEW j \in 1..Len(stack'[u]),
               NEW k \in 1..Len(active'[u]), NEW l \in 1..Len(active'[u]),
               k < l,
               policy'[stack'[u][i].owner] = policy'[active'[u][k]],
               policy'[stack'[u][j].owner] = policy'[active'[u][l]]
        PROVE  i < j
    <3>1. /\ i \in 1..Len(stack[u]) /\ stack'[u][i].owner = Owner(u, i)
          /\ j \in 1..Len(stack[u]) /\ stack'[u][j].owner = Owner(u, j)
      BY <1>7
    <3> QED
      BY <1>6, <2>3, <2>5, <3>1, SMTT(30)
  <2>6. \A i \in 1..Len(stack'[u]) :
          Covered(u, i)' /\ (stack'[u][i].complete => pc'[Owner(u, i)'] = "completed")
    BY <1>7, <2>2
  <2>7. \A k \in 1..Len(active'[u]) :
          Anchored(u, active[u][k])' \/ (Blockless(active[u][k]) /\ Cleared(u, active[u][k]))'
    BY <1>6, <2>4
  <2> QED
    BY <2>5, <2>6, <2>7 DEF BlocksOf, Owner
<1> QED
  BY <1>6, <1>8 DEF Blocks

(***************************************************************************)
(* Construction opens a block on top, on a policy that no scope around it  *)
(* has.                                                                    *)
(***************************************************************************)
LEMMA BlocksConstruct ==
  ASSUME Shaped, ~NestedOnOnePolicy', NEW s \in Scopes, Construct(s),
         UNCHANGED <<thread, policy>>
  PROVE  Blocks'
<1>0. PICK t \in Threads : t = thread[s]
  BY DEF Shaped, TypeOK
<1>1. TypeOK /\ InUse /\ Stacks /\ BlocksOf(t) /\ stack[t] \in Seq(Entries) /\ active[t] \in Seq(Scopes)
  BY DEF Shaped, TypeOK, Blocks
<1>2. /\ pc[s] = "new" /\ pc'[s] = "built" /\ \A v \in Scopes \ {s} : pc'[v] = pc[v]
      /\ pending' = pending
      /\ active'[t] = Append(active[t], s)
      /\ \A u \in Threads \ {t} : active'[u] = active[u]
      /\ within'[s] = ToSet(active[t])
  BY <1>0, <1>1 DEF Construct, TypeOK
<1>3. PICK h, n \in Nat : h = Len(stack[t]) /\ n = Len(active[t])
  BY <1>1
<1>4. /\ Len(stack'[t]) = h + 1
      /\ stack'[t][h + 1].owner = s /\ stack'[t][h + 1].complete = FALSE
      /\ \A i \in 1..h : stack'[t][i] = stack[t][i]
      /\ \A u \in Threads \ {t} : stack'[u] = stack[u]
  <2>1. Renewed(t, h, s)
    BY <1>0, <1>1, <1>3, ConstructEffect
  <2> QED
    BY <1>1, <1>3, <2>1 DEF Renewed, Kept
<1>5. /\ Len(active'[t]) = n + 1 /\ active'[t][n + 1] = s
      /\ \A k \in 1..n : active'[t][k] = active[t][k] /\ active[t][k] \in Scopes
  BY <1>1, <1>2, <1>3
<1>6. \A k \in 1..n : policy[active[t][k]] # policy[s] /\ active[t][k] # s
  <2>1. ToSet(active[t]) = {active[t][k] : k \in 1..n}
    BY <1>1, <1>3, ToSetTyped
  <2>2. \A k \in 1..n : active[t][k] \in within'[s] /\ active[t][k] \in Scopes
    BY <1>2, <1>5, <2>1
  <2>3. \A k \in 1..n : active[t][k] # s
    BY <1>1, <1>2, <1>3 DEF InUse
  <2> QED
    BY <2>2, <2>3 DEF NestedOnOnePolicy
<1>7. \A i \in 1..h : /\ Owner(t, i) \in Scopes /\ Owner(t, i) # s
                      /\ policy[Owner(t, i)] # policy[s]
                      /\ stack'[t][i].owner = Owner(t, i)
  <2>1. \A i \in 1..h : Owner(t, i) \in Scopes /\ Owner(t, i) # s
    BY <1>1, <1>2, <1>3, OwnerTyped DEF Stacks, Sound
  <2>2. \A i \in 1..h : policy[Owner(t, i)] # policy[s]
    BY <1>1, <1>3, <1>6 DEF BlocksOf, Covered
  <2> QED
    BY <1>4, <2>1, <2>2 DEF Owner
<1>8. \A i \in 1..Len(stack'[t]) : i \in 1..h \/ i = h + 1
  BY <1>4
<1>9. \A k \in 1..Len(active'[t]) : k \in 1..n \/ k = n + 1
  BY <1>5
<1>10. ASSUME NEW i \in 1..Len(stack'[t])
       PROVE  Covered(t, i)' /\ (stack'[t][i].complete => pc'[Owner(t, i)'] = "completed")
  <2>1. CASE i \in 1..h
    <3>1. PICK k \in 1..n : policy[Owner(t, i)] = policy[active[t][k]]
      BY <1>1, <2>1, <1>3 DEF BlocksOf, Covered
    <3>2. k \in 1..Len(active'[t]) /\ active'[t][k] = active[t][k]
      BY <1>5
    <3>3. Covered(t, i)'
      BY <1>7, <2>1, <3>1, <3>2 DEF Covered, Owner
    <3>4. stack[t][i].complete => pc[Owner(t, i)] = "completed"
      BY <1>1, <2>1, <1>3 DEF BlocksOf
    <3> QED
      BY <1>2, <1>4, <1>7, <2>1, <3>3, <3>4 DEF Owner
  <2>2. CASE i = h + 1
    <3>1. n + 1 \in 1..Len(active'[t])
      BY <1>5
    <3> QED
      BY <1>4, <1>5, <2>2, <3>1 DEF Covered, Owner
  <2> QED
    BY <1>8, <2>1, <2>2
<1>11. ASSUME NEW i \in 1..Len(stack'[t]), NEW j \in 1..Len(stack'[t]),
              NEW k \in 1..Len(active'[t]), NEW l \in 1..Len(active'[t]),
              k < l,
              policy[stack'[t][i].owner] = policy[active'[t][k]],
              policy[stack'[t][j].owner] = policy[active'[t][l]]
       PROVE  i < j
  <2>1. k \in 1..n
    BY <1>5, <1>11
  <2>2. i \in 1..h
    BY <1>4, <1>5, <1>6, <1>8, <1>11, <2>1, SMTT(30)
  <2>3. CASE l \in 1..n /\ j \in 1..h
    <3>1. /\ policy[Owner(t, i)] = policy[active[t][k]]
          /\ policy[Owner(t, j)] = policy[active[t][l]]
      BY <1>5, <1>7, <1>11, <2>1, <2>2, <2>3
    <3> QED
      BY <1>1, <1>3, <1>11, <2>1, <2>2, <2>3, <3>1 DEF BlocksOf
  <2>4. CASE l = n + 1 /\ j \in 1..h
    BY <1>5, <1>7, <1>11, <2>4
  <2>5. CASE j = h + 1
    BY <1>4, <2>2, <2>5
  <2> QED
    BY <1>8, <1>9, <2>3, <2>4, <2>5
<1>12. ASSUME NEW k \in 1..Len(active'[t])
       PROVE  Anchored(t, active[t][k])' \/ (Blockless(active[t][k]) /\ Cleared(t, active[t][k]))'
  <2>1. CASE k = n + 1
    <3>1. h + 1 \in 1..Len(stack'[t])
      BY <1>4
    <3>2. \A j \in 1..Len(stack'[t]) : policy'[stack'[t][j].owner] = policy'[s] => h + 1 <= j
      BY <1>4, <1>7, <1>8
    <3>3. Anchor(t, h + 1, s)'
      BY <1>2, <1>4, <3>2 DEF Anchor, Owner
    <3> QED
      BY <1>5, <2>1, <3>1, <3>3 DEF Anchored
  <2>2. CASE k \in 1..n
    <3> DEFINE v == active[t][k]
    <3>0. v \in Scopes /\ v # s /\ active'[t][k] = v /\ pc'[v] = pc[v] /\ policy[v] # policy[s]
      BY <1>2, <1>5, <1>6, <2>2
    <3>1. CASE Anchored(t, v)
      <4>1. PICK b \in 1..h : Anchor(t, b, v)
        BY <3>1, <1>3 DEF Anchored
      <4>2. b \in 1..Len(stack'[t]) /\ stack'[t][b] = stack[t][b]
        BY <1>4
      <4>3. ASSUME NEW j \in 1..Len(stack'[t]), policy'[stack'[t][j].owner] = policy'[v]
            PROVE  b <= j
        <5>1. j \in 1..h
          BY <1>4, <1>8, <3>0, <4>3
        <5> QED
          BY <1>7, <4>1, <4>3, <5>1, <1>3 DEF Anchor
      <4>4. Anchor(t, b, v)'
        BY <3>0, <4>1, <4>2, <4>3 DEF Anchor, Owner
      <4> QED
        BY <3>0, <4>2, <4>4 DEF Anchored
    <3>2. CASE Blockless(v) /\ Cleared(t, v)
      <4>1. \A j \in 1..Len(stack'[t]) : policy'[stack'[t][j].owner] # policy'[v]
        BY <1>4, <1>7, <1>8, <3>0, <3>2, <1>3 DEF Cleared
      <4>2. Blockless(v)'
        BY <1>2, <3>0, <3>2 DEF Blockless, Recycled
      <4> QED
        BY <3>0, <4>1, <4>2 DEF Cleared, Owner, Blockless, Recycled
    <3>3. Anchored(t, v) \/ (Blockless(v) /\ Cleared(t, v))
      BY <1>1, <2>2, <1>3 DEF BlocksOf
    <3> QED
      BY <3>1, <3>2, <3>3
  <2> QED
    BY <1>9, <2>1, <2>2
<1>13. BlocksOf(t)'
  BY <1>10, <1>11, <1>12 DEF BlocksOf, Owner
<1>14. \A u \in Threads \ {t} : BlocksOf(u)'
  BY <1>0, <1>2, <1>4, BlocksElsewhere
<1> QED
  BY <1>13, <1>14 DEF Blocks

(***************************************************************************)
(* A scope below the running one keeps its part when those of the running  *)
(* one go.                                                                 *)
(***************************************************************************)
LEMMA LowerAnchors ==
  ASSUME Shaped, ~NestedOnOnePolicy, NEW s \in Scopes, Running(s),
         NEW t \in Threads, t = thread[s], NEW h \in 0..Len(stack[t]),
         h = Len(stack[t]) \/ (h < Len(stack[t]) /\ policy[Owner(t, h + 1)] = policy[s]),
         NEW k \in 1..Len(active[t]), k < Len(active[t])
  PROVE  \E b \in 1..Len(stack[t]) : b <= h /\ Anchor(t, b, active[t][k])
<1>1. /\ BlocksOf(t) /\ Anchored(t, active[t][k])
      /\ Len(active[t]) \in 1..Len(active[t]) /\ active[t][Len(active[t])] = s
  BY TopBlock
<1>2. PICK b \in 1..Len(stack[t]) : Anchor(t, b, active[t][k])
  BY <1>1 DEF Anchored
<1>3. Len(stack[t]) \in Nat
  BY DEF Shaped, TypeOK
<1>4. b <= h
  <2>1. CASE h = Len(stack[t])
    BY <1>3, <2>1
  <2>2. CASE h < Len(stack[t]) /\ policy[Owner(t, h + 1)] = policy[s]
    <3>1. h + 1 \in 1..Len(stack[t])
      BY <1>3, <2>2
    <3>2. Owner(t, b) = active[t][k]
      BY <1>2 DEF Anchor
    <3>3. b < h + 1
      BY <1>1, <2>2, <3>1, <3>2 DEF BlocksOf
    <3> QED
      BY <1>3, <3>3
  <2> QED
    BY <2>1, <2>2
<1> QED
  BY <1>2, <1>4

(***************************************************************************)
(* The end of a using block takes the last block away, and the scope out   *)
(* of use.                                                                 *)
(***************************************************************************)
LEMMA BlocksDispose ==
  ASSUME Shaped, ~NestedOnOnePolicy, NEW s \in Scopes, Dispose(s),
         UNCHANGED <<thread, policy>>
  PROVE  Blocks'
<1>0. PICK t \in Threads : t = thread[s]
  BY DEF Shaped, TypeOK
<1>1. TypeOK /\ InUse /\ stack[t] \in Seq(Entries) /\ active[t] \in Seq(Scopes)
  BY DEF Shaped, TypeOK
<1>2. /\ pc[s] \in {"completed", "failed"} /\ pc'[s] = "done"
      /\ \A v \in Scopes \ {s} : pc'[v] = pc[v]
      /\ pending' = pending
  BY <1>1 DEF Dispose, TypeOK
<1>3. Running(s)
  BY <1>1, <1>2, RunsLast
<1>4. PICK h : Unused(t, s, h) /\ Dropped(t, h)
  BY <1>0, DisposeScopeEffect
<1>5. /\ BlocksOf(t) /\ Len(active[t]) \in 1..Len(active[t]) /\ active[t][Len(active[t])] = s
      /\ \A k \in 1..Len(active[t]) :
           k < Len(active[t]) => /\ active[t][k] \in Scopes \ {s}
                                 /\ policy[active[t][k]] # policy[s]
                                 /\ pc[active[t][k]] = "work"
  BY <1>0, <1>3, TopBlock
<1>6. PICK n \in Nat : n + 1 = Len(active[t])
  <2>1. Len(active[t]) - 1 \in Nat /\ (Len(active[t]) - 1) + 1 = Len(active[t])
    BY <1>1, <1>5
  <2> QED
    BY <2>1
<1>7. /\ Len(active'[t]) = n
      /\ \A k \in 1..n : active'[t][k] = active[t][k] /\ k \in 1..Len(active[t]) /\ k < Len(active[t])
      /\ \A u \in Threads \ {t} : active'[u] = active[u]
  <2>1. /\ active'[t] = SubSeq(active[t], 1, Len(active[t]) - 1)
        /\ \A u \in Threads \ {t} : active'[u] = active[u]
    BY <1>0, <1>1 DEF Dispose, Front, TypeOK
  <2> QED
    BY <1>1, <1>6, <2>1
<1>8. /\ h \in 0..Len(stack[t]) /\ Len(stack[t]) \in Nat /\ Len(stack'[t]) = h
      /\ \A i \in 1..h : stack'[t][i] = stack[t][i] /\ i \in 1..Len(stack[t])
      /\ \A u \in Threads \ {t} : stack'[u] = stack[u]
  BY <1>1, <1>4 DEF Unused, Dropped, Kept
<1>9. h = Len(stack[t]) \/ (h < Len(stack[t]) /\ policy[Owner(t, h + 1)] = policy[s])
  BY <1>4 DEF Unused, Absent, Anchor
<1>10. \A i \in 1..h : /\ Owner(t, i) \in Scopes \ {s}
                       /\ policy[Owner(t, i)] # policy[s]
                       /\ stack'[t][i].owner = Owner(t, i)
  <2>1. \A i \in 1..h : policy[Owner(t, i)] # policy[s]
    <3>1. CASE Cleared(t, s)
      BY <1>8, <3>1 DEF Cleared
    <3>2. CASE Anchor(t, h + 1, s)
      BY <1>8, <3>2 DEF Anchor
    <3> QED
      BY <1>4, <3>1, <3>2 DEF Unused
  <2>2. ASSUME NEW i \in 1..h PROVE Owner(t, i) \in Scopes
    BY <1>8, OwnerTyped DEF Shaped
  <2> QED
    BY <1>8, <2>1, <2>2 DEF Owner
<1>11. ASSUME NEW i \in 1..h
       PROVE  Covered(t, i)' /\ (stack'[t][i].complete => pc'[Owner(t, i)'] = "completed")
  <2>1. PICK k \in 1..Len(active[t]) : policy[Owner(t, i)] = policy[active[t][k]]
    BY <1>5, <1>8 DEF BlocksOf, Covered
  <2>2. k \in 1..n
    BY <1>5, <1>6, <1>10, <2>1
  <2>3. Covered(t, i)'
    BY <1>7, <1>10, <2>1, <2>2 DEF Covered, Owner
  <2>4. stack[t][i].complete => pc[Owner(t, i)] = "completed"
    BY <1>5, <1>8 DEF BlocksOf
  <2>5. stack'[t][i].complete => pc'[Owner(t, i)] = "completed"
    BY <1>2, <1>8, <1>10, <2>4
  <2> QED
    BY <1>10, <2>3, <2>5 DEF Owner
<1>12. ASSUME NEW i \in 1..h, NEW j \in 1..h, NEW k \in 1..n, NEW l \in 1..n,
              k < l,
              policy[stack'[t][i].owner] = policy[active'[t][k]],
              policy[stack'[t][j].owner] = policy[active'[t][l]]
       PROVE  i < j
  <2>1. /\ policy[Owner(t, i)] = policy[active[t][k]]
        /\ policy[Owner(t, j)] = policy[active[t][l]]
    BY <1>7, <1>10, <1>12
  <2> QED
    BY <1>5, <1>7, <1>8, <1>12, <2>1 DEF BlocksOf
<1>13. ASSUME NEW k \in 1..n
       PROVE  Anchored(t, active[t][k])'
  <2> DEFINE v == active[t][k]
  <2>1. PICK b \in 1..Len(stack[t]) : b <= h /\ Anchor(t, b, v)
    BY <1>0, <1>3, <1>7, <1>8, <1>9, LowerAnchors
  <2>2. b \in 1..h
    BY <1>8, <2>1
  <2>3. v \in Scopes \ {s} /\ pc'[v] = pc[v] /\ active'[t][k] = v
    BY <1>2, <1>5, <1>7
  <2>4. \A j \in 1..h : policy'[stack'[t][j].owner] = policy'[v] => b <= j
    BY <1>8, <1>10, <2>1 DEF Anchor
  <2>5. stack'[t][b].owner = v /\ (stack'[t][b].complete <=> pc'[v] = "completed")
    BY <1>8, <2>1, <2>2, <2>3 DEF Anchor, Owner
  <2> QED
    BY <1>8, <2>2, <2>3, <2>4, <2>5 DEF Anchored, Anchor, Owner
<1>14. BlocksOf(t)'
  BY <1>7, <1>8, <1>11, <1>12, <1>13, SMTT(30) DEF BlocksOf, Owner
<1>15. \A u \in Threads \ {t} : BlocksOf(u)'
  BY <1>0, <1>2, <1>7, <1>8, BlocksElsewhere
<1> QED
  BY <1>14, <1>15 DEF Blocks

(***************************************************************************)
(* The disposal in a handler takes away a part of the last block only, and *)
(* all of it only where the handler is the scope's own.                    *)
(***************************************************************************)
LEMMA BlocksRecycle ==
  ASSUME Shaped, ~NestedOnOnePolicy, NEW s \in Scopes, Recycle(s),
         UNCHANGED <<thread, policy>>
  PROVE  Blocks'
<1>0. PICK t \in Threads : t = thread[s]
  BY DEF Shaped, TypeOK
<1>1. /\ TypeOK /\ InUse /\ stack[t] \in Seq(Entries) /\ active[t] \in Seq(Scopes)
      /\ Len(stack[t]) \in Nat
  <2>1. TypeOK /\ InUse
    BY DEF Shaped
  <2>2. stack[t] \in Seq(Entries) /\ active[t] \in Seq(Scopes)
    BY <2>1 DEF TypeOK
  <2> QED
    BY <2>1, <2>2
<1>2. pc[s] = "retrying" /\ active' = active
  BY DEF Recycle
<1>3. Running(s)
  BY <1>1, <1>2, RunsLast
<1>4. PICK q, h :
        /\ q = Recycled(s) /\ Unwound(t, q, s, h) /\ Dropped(t, h)
        /\ \/ pc' = [pc EXCEPT ![s] = "renewing"] /\ UNCHANGED pending
           \/ Interrupt(s)
  BY <1>0, RecycleEffect
<1>5. /\ BlocksOf(t) /\ Len(active[t]) \in 1..Len(active[t]) /\ active[t][Len(active[t])] = s
      /\ \A k \in 1..Len(active[t]) :
           k < Len(active[t]) => /\ active[t][k] \in Scopes \ {s}
                                 /\ policy[active[t][k]] # policy[s]
                                 /\ pc[active[t][k]] = "work"
  BY <1>0, <1>3, TopBlock
<1>6. /\ h \in 0..Len(stack[t]) /\ q \in Scopes /\ policy[q] = policy[s]
      /\ h = Len(stack[t]) \/ (h < Len(stack[t]) /\ policy[Owner(t, h + 1)] = policy[s])
  BY <1>4 DEF Unwound, Absent, RolledBack
<1>7. PICK a \in 1..Len(stack[t]) : Anchor(t, a, s) /\ (a <= h \/ (a = h + 1 /\ q = s))
  BY <1>4 DEF Unwound
<1>8. /\ \A v \in Scopes \ {s} : pc'[v] = pc[v] /\ pending'[v] = pending[v]
      /\ pc'[s] = "failed" \/ (pc'[s] = "renewing" /\ pending' = pending)
  BY <1>1, <1>2, <1>4 DEF Interrupt, TypeOK
<1>9. \A u \in Threads \ {t} : stack'[u] = stack[u]
  BY <1>4 DEF Dropped, Kept
<1>10. /\ Len(stack'[t]) = h
       /\ \A i \in 1..h : /\ i \in 1..Len(stack[t]) /\ Owner(t, i) \in Scopes
                          /\ stack'[t][i] = stack[t][i] /\ stack'[t][i].owner = Owner(t, i)
  <2>1. \A i \in 1..h : i \in 1..Len(stack[t])
    BY <1>1, <1>6
  <2>2. ASSUME NEW i \in 1..h PROVE Owner(t, i) \in Scopes
    BY <2>1, OwnerTyped DEF Shaped
  <2>3. Len(stack'[t]) = h /\ \A i \in 1..h : stack'[t][i] = stack[t][i]
    BY <1>4 DEF Dropped, Kept
  <2> QED
    BY <2>1, <2>2, <2>3 DEF Owner
<1>12. ASSUME NEW i \in 1..h
       PROVE  Covered(t, i)' /\ (stack'[t][i].complete => pc'[Owner(t, i)'] = "completed")
  <2>1. PICK k \in 1..Len(active[t]) : policy[Owner(t, i)] = policy[active[t][k]]
    BY <1>5, <1>10 DEF BlocksOf, Covered
  <2>2. Covered(t, i)'
    BY <1>2, <1>10, <2>1 DEF Covered, Owner
  <2>3. stack[t][i].complete => pc[Owner(t, i)] = "completed"
    BY <1>5, <1>10 DEF BlocksOf
  <2>4. stack'[t][i].complete => pc'[Owner(t, i)] = "completed"
    BY <1>2, <1>8, <1>10, <2>3
  <2> QED
    BY <1>10, <2>2, <2>4 DEF Owner
<1>13. ASSUME NEW i \in 1..h, NEW j \in 1..h,
              NEW k \in 1..Len(active[t]), NEW l \in 1..Len(active[t]),
              k < l,
              policy[stack'[t][i].owner] = policy[active[t][k]],
              policy[stack'[t][j].owner] = policy[active[t][l]]
       PROVE  i < j
  <2>1. /\ policy[Owner(t, i)] = policy[active[t][k]]
        /\ policy[Owner(t, j)] = policy[active[t][l]]
    BY <1>10, <1>13
  <2> QED
    BY <1>5, <1>10, <1>13, <2>1 DEF BlocksOf
<1>14. ASSUME NEW k \in 1..Len(active[t]), k < Len(active[t])
       PROVE  Anchored(t, active[t][k])'
  <2> DEFINE v == active[t][k]
  <2>1. PICK b \in 1..Len(stack[t]) : b <= h /\ Anchor(t, b, v)
    BY <1>0, <1>3, <1>6, <1>14, LowerAnchors
  <2>2. b \in 1..h /\ b \in 1..Len(stack'[t])
    BY <1>6, <1>10, <2>1
  <2>3. v \in Scopes \ {s} /\ pc'[v] = pc[v] /\ active'[t][k] = v /\ policy[v] # policy[s]
    BY <1>2, <1>5, <1>8, <1>14
  <2>4. \A j \in 1..Len(stack'[t]) : policy'[stack'[t][j].owner] = policy'[v] => b <= j
    BY <1>10, <2>1, <2>3 DEF Anchor
  <2>5. stack'[t][b].owner = v /\ (stack'[t][b].complete <=> pc'[v] = "completed")
    BY <1>10, <2>1, <2>2, <2>3 DEF Anchor, Owner
  <2> QED
    BY <2>2, <2>3, <2>4, <2>5 DEF Anchored, Anchor, Owner
<1>15. Anchored(t, s)' \/ (Blockless(s) /\ Cleared(t, s))'
  <2>1. CASE a <= h
    <3>1. a \in 1..h /\ a \in 1..Len(stack'[t])
      BY <1>6, <1>7, <1>10, <2>1
    <3>2. \A j \in 1..Len(stack'[t]) : policy'[stack'[t][j].owner] = policy'[s] => a <= j
      BY <1>7, <1>10 DEF Anchor
    <3>3. stack'[t][a].owner = s /\ (stack'[t][a].complete <=> pc'[s] = "completed")
      BY <1>2, <1>7, <1>8, <1>10, <3>1 DEF Anchor, Owner
    <3> QED
      BY <3>1, <3>2, <3>3 DEF Anchored, Anchor, Owner
  <2>2. CASE a = h + 1 /\ q = s
    <3>1. \A i \in 1..h : policy'[stack'[t][i].owner] # policy'[s]
      <4>1. \A i \in 1..h : ~(a <= i)
        BY <1>6, <2>2
      <4> QED
        BY <1>7, <1>10, <4>1 DEF Anchor
    <3>2. Blockless(s)'
      BY <1>4, <1>8, <2>2 DEF Blockless, Recycled
    <3> QED
      BY <1>10, <3>1, <3>2 DEF Cleared, Owner
  <2> QED
    BY <1>7, <2>1, <2>2
<1>16. BlocksOf(t)'
  <2>1. ASSUME NEW k \in 1..Len(active'[t])
        PROVE  Anchored(t, active[t][k])' \/ (Blockless(active[t][k]) /\ Cleared(t, active[t][k]))'
    <3>1. CASE k < Len(active[t])
      BY <1>2, <1>14, <3>1
    <3>2. CASE k = Len(active[t])
      <4>1. active'[t][k] = s
        BY <1>2, <1>5, <3>2
      <4> QED
        BY <1>15, <4>1 DEF Anchored, Anchor, Cleared, Owner, Blockless, Recycled
    <3> QED
      BY <1>1, <1>2, <3>1, <3>2
  <2> QED
    BY <1>2, <1>10, <1>12, <1>13, <2>1 DEF BlocksOf, Owner
<1>17. \A u \in Threads \ {t} : BlocksOf(u)'
  BY <1>0, <1>2, <1>8, <1>9, BlocksElsewhere
<1> QED
  BY <1>16, <1>17 DEF Blocks

(***************************************************************************)
(* The renewal puts the TransactionScope on top of the last block, or      *)
(* opens that block anew for the scope that had lost it.                   *)
(***************************************************************************)
LEMMA BlocksRenew ==
  ASSUME Shaped, ~NestedOnOnePolicy, NEW s \in Scopes, Renew(s),
         UNCHANGED <<thread, policy>>
  PROVE  Blocks'
<1>0. PICK t \in Threads : t = thread[s]
  BY DEF Shaped, TypeOK
<1>1. /\ TypeOK /\ InUse /\ stack[t] \in Seq(Entries) /\ active[t] \in Seq(Scopes)
      /\ Len(stack[t]) \in Nat
  <2>1. TypeOK /\ InUse
    BY DEF Shaped
  <2>2. stack[t] \in Seq(Entries) /\ active[t] \in Seq(Scopes)
    BY <2>1 DEF TypeOK
  <2> QED
    BY <2>1, <2>2
<1>2. pc[s] = "renewing" /\ active' = active
  BY DEF Renew
<1>3. Running(s)
  BY <1>1, <1>2, RunsLast
<1>4. PICK q \in Scopes :
        /\ q = Recycled(s) /\ policy[q] = policy[s]
        /\ \A u \in Threads : \A i \in 1..Len(stack[u]) : Owner(u, i) # q
        /\ \/ /\ Renewed(t, Len(stack[t]), q)
              /\ pc' = [pc EXCEPT ![s] = "retrying"]
           \/ Interrupt(s) /\ UNCHANGED stack
  BY <1>0, RenewEffect
<1>5. /\ BlocksOf(t) /\ Len(active[t]) \in 1..Len(active[t]) /\ active[t][Len(active[t])] = s
      /\ \A k \in 1..Len(active[t]) :
           k < Len(active[t]) => /\ active[t][k] \in Scopes \ {s}
                                 /\ policy[active[t][k]] # policy[s]
                                 /\ pc[active[t][k]] = "work"
                                 /\ Anchored(t, active[t][k])
  BY <1>0, <1>3, TopBlock
<1>6. /\ \A v \in Scopes \ {s} : pc'[v] = pc[v] /\ pending'[v] = pending[v]
      /\ pc'[s] \in {"retrying", "failed"}
  <2>1. \A v \in Scopes \ {s} : pc'[v] = pc[v] /\ pending'[v] = pending[v]
    BY <1>1, Moves DEF Acts, ScopeStep
  <2> QED
    BY <1>1, <1>4, <2>1 DEF Interrupt, TypeOK
<1>7. \A u \in Threads \ {t} : stack'[u] = stack[u]
  BY <1>4 DEF Renewed, Kept
<1> DEFINE h == Len(stack[t])
           old(i) == i \in 1..h /\ stack'[t][i] = stack[t][i]
           new(i) == /\ i = h + 1 /\ pc'[s] = "retrying"
                     /\ stack'[t][i].owner = q /\ stack'[t][i].complete = FALSE
<1>8. /\ \A i \in 1..h : old(i) /\ i \in 1..Len(stack'[t])
      /\ \A i \in 1..Len(stack'[t]) : old(i) \/ new(i)
      /\ (pc'[s] = "retrying") => h + 1 \in 1..Len(stack'[t]) /\ new(h + 1)
  <2>1. CASE Renewed(t, h, q) /\ pc' = [pc EXCEPT ![s] = "retrying"]
    <3>1. pc'[s] = "retrying"
      BY <1>1, <2>1 DEF TypeOK
    <3> QED
      BY <1>1, <2>1, <3>1 DEF Renewed, Kept
  <2>2. CASE Interrupt(s) /\ UNCHANGED stack
    <3>1. pc'[s] = "failed"
      BY <1>1, <2>2 DEF Interrupt, TypeOK
    <3> QED
      BY <2>2, <3>1
  <2> QED
    BY <1>4, <2>1, <2>2
<1>9. \A i \in 1..h : Owner(t, i) \in Scopes /\ stack'[t][i].owner = Owner(t, i)
  <2>1. \A i \in 1..h : Owner(t, i) \in Scopes
    BY OwnerTyped DEF Shaped
  <2> QED
    BY <1>8, <2>1 DEF Owner
<1>10. h \in Nat
  BY <1>1
<1> HIDE DEF h
<1>12. ASSUME NEW i \in 1..Len(stack'[t])
       PROVE  Covered(t, i)' /\ (stack'[t][i].complete => pc'[Owner(t, i)'] = "completed")
  <2>1. CASE old(i)
    <3>0. i \in 1..Len(stack[t])
      BY <2>1 DEF h
    <3>1. PICK k \in 1..Len(active[t]) : policy[Owner(t, i)] = policy[active[t][k]]
      BY <1>5, <3>0 DEF BlocksOf, Covered
    <3>2. Covered(t, i)'
      BY <1>2, <1>9, <2>1, <3>1 DEF Covered, Owner
    <3>3. stack[t][i].complete => pc[Owner(t, i)] = "completed"
      BY <1>5, <3>0 DEF BlocksOf
    <3>4. stack'[t][i].complete => pc'[Owner(t, i)] = "completed"
      BY <1>2, <1>6, <1>9, <2>1, <3>3
    <3> QED
      BY <1>9, <2>1, <3>2, <3>4 DEF Owner
  <2>2. CASE new(i)
    BY <1>2, <1>4, <1>5, <2>2 DEF Covered, Owner
  <2> QED
    BY <1>8, <2>1, <2>2
<1>13. ASSUME NEW i \in 1..Len(stack'[t]), NEW j \in 1..Len(stack'[t]),
              NEW k \in 1..Len(active[t]), NEW l \in 1..Len(active[t]),
              k < l,
              policy[stack'[t][i].owner] = policy[active[t][k]],
              policy[stack'[t][j].owner] = policy[active[t][l]]
       PROVE  i < j
  <2>1. policy[active[t][k]] # policy[s]
    BY <1>1, <1>5, <1>13
  <2>2. old(i)
    BY <1>4, <1>8, <1>13, <2>1
  <2>3. CASE old(j)
    <3>1. /\ policy[Owner(t, i)] = policy[active[t][k]]
          /\ policy[Owner(t, j)] = policy[active[t][l]]
      BY <1>9, <1>13, <2>2, <2>3
    <3>2. i \in 1..Len(stack[t]) /\ j \in 1..Len(stack[t])
      BY <2>2, <2>3 DEF h
    <3> QED
      BY <1>5, <1>13, <3>1, <3>2 DEF BlocksOf
  <2>4. CASE new(j)
    BY <1>10, <2>2, <2>4
  <2> QED
    BY <1>8, <2>3, <2>4
\* An anchor below stays one.
<1>14. ASSUME NEW v \in Scopes, Anchored(t, v), pc[v] # "completed", pc'[v] # "completed"
       PROVE  Anchored(t, v)'
  <2>1. PICK b \in 1..Len(stack[t]) : Anchor(t, b, v)
    BY <1>14 DEF Anchored
  <2>2. b \in 1..h /\ b \in 1..Len(stack'[t])
    BY <1>8, <2>1 DEF h
  <2>3. \A j \in 1..Len(stack'[t]) : policy'[stack'[t][j].owner] = policy'[v] => b <= j
    <3> SUFFICES ASSUME NEW j \in 1..Len(stack'[t]), policy'[stack'[t][j].owner] = policy'[v]
                 PROVE  b <= j
      OBVIOUS
    <3>1. CASE old(j)
      <4>1. j \in 1..Len(stack[t])
        BY <3>1 DEF h
      <4> QED
        BY <1>9, <2>1, <3>1, <4>1 DEF Anchor
    <3>2. CASE new(j)
      BY <1>10, <2>2, <3>2
    <3> QED
      BY <1>8, <3>1, <3>2
  <2>4. stack'[t][b].owner = v /\ ~stack'[t][b].complete
    BY <1>8, <1>14, <2>1, <2>2 DEF Anchor, Owner
  <2> QED
    BY <1>14, <2>2, <2>3, <2>4 DEF Anchored, Anchor, Owner
<1>15. Anchored(t, s)' \/ (Blockless(s) /\ Cleared(t, s))'
  <2>1. CASE Anchored(t, s)
    BY <1>2, <1>6, <1>14, <2>1
  <2>2. CASE Blockless(s) /\ Cleared(t, s)
    <3>1. q = s
      BY <1>2, <1>4, <2>2 DEF Blockless
    <3>2. \A i \in 1..Len(stack'[t]) : old(i) => policy'[stack'[t][i].owner] # policy'[s]
      BY <1>9, <2>2 DEF Cleared, h
    <3>3. CASE pc'[s] = "retrying"
      <4>1. \A i \in 1..Len(stack'[t]) : policy'[stack'[t][i].owner] = policy'[s] => h + 1 <= i
        BY <1>8, <1>10, <3>2
      <4> QED
        BY <1>8, <3>1, <3>3, <4>1 DEF Anchored, Anchor, Owner
    <3>4. CASE pc'[s] = "failed"
      BY <1>8, <3>2, <3>4 DEF Cleared, Blockless, Owner
    <3> QED
      BY <1>6, <3>3, <3>4
  <2> QED
    BY <1>5, <2>1, <2>2 DEF BlocksOf
<1>16. BlocksOf(t)'
  <2>1. ASSUME NEW k \in 1..Len(active'[t])
        PROVE  Anchored(t, active[t][k])' \/ (Blockless(active[t][k]) /\ Cleared(t, active[t][k]))'
    <3>0. k \in 1..Len(active[t]) /\ active'[t][k] = active[t][k]
      BY <1>2
    <3>1. CASE k < Len(active[t])
      <4>0. PICK v \in Scopes \ {s} : v = active[t][k]
        BY <1>5, <3>0, <3>1
      <4>1. pc[v] = "work" /\ pc'[v] = "work" /\ Anchored(t, v)
        BY <1>5, <1>6, <3>0, <3>1, <4>0
      <4>2. Anchored(t, v)'
        BY <1>14, <4>1
      <4> QED
        BY <1>2, <4>0, <4>2
    <3>2. CASE k = Len(active[t])
      <4>1. active'[t][k] = s
        BY <1>2, <1>5, <3>2
      <4> QED
        BY <1>15, <4>1 DEF Anchored, Anchor, Cleared, Owner, Blockless, Recycled
    <3> QED
      BY <1>1, <3>0, <3>1, <3>2
  <2> QED
    BY <1>2, <1>12, <1>13, <2>1 DEF BlocksOf, Owner
<1>17. \A u \in Threads \ {t} : BlocksOf(u)'
  BY <1>0, <1>2, <1>6, <1>7, BlocksElsewhere
<1> QED
  BY <1>16, <1>17 DEF Blocks

(***************************************************************************)
(* Every step keeps the stacks in blocks.                                  *)
(***************************************************************************)
LEMMA BlocksStep ==
  ASSUME Shaped, ~NestedOnOnePolicy, ~NestedOnOnePolicy', [Next]_vars
  PROVE  Blocks'
<1>0. TypeOK /\ InUse /\ Blocks
  BY DEF Shaped
<1>1. CASE UNCHANGED vars
  BY <1>0, <1>1 DEF vars, Blocks, BlocksOf, Covered, Anchored, Anchor, Cleared, Owner,
       Blockless, Recycled
<1>2. ASSUME NEW s \in Scopes, Acts(s), UNCHANGED <<thread, policy>>
      PROVE  Blocks'
  <2>1. CASE Construct(s)
    BY <1>2, <2>1, BlocksConstruct
  <2>2. CASE Recycle(s)
    BY <1>2, <2>2, BlocksRecycle
  <2>3. CASE Complete(s)
    BY <1>2, <2>3, BlocksComplete
  <2>4. CASE Dispose(s)
    BY <1>2, <2>4, BlocksDispose
  <2>6. CASE Renew(s)
    BY <1>2, <2>6, BlocksRenew
  <2>5. CASE InvokeUnitOfWork(s) \/ WorkSucceeds(s) \/ WorkFails(s) \/ WorkQuits(s) \/ Retry(s)
    <3>1. Innermost(s) \/ pc[s] \notin {"new", "work", "done"}
      BY <2>5 DEF InvokeUnitOfWork, WorkSucceeds, WorkFails, WorkQuits, Retry
    <3>2. /\ pc[s] \notin {"completed", "failed", "renewing"}
          /\ UNCHANGED <<stack, active>>
      BY <2>5 DEF InvokeUnitOfWork, WorkSucceeds, WorkFails, WorkQuits, Retry
    <3>3. pc'[s] # "completed"
      BY <1>0, <2>5 DEF InvokeUnitOfWork, WorkSucceeds, WorkFails, WorkQuits, Retry, TypeOK
    <3>4. \A v \in Scopes \ {s} : pc'[v] = pc[v] /\ pending'[v] = pending[v]
      BY <1>0, <1>2, Moves
    <3>5. PICK t \in Threads : t = thread[s]
      BY <1>0 DEF TypeOK
    <3> QED
      BY <1>0, <1>2, <3>1, <3>2, <3>3, <3>4, <3>5, RunsLast, BlocksMove DEF Blockless
  <2> QED
    BY <1>2, <2>1, <2>2, <2>3, <2>4, <2>5, <2>6 DEF Acts, ScopeStep
<1> QED
  BY <1>1, <1>2 DEF Next, Acts

-----------------------------------------------------------------------------
(* Where the work done is.                                                 *)

\* The retry of its scope, or the end of the using block, will still roll back
\* the transaction that x was written in.
Doomed(x) ==
  LET t == thread[x.scope] IN
  /\ Len(stack[t]) > 0
  /\ x.transaction = Tx(t)
  /\ \/ /\ pc[x.scope] \in {"retrying", "renewing"} /\ ~Blockless(x.scope)
        /\ \E k \in 1..Len(pending[x.scope]) : pending[x.scope][k] = x.scope
     \/ pc[x.scope] = "failed" /\ ~Cleared(t, x.scope)

\* What was written by a failed attempt is rolled back or doomed, unless the
\* attempt quit; what the present attempt wrote, once it is over, is in the
\* transaction of its thread.
Placed(x) ==
  /\ <<x.scope, x.attempt>> \in failures \ quits => x.transaction \in aborted \/ Doomed(x)
  /\ x.attempt = attempts[x.scope] /\ pc[x.scope] \in {"worked", "completed"} =>
       /\ Len(stack[thread[x.scope]]) > 0
       /\ x.transaction = Tx(thread[x.scope])

\* All that was written is placed.
Written == \A x \in effects : Placed(x)

\* What the argument about the work done rests on.
Steady == Shaped /\ Numbers /\ Endings /\ Written

(***************************************************************************)
(* A running scope that has its block works in the transaction of its      *)
(* thread.                                                                 *)
(***************************************************************************)
LEMMA AmbientOfRunning ==
  ASSUME Shaped, NEW s \in Scopes, Running(s), ~Blockless(s),
         NEW t \in Threads, t = thread[s]
  PROVE  Len(stack[t]) > 0 /\ Ambient(t) = Tx(t)
<1>1. stack[t] \in Seq(Entries) /\ TypeOK /\ Stacks
  BY DEF Shaped, TypeOK
<1>2. PICK a \in 1..Len(stack[t]) : Anchor(t, a, s)
  BY RunningBlock DEF Anchored
<1>3. Len(stack[t]) > 0 /\ stack[t] # <<>> /\ Len(stack[t]) \in 1..Len(stack[t])
  BY <1>1, <1>2
<1>4. stack[t][Len(stack[t])].transaction = Tx(t)
  BY <1>1, <1>3, TransactionsOf
<1> QED
  BY <1>3, <1>4 DEF Ambient, Last

(***************************************************************************)
(* What was committed or rolled back stays so.                             *)
(***************************************************************************)
LEMMA RollbackIsFinal ==
  ASSUME NEW s \in Scopes, Acts(s)
  PROVE  aborted \subseteq aborted' /\ committed \subseteq committed'
BY DEF Acts, ScopeStep, Construct, InvokeUnitOfWork, WorkSucceeds, WorkFails, Recycle,
     Retry, Complete, Dispose, DisposeTransactionScope, WorkQuits, Renew, Interrupt

(***************************************************************************)
(* A step of s leaves what other scopes wrote placed.                      *)
(***************************************************************************)
LEMMA PlacedElsewhere ==
  ASSUME Steady, NEW s \in Scopes, Acts(s), UNCHANGED <<thread, policy>>,
         NEW t \in Threads, t = thread[s], NEW x \in effects, x.scope # s,
         \A v \in Scopes \ {s} : thread[v] = t => pc[v] \in {"new", "work", "done"},
         \A u \in Threads \ {t} :
           /\ Len(stack'[u]) = Len(stack[u])
           /\ \A i \in 1..Len(stack[u]) :
                /\ stack'[u][i].owner = Owner(u, i)
                /\ stack'[u][i].transaction = stack[u][i].transaction,
         \A a : <<x.scope, a>> \in failures' \ quits' => <<x.scope, a>> \in failures \ quits
  PROVE  Placed(x)'
<1>1. /\ TypeOK /\ Placed(x) /\ x.scope \in Scopes \ {s}
      /\ aborted \subseteq aborted'
  BY RollbackIsFinal DEF Steady, Shaped, Written, TypeOK
<1>2. /\ pc'[x.scope] = pc[x.scope] /\ attempts'[x.scope] = attempts[x.scope]
      /\ pending'[x.scope] = pending[x.scope]
  BY <1>1, Moves
<1>3. CASE thread[x.scope] = t
  <2>1. pc[x.scope] \in {"new", "work", "done"}
    BY <1>1, <1>3
  <2> QED
    BY <1>1, <1>2, <2>1 DEF Placed, Doomed
<1>4. CASE thread[x.scope] # t
  <2>1. PICK u \in Threads : u = thread[x.scope]
    BY <1>1 DEF TypeOK
  <2>2. Len(stack'[u]) = Len(stack[u])
    BY <1>4, <2>1
  <2>3. Len(stack[u]) > 0 => stack'[u][1].transaction = stack[u][1].transaction
    <3>1. Len(stack[u]) > 0 => 1 \in 1..Len(stack[u])
      BY <1>1 DEF TypeOK
    <3> QED
      BY <1>4, <2>1, <3>1
  <2>4. ~Cleared(u, x.scope) => ~Cleared(u, x.scope)'
    BY <1>4, <2>1, <2>2, ZenonT(30) DEF Cleared, Owner
  <2>5. Doomed(x) => Doomed(x)'
    <3>1. Blockless(x.scope)' => Blockless(x.scope)
      BY <1>2 DEF Blockless, Recycled
    <3> QED
      BY <1>2, <2>1, <2>2, <2>3, <2>4, <3>1 DEF Doomed, Tx
  <2>6. <<x.scope, x.attempt>> \in failures' \ quits' => x.transaction \in aborted' \/ Doomed(x)'
    BY <1>1, <2>5 DEF Placed
  <2>7. x.attempt = attempts'[x.scope] /\ pc'[x.scope] \in {"worked", "completed"} =>
          Len(stack'[u]) > 0 /\ x.transaction = stack'[u][1].transaction
    BY <1>1, <1>2, <2>1, <2>2, <2>3 DEF Placed, Tx
  <2> QED
    BY <2>1, <2>6, <2>7 DEF Placed, Tx
<1> QED
  BY <1>3, <1>4

(***************************************************************************)
(* When its turn comes, the handler of s rolls back what its failed        *)
(* attempt wrote; until then it is still to be called, and an interrupted  *)
(* retry leaves it to the end of the using block.                          *)
(***************************************************************************)
LEMMA PlacedByRecycle ==
  ASSUME Steady, ~NestedOnOnePolicy, NEW s \in Scopes, Recycle(s),
         UNCHANGED <<thread, policy>>, NEW x \in effects, x.scope = s
  PROVE  Placed(x)'
<1>0. PICK t \in Threads : t = thread[s]
  BY DEF Steady, Shaped, TypeOK
<1>1. TypeOK /\ Shaped /\ Stacks /\ Placed(x) /\ pending[s] \in Seq(Scopes)
  BY DEF Steady, Shaped, Written, TypeOK
<1>2. pc[s] = "retrying" /\ pending[s] # <<>> /\ UNCHANGED <<attempts, failures, quits>>
  BY DEF Recycle
<1>3. PICK q, h :
        /\ q = Recycled(s) /\ Unwound(t, q, s, h) /\ Dropped(t, h)
        /\ \/ pc' = [pc EXCEPT ![s] = "renewing"] /\ UNCHANGED pending
           \/ Interrupt(s)
  BY <1>0, <1>1, RecycleEffect
<1>4. PICK a \in 1..Len(stack[t]) : Anchor(t, a, s) /\ (a <= h \/ (a = h + 1 /\ q = s))
  BY <1>3 DEF Unwound
<1>5. Len(stack[t]) \in Nat /\ h \in 0..Len(stack[t]) /\ Owner(t, a) = s
  BY <1>1, <1>3, <1>4 DEF TypeOK, Unwound, Anchor
<1>6. aborted \subseteq aborted'
  BY RollbackIsFinal DEF Acts, ScopeStep
<1>8. pc'[s] = "failed" \/ (pc'[s] = "renewing" /\ pending' = pending)
  BY <1>1, <1>3 DEF Interrupt, TypeOK
<1>7. ASSUME Doomed(x)
      PROVE  x.transaction \in aborted' \/ Doomed(x)'
  <2>1. x.transaction = Tx(t) /\ \E k \in 1..Len(pending[s]) : pending[s][k] = s
    BY <1>0, <1>2, <1>7 DEF Doomed
  <2>2. CASE a <= h
    <3>1. a \in 1..h /\ 1 \in 1..h
      BY <1>5, <2>2
    <3>2. q # s
      <4>1. CASE Absent(t, q, h)
        BY <1>5, <4>1 DEF Absent
      <4>2. CASE RolledBack(t, q, h)
        <5>1. h + 1 \in 1..Len(stack[t]) /\ Owner(t, h + 1) = q
          BY <1>5, <4>2 DEF RolledBack
        <5>2. a # h + 1
          BY <1>5, <2>2
        <5> QED
          BY <1>1, <1>5, <5>1, <5>2 DEF Stacks
      <4> QED
        BY <1>3, <4>1, <4>2 DEF Unwound
    <3>3. stack'[t][1] = stack[t][1] /\ stack'[t][a] = stack[t][a]
      BY <1>3, <3>1 DEF Dropped, Kept
    <3>4. Len(stack'[t]) > 0 /\ a \in 1..Len(stack'[t])
      BY <1>3, <1>5, <3>1 DEF Dropped
    <3>5. CASE pc'[s] = "renewing" /\ pending' = pending
      <4>1. Recycled(s)' # s
        BY <1>3, <3>2, <3>5 DEF Recycled
      <4>2. ~Blockless(s)'
        BY <3>5, <4>1 DEF Blockless, Recycled
      <4>3. Doomed(x)'
        BY <1>0, <2>1, <3>3, <3>4, <3>5, <4>2 DEF Doomed, Tx
      <4> QED
        BY <4>3
    <3>6. CASE pc'[s] = "failed"
      <4>1. ~Cleared(t, s)'
        BY <1>5, <3>3, <3>4 DEF Cleared, Owner
      <4>2. Doomed(x)'
        BY <1>0, <2>1, <3>3, <3>4, <3>6, <4>1 DEF Doomed, Tx
      <4> QED
        BY <4>2
    <3> QED
      BY <1>8, <3>5, <3>6
  <2>3. CASE a = h + 1 /\ q = s
    <3>1. ~Absent(t, q, h)
      BY <1>5, <2>3 DEF Absent
    <3>2. RolledBack(t, q, h)
      BY <1>3, <3>1 DEF Unwound
    <3> QED
      BY <2>1, <3>2 DEF RolledBack
  <2> QED
    BY <1>4, <2>2, <2>3
<1> QED
  BY <1>1, <1>2, <1>6, <1>7, <1>8 DEF Placed

(***************************************************************************)
(* Renewing another scope leaves the handler of s still to be called, or   *)
(* its TransactionScope to the end of the using block.                     *)
(***************************************************************************)
LEMMA PlacedByRenew ==
  ASSUME Steady, NEW s \in Scopes, Renew(s),
         UNCHANGED <<thread, policy>>, NEW x \in effects, x.scope = s
  PROVE  Placed(x)'
<1>0. PICK t \in Threads : t = thread[s]
  BY DEF Steady, Shaped, TypeOK
<1>1. /\ TypeOK /\ InUse /\ Shaped /\ Placed(x) /\ pending[s] \in Seq(Scopes)
      /\ Len(stack[t]) \in Nat
  <2>1. TypeOK /\ InUse /\ Shaped /\ Placed(x)
    BY DEF Steady, Shaped, Written
  <2>2. pending[s] \in Seq(Scopes) /\ Len(stack[t]) \in Nat
    BY <2>1 DEF TypeOK
  <2> QED
    BY <2>1, <2>2
<1>2. /\ pc[s] = "renewing" /\ pending[s] # <<>>
      /\ UNCHANGED <<attempts, failures, quits, aborted>>
  BY DEF Renew
<1>3. PICK q \in Scopes :
        /\ q = Recycled(s)
        /\ \/ /\ Renewed(t, Len(stack[t]), q)
              /\ pending' = [pending EXCEPT ![s] = Tail(@)]
              /\ pc' = [pc EXCEPT ![s] = "retrying"]
           \/ Interrupt(s) /\ UNCHANGED stack
  BY <1>0, <1>1, RenewEffect
<1>4. pc'[s] \in {"retrying", "failed"}
  BY <1>1, <1>3 DEF Interrupt, TypeOK
<1>5. ASSUME Doomed(x)
      PROVE  Doomed(x)'
  <2>1. /\ Len(stack[t]) > 0 /\ x.transaction = Tx(t) /\ ~Blockless(s)
        /\ \E k \in 1..Len(pending[s]) : pending[s][k] = s
    BY <1>0, <1>2, <1>5 DEF Doomed
  <2>2. q # s /\ q = pending[s][1]
    BY <1>1, <1>2, <1>3, <2>1 DEF Blockless, Recycled
  <2>3. PICK a \in 1..Len(stack[t]) : Owner(t, a) = s
    <3>1. Running(s)
      BY <1>1, <1>2, RunsLast
    <3> QED
      BY <1>0, <1>1, <2>1, <3>1, RunningBlock DEF Anchored, Anchor
  <2>4. 1 \in 1..Len(stack[t])
    BY <1>1, <2>1
  <2>5. CASE /\ Renewed(t, Len(stack[t]), q)
             /\ pending' = [pending EXCEPT ![s] = Tail(@)]
             /\ pc' = [pc EXCEPT ![s] = "retrying"]
    <3>1. Len(stack'[t]) > 0 /\ stack'[t][1] = stack[t][1]
      BY <1>1, <2>4, <2>5 DEF Renewed, Kept
    <3>2. PICK k \in 1..Len(pending[s]) : pending[s][k] = s
      BY <2>1
    <3>3. pending'[s] = Tail(pending[s]) /\ pc'[s] = "retrying"
      BY <1>1, <2>5 DEF TypeOK
    <3>4. k - 1 \in 1..Len(pending'[s]) /\ pending'[s][k - 1] = s
      BY <1>1, <1>2, <2>2, <3>2, <3>3
    <3>5. ~Blockless(s)'
      BY <3>3 DEF Blockless
    <3> QED
      BY <1>0, <2>1, <3>1, <3>3, <3>4, <3>5 DEF Doomed, Tx
  <2>6. CASE Interrupt(s) /\ UNCHANGED stack
    <3>1. pc'[s] = "failed"
      BY <1>1, <2>6 DEF Interrupt, TypeOK
    <3>2. ~Cleared(t, s)'
      BY <2>3, <2>6 DEF Cleared, Owner
    <3> QED
      BY <1>0, <2>1, <2>6, <3>1, <3>2 DEF Doomed, Tx
  <2> QED
    BY <1>3, <2>5, <2>6
<1> QED
  BY <1>1, <1>2, <1>4, <1>5 DEF Placed

(***************************************************************************)
(* The end of a using block rolls back what is left of a failed attempt.   *)
(***************************************************************************)
LEMMA PlacedByDispose ==
  ASSUME Steady, NEW s \in Scopes, Dispose(s),
         UNCHANGED <<thread, policy>>, NEW x \in effects, x.scope = s
  PROVE  Placed(x)'
<1>0. PICK t \in Threads : t = thread[s]
  BY DEF Steady, Shaped, TypeOK
<1>1. TypeOK /\ Shaped /\ Placed(x)
  BY DEF Steady, Shaped, Written
<1>2. /\ pc[s] \in {"completed", "failed"} /\ pc'[s] = "done"
      /\ UNCHANGED <<attempts, failures, quits>>
  BY <1>1 DEF Dispose, TypeOK
<1>3. PICK h : Unused(t, s, h)
  BY <1>0, <1>1, DisposeScopeEffect
<1>4. aborted \subseteq aborted'
  BY RollbackIsFinal DEF Acts, ScopeStep
<1>5. ASSUME Doomed(x)
      PROVE  x.transaction \in aborted'
  <2>1. x.transaction = Tx(t) /\ pc[s] = "failed" /\ ~Cleared(t, s)
    BY <1>0, <1>2, <1>5 DEF Doomed
  <2>2. Anchor(t, h + 1, s) /\ (Closed(t, s, h) \/ RolledBack(t, s, h))
    BY <1>3, <2>1 DEF Unused
  <2>3. RolledBack(t, s, h)
    BY <2>1, <2>2 DEF Closed, Anchor
  <2> QED
    BY <2>1, <2>3 DEF RolledBack
<1> QED
  BY <1>1, <1>2, <1>4, <1>5 DEF Placed

(***************************************************************************)
(* Every step keeps all that was written placed.                           *)
(***************************************************************************)
LEMMA WrittenStep ==
  ASSUME Steady, ~NestedOnOnePolicy, [Next]_vars
  PROVE  Written'
<1>0. TypeOK /\ InUse /\ Shaped /\ Stacks /\ Numbers
  BY DEF Steady, Shaped
<1>1. CASE UNCHANGED vars
  BY <1>1 DEF Steady, vars, Written, Placed, Doomed, Blockless, Recycled, Cleared, Owner, Tx
<1>2. ASSUME NEW s \in Scopes, Acts(s), UNCHANGED <<thread, policy>>
      PROVE  Written'
  <2>0. PICK t \in Threads : t = thread[s]
    BY <1>0 DEF TypeOK
  <2>1. \A v \in Scopes \ {s} : thread[v] = t => pc[v] \in {"new", "work", "done"}
    <3>1. CASE Construct(s)
      <4>1. active[t] \in Seq(Scopes) /\ (active[t] # <<>> => pc[active[t][Len(active[t])]] = "work")
        BY <1>0, <2>0, <3>1 DEF Construct, Last, TypeOK
      <4>2. \A k \in 1..Len(active[t]) : pc[active[t][k]] = "work"
        <5> SUFFICES ASSUME NEW k \in 1..Len(active[t]) PROVE pc[active[t][k]] = "work"
          OBVIOUS
        <5>1. k < Len(active[t]) \/ k = Len(active[t])
          BY <4>1
        <5>2. active[t] # <<>>
          BY <4>1
        <5> QED
          BY <1>0, <4>1, <5>1, <5>2 DEF InUse
      <4> QED
        BY <1>0, <4>2 DEF InUse
    <3>2. CASE ~Construct(s)
      <4>1. Innermost(s) \/ pc[s] \notin {"new", "work", "done"}
        BY <1>2, <3>2 DEF Acts, ScopeStep, InvokeUnitOfWork, WorkSucceeds, WorkFails,
             Recycle, Retry, Complete, Dispose, WorkQuits, Renew, Interrupt
      <4> QED
        BY <1>0, <2>0, <4>1, RunsLast DEF Running
    <3> QED
      BY <3>1, <3>2
  <2>2. ASSUME NEW u \in Threads \ {t}
        PROVE  /\ Len(stack'[u]) = Len(stack[u])
               /\ \A i \in 1..Len(stack[u]) :
                    /\ stack'[u][i].owner = Owner(u, i)
                    /\ stack'[u][i].transaction = stack[u][i].transaction
    <3>1. CASE Complete(s)
      BY <1>0, <3>1, CompletePointwise
    <3>2. CASE Renew(s)
      <4>1. stack'[u] = stack[u]
        BY <1>0, <2>0, <3>2, RenewEffect, ZenonT(30) DEF Renewed, Kept
      <4> QED
        BY <4>1 DEF Owner
    <3>3. CASE ~Complete(s) /\ ~Renew(s)
      <4>1. stack'[u] = stack[u]
        BY <1>0, <1>2, <2>0, <3>3 DEF Acts, ScopeStep, Construct, InvokeUnitOfWork,
             WorkSucceeds, WorkFails, WorkQuits, Recycle, Retry, Dispose, TypeOK
      <4> QED
        BY <4>1 DEF Owner
    <3> QED
      BY <3>1, <3>2, <3>3
  <2>3. \A v, a : v # s /\ <<v, a>> \in failures' \ quits' => <<v, a>> \in failures \ quits
    <3>1. /\ failures' = failures \/ failures' = failures \cup {<<s, attempts[s]>>}
          /\ quits \subseteq quits'
      BY <1>2 DEF Acts, ScopeStep, Construct, InvokeUnitOfWork, WorkSucceeds,
           WorkFails, Recycle, Retry, Complete, Dispose, WorkQuits, Renew, Interrupt
    <3> QED
      BY <3>1
  <2>4. ASSUME NEW x \in effects, x.scope # s
        PROVE  Placed(x)'
    BY <1>2, <2>0, <2>1, <2>2, <2>3, <2>4, PlacedElsewhere
  <2>5. ASSUME NEW x \in effects, x.scope = s
        PROVE  Placed(x)'
    <3>0. Placed(x) /\ x.attempt \in Nat /\ attempts[s] \in Nat
      BY <1>0 DEF Steady, Written, TypeOK
    <3>1. Numbered(s, x.attempt)
      BY <1>0, <2>5 DEF Numbers
    <3>2. aborted \subseteq aborted'
      BY <1>2, RollbackIsFinal
    <3>3. CASE Construct(s) \/ InvokeUnitOfWork(s)
      BY <3>1, <3>3 DEF Construct, InvokeUnitOfWork, Numbered
    <3>4. CASE WorkSucceeds(s) \/ WorkFails(s) \/ WorkQuits(s)
      <4>1. pc[s] = "work" /\ attempts' = attempts
        BY <3>4 DEF WorkSucceeds, WorkFails, WorkQuits
      <4>2. x.attempt # attempts[s]
        BY <3>0, <3>1, <4>1 DEF Numbered
      <4>3. <<s, x.attempt>> \in failures' \ quits' => <<s, x.attempt>> \in failures \ quits
        BY <3>4, <4>2 DEF WorkSucceeds, WorkFails, WorkQuits
      <4>4. ~Doomed(x)
        BY <2>5, <4>1 DEF Doomed
      <4> QED
        BY <2>5, <3>0, <3>2, <4>1, <4>2, <4>3, <4>4 DEF Placed
    <3>5. CASE Recycle(s)
      BY <1>2, <2>5, <3>5, PlacedByRecycle
    <3>9. CASE Renew(s)
      BY <1>2, <2>5, <3>9, PlacedByRenew
    <3>6. CASE Retry(s)
      <4>1. /\ pc[s] = "retrying" /\ pending[s] = <<>> /\ pc'[s] = "work"
            /\ UNCHANGED <<failures, quits>>
        BY <1>0, <3>6 DEF Retry, TypeOK
      <4>2. ~Doomed(x)
        BY <2>5, <4>1 DEF Doomed
      <4> QED
        BY <2>5, <3>0, <3>2, <4>1, <4>2 DEF Placed
    <3>7. CASE Complete(s)
      <4>1. pc[s] = "worked" /\ UNCHANGED <<attempts, failures, quits>>
        BY <3>7 DEF Complete
      <4>2. ~Doomed(x)
        BY <2>5, <4>1 DEF Doomed
      <4>3. Len(stack'[t]) = Len(stack[t])
        BY <1>0, <3>7, CompletePointwise
      <4>4. Len(stack[t]) > 0 => Tx(t)' = Tx(t)
        <5>1. Len(stack[t]) > 0 => 1 \in 1..Len(stack[t])
          BY <1>0 DEF TypeOK
        <5> QED
          BY <1>0, <3>7, <5>1, CompletePointwise DEF Tx
      <4> QED
        BY <1>2, <2>0, <2>5, <3>0, <3>2, <4>1, <4>2, <4>3, <4>4 DEF Placed, Tx
    <3>8. CASE Dispose(s)
      BY <1>2, <2>5, <3>8, PlacedByDispose
    <3> QED
      BY <1>2, <3>3, <3>4, <3>5, <3>6, <3>7, <3>8, <3>9 DEF Acts, ScopeStep
  <2>6. ASSUME NEW x \in effects' \ effects
        PROVE  Placed(x)'
    <3>1. CASE ~WorkSucceeds(s) /\ ~WorkFails(s) /\ ~WorkQuits(s)
      <4>1. effects' = effects
        BY <1>2, <3>1 DEF Acts, ScopeStep, Construct, InvokeUnitOfWork, Recycle, Renew,
             Retry, Complete, Dispose
      <4> QED
        BY <4>1
    <3>2. CASE WorkSucceeds(s) \/ WorkFails(s) \/ WorkQuits(s)
      <4>1. Innermost(s) /\ pc[s] = "work" /\ UNCHANGED <<attempts, stack>>
        BY <3>2 DEF WorkSucceeds, WorkFails, WorkQuits
      <4>8. ~Blockless(s)
        BY <4>1 DEF Blockless
      <4>2. Running(s)
        BY <1>0, <4>1, RunsLast
      <4>3. Len(stack[t]) > 0 /\ Ambient(t) = Tx(t)
        BY <1>0, <2>0, <4>2, <4>8, AmbientOfRunning
      <4>4. x.scope = s /\ x.attempt = attempts[s] /\ x.transaction = Tx(t)
        BY <2>0, <3>2, <4>3 DEF WorkSucceeds, WorkFails, WorkQuits, Work
      <4>5. CASE WorkSucceeds(s)
        <5>1. <<s, attempts[s]>> \notin failures
          <6> SUFFICES ASSUME <<s, attempts[s]>> \in failures PROVE FALSE
            OBVIOUS
          <6>1. Numbered(s, attempts[s]) /\ attempts[s] \in Nat
            BY <1>0 DEF Numbers, TypeOK
          <6> QED
            BY <4>1, <6>1 DEF Numbered
        <5>2. failures' = failures
          BY <4>5 DEF WorkSucceeds
        <5> QED
          BY <1>2, <2>0, <4>1, <4>3, <4>4, <5>1, <5>2 DEF Placed, Tx
      <4>6. CASE WorkFails(s)
        <5>1. \/ /\ pc' = [pc EXCEPT ![s] = "retrying"]
                 /\ pending' = [pending EXCEPT ![s] = Handlers(s)]
              \/ pc' = [pc EXCEPT ![s] = "failed"]
          BY <4>6 DEF WorkFails
        <5>2. PICK k \in 1..Len(subscribers[policy[s]]) : subscribers[policy[s]][k] = s
          BY <1>0, <4>1 DEF Shaped, Subscribed
        <5>3. PICK a \in 1..Len(stack[t]) : Owner(t, a) = s
          BY <1>0, <2>0, <4>2, <4>8, RunningBlock DEF Anchored, Anchor
        <5>4. \/ pc'[s] = "retrying" /\ pending'[s] = subscribers[policy[s]]
              \/ pc'[s] = "failed"
          BY <1>0, <5>1 DEF TypeOK, Handlers
        <5>5. ~Cleared(t, s)'
          BY <1>2, <4>1, <5>3 DEF Cleared, Owner
        <5>7. pc'[s] = "retrying" => ~Blockless(s)'
          BY DEF Blockless
        <5>6. Doomed(x)'
          BY <1>2, <2>0, <4>1, <4>3, <4>4, <5>2, <5>4, <5>5, <5>7 DEF Doomed, Tx
        <5> QED
          BY <4>4, <5>4, <5>6 DEF Placed
      <4>7. CASE WorkQuits(s)
        <5>1. <<s, attempts[s]>> \in quits' /\ UNCHANGED attempts
          BY <4>7 DEF WorkQuits
        <5> QED
          BY <1>2, <2>0, <4>1, <4>3, <4>4, <5>1 DEF Placed, Tx
      <4> QED
        BY <3>2, <4>5, <4>6, <4>7
    <3> QED
      BY <3>1, <3>2
  <2> QED
    BY <2>4, <2>5, <2>6 DEF Written
<1> QED
  BY <1>1, <1>2 DEF Next, Acts

(***************************************************************************)
(* A scope that is in no other one has the whole stack of its thread to    *)
(* itself.                                                                 *)
(***************************************************************************)
LEMMA AloneOnTheStack ==
  ASSUME Shaped, ~NestedOnOnePolicy, NEW s \in Scopes, Running(s), within[s] = {},
         NEW t \in Threads, t = thread[s]
  PROVE  \A i \in 1..Len(stack[t]) : policy[Owner(t, i)] = policy[s]
<1>1. InUse /\ BlocksOf(t) /\ Len(active[t]) \in 1..Len(active[t]) /\ active[t][Len(active[t])] = s
  BY TopBlock DEF Shaped
<1>2. \A k \in 1..Len(active[t]) : k = Len(active[t])
  <2> SUFFICES ASSUME NEW k \in 1..Len(active[t]), k # Len(active[t]) PROVE FALSE
    OBVIOUS
  <2>1. k < Len(active[t])
    BY <1>1
  <2>2. active[t][k] \in within[s]
    BY <1>1, <2>1 DEF InUse
  <2> QED
    BY <2>2
<1> QED
  BY <1>1, <1>2 DEF BlocksOf, Covered

(***************************************************************************)
(* A scope in no other one succeeds only by committing the transaction     *)
(* that its last attempt wrote in, which is then the root of the stack.    *)
(***************************************************************************)
LEMMA DurableStep ==
  ASSUME Steady, Calm, SuccessIsDurable, [Next]_vars
  PROVE  SuccessIsDurable'
<1>0. TypeOK /\ InUse /\ Shaped /\ Endings
  BY DEF Steady, Shaped
<1>1. CASE UNCHANGED vars
  BY <1>1 DEF vars, SuccessIsDurable
<1>2. ASSUME NEW s \in Scopes, Acts(s), UNCHANGED <<thread, policy>>
      PROVE  SuccessIsDurable'
  <2> SUFFICES ASSUME NEW x \in effects', result'[x.scope] = "success",
                      within'[x.scope] = {}, x.attempt = attempts'[x.scope]
               PROVE  x.transaction \in committed'
    BY DEF SuccessIsDurable
  <2>0. PICK t \in Threads : t = thread[s]
    BY <1>0 DEF TypeOK
  <2>1. committed \subseteq committed'
    BY <1>2, RollbackIsFinal
  <2>2. pc[s] # "done"
    BY <1>2 DEF Acts, ScopeStep, Construct, InvokeUnitOfWork, WorkSucceeds, WorkFails,
         Recycle, Retry, Complete, Dispose, WorkQuits, Renew, Interrupt
  <2>3. x \in effects \/ x.scope = s
    BY <1>2 DEF Acts, ScopeStep, Construct, InvokeUnitOfWork, WorkSucceeds, WorkFails,
         Work, Recycle, Retry, Complete, Dispose, WorkQuits, Renew, Interrupt
  <2>4. CASE x.scope # s
    <3>1. x \in effects /\ x.scope \in Scopes
      BY <1>0, <2>3, <2>4 DEF TypeOK
    <3>2. result'[x.scope] = result[x.scope] /\ attempts'[x.scope] = attempts[x.scope]
      BY <1>0, <1>2, <2>4, <3>1, Moves
    <3>3. within'[x.scope] = within[x.scope]
      BY <1>0, <1>2, <2>4, <3>1 DEF Acts, ScopeStep, Construct, InvokeUnitOfWork,
           WorkSucceeds, WorkFails, Recycle, Retry, Complete, Dispose, TypeOK,
           WorkQuits, Renew, Interrupt
    <3> QED
      BY <2>1, <3>1, <3>2, <3>3 DEF SuccessIsDurable, Calm
  <2>5. CASE x.scope = s
    <3>1. result[s] # "success"
      BY <1>0, <2>2 DEF Endings
    <3>2. Dispose(s) /\ pc[s] = "completed" /\ ~DisposeThrows(t, s)
      BY <1>0, <1>2, <2>0, <2>5, <3>1 DEF Acts, ScopeStep, Construct, InvokeUnitOfWork,
           WorkSucceeds, WorkFails, Recycle, Retry, Complete, Dispose, TypeOK,
           WorkQuits, Renew, Interrupt
    <3>3. UNCHANGED <<effects, attempts, within>>
      BY <3>2 DEF Dispose
    <3>4. PICK h : Unused(t, s, h)
      BY <1>0, <2>0, <3>2, DisposeScopeEffect
    <3>5. h \in 0..Len(stack[t]) /\ h < Len(stack[t]) /\ Anchor(t, h + 1, s)
      BY <3>2, <3>4 DEF Unused
    <3>6. stack[t][h + 1].complete
      BY <3>2, <3>5 DEF Anchor
    <3>7. Closed(t, s, h) /\ Tx(t) \notin aborted
      <4>1. ~RolledBack(t, s, h)
        BY <3>2, <3>6 DEF RolledBack
      <4> QED
        BY <3>2, <3>4, <4>1 DEF Unused, Closed
    <3>8. Running(s)
      BY <1>0, <3>2, RunsLast
    <3>9. h = 0
      <4>1. Len(stack[t]) \in Nat /\ 1 \in 1..Len(stack[t])
        BY <1>0, <3>5 DEF TypeOK
      <4>2. policy[Owner(t, 1)] = policy[s]
        BY <1>0, <2>0, <2>5, <3>3, <3>8, <4>1, AloneOnTheStack DEF Calm
      <4>3. h + 1 <= 1
        BY <3>5, <4>1, <4>2 DEF Anchor
      <4> QED
        BY <3>5, <4>3
    <3>10. committed' = committed \cup {Tx(t)}
      BY <3>7, <3>9 DEF Closed
    <3>11. x.transaction = Tx(t)
      BY <2>0, <2>5, <3>2, <3>3 DEF Steady, Written, Placed
    <3> QED
      BY <3>10, <3>11
  <2> QED
    BY <2>4, <2>5
<1> QED
  BY <1>1, <1>2 DEF Next, Acts

(***************************************************************************)
(* The retry of a scope that is alone on its policy and in no other one    *)
(* finds its own TransactionScope alone on the stack: disposing it rolls   *)
(* back without throwing, and the next one finds the stack empty and       *)
(* begins a new transaction.                                               *)
(***************************************************************************)
LEMMA OwnRetriesStep ==
  ASSUME Steady, Calm, OwnPolicyRetries, [Next]_vars
  PROVE  OwnPolicyRetries'
<1>0. TypeOK /\ InUse /\ Subscribed /\ Shaped /\ Stacks /\ Endings
  BY DEF Steady, Shaped
<1>1. CASE UNCHANGED vars
  BY <1>1 DEF vars, OwnPolicyRetries
<1>2. ASSUME NEW s \in Scopes, Acts(s), UNCHANGED <<thread, policy>>
      PROVE  OwnPolicyRetries'
  <2>0. PICK t \in Threads : t = thread[s]
    BY <1>0 DEF TypeOK
  <2>1. \A p \in Policies : Len(subscribers[p]) > 1 => Len(subscribers'[p]) > 1
    <3>1. CASE Construct(s)
      <4> SUFFICES ASSUME NEW p \in Policies, Len(subscribers[p]) > 1
                   PROVE  Len(subscribers'[p]) > 1
        OBVIOUS
      <4>1. subscribers'[p] = subscribers[p] \/ subscribers'[p] = Append(subscribers[p], s)
        BY <1>0, <3>1 DEF Construct, TypeOK
      <4>2. subscribers[p] \in Seq(Scopes)
        BY <1>0 DEF TypeOK
      <4>3. Len(Append(subscribers[p], s)) = Len(subscribers[p]) + 1
        BY <4>2
      <4> QED
        BY <4>1, <4>2, <4>3
    <3>2. CASE ~Construct(s)
      <4>1. subscribers' = subscribers
        BY <1>2, <3>2 DEF Acts, ScopeStep, InvokeUnitOfWork, WorkSucceeds, WorkFails,
             Recycle, Retry, Complete, Dispose, WorkQuits, Renew, Interrupt
      <4> QED
        BY <4>1
    <3> QED
      BY <3>1, <3>2
  <2>2. \A v \in Scopes : pc[v] # "new" => within'[v] = within[v]
    BY <1>0, <1>2 DEF Acts, ScopeStep, Construct, InvokeUnitOfWork, WorkSucceeds,
         WorkFails, Recycle, Retry, Complete, Dispose, TypeOK, WorkQuits, Renew,
         Interrupt
  <2>3. ASSUME NEW v \in Scopes, result[v] = "interrupted"
        PROVE  within'[v] # {} \/ Len(subscribers'[policy'[v]]) > 1
    <3>1. pc[v] # "new" /\ policy[v] \in Policies
      BY <1>0, <2>3 DEF Endings, TypeOK
    <3> QED
      BY <1>2, <2>1, <2>2, <2>3, <3>1 DEF OwnPolicyRetries, Calm
  <2>4. ASSUME result[s] # "interrupted", result'[s] = "interrupted",
               within'[s] = {}, ~(Len(subscribers'[policy'[s]]) > 1)
        PROVE  FALSE
    <3>1. Recycle(s) \/ Renew(s)
      BY <1>0, <1>2, <2>4 DEF Acts, ScopeStep, Construct, InvokeUnitOfWork,
           WorkSucceeds, WorkFails, WorkQuits, Retry, Complete, Dispose, TypeOK
    <3>2. pc[s] \in {"retrying", "renewing"} /\ UNCHANGED <<within, subscribers>>
      BY <3>1 DEF Recycle, Renew
    <3>3. stack[t] \in Seq(Entries) /\ Len(stack[t]) \in Nat
      BY <1>0 DEF TypeOK
    <3>5. \A v \in Scopes : policy[v] = policy[s] /\ pc[v] # "new" => v = s
      <4>1. subscribers[policy[s]] \in Seq(Scopes)
        BY <1>0 DEF TypeOK
      <4>2. ~(Len(subscribers[policy[s]]) > 1)
        BY <1>2, <2>4, <3>2
      <4>3. \A i, j \in 1..Len(subscribers[policy[s]]) : i = j
        BY <4>1, <4>2
      <4>4. PICK i \in 1..Len(subscribers[policy[s]]) : subscribers[policy[s]][i] = s
        BY <1>0, <3>2 DEF Subscribed
      <4>5. ASSUME NEW v \in Scopes, policy[v] = policy[s], pc[v] # "new"
            PROVE  v = s
        <5>1. PICK j \in 1..Len(subscribers[policy[s]]) : subscribers[policy[s]][j] = v
          BY <1>0, <4>5 DEF Subscribed
        <5> QED
          BY <4>3, <4>4, <5>1
      <4> QED
        BY <4>5
    <3>6. Running(s)
      BY <1>0, <3>2, RunsLast
    <3>7. \A i \in 1..Len(stack[t]) : Owner(t, i) = s
      <4> SUFFICES ASSUME NEW i \in 1..Len(stack[t]) PROVE Owner(t, i) = s
        OBVIOUS
      <4>1. policy[Owner(t, i)] = policy[s]
        BY <1>0, <2>0, <2>4, <3>2, <3>6, AloneOnTheStack DEF Calm
      <4>2. Owner(t, i) \in Scopes /\ pc[Owner(t, i)] # "new"
        BY <1>0, OwnerTyped DEF Stacks, Sound
      <4> QED
        BY <3>5, <4>1, <4>2
    <3>8. Len(stack[t]) <= 1
      <4>1. \A i, j \in 1..Len(stack[t]) : i = j
        BY <1>0, <3>7 DEF Stacks
      <4>2. CASE Len(stack[t]) >= 2
        <5>1. 1 \in 1..Len(stack[t]) /\ 2 \in 1..Len(stack[t])
          BY <3>3, <4>2
        <5> QED
          BY <4>1, <5>1
      <4> QED
        BY <3>3, <4>2
    <3>9. CASE Recycle(s)
      <4>1. PICK q, h : /\ q = Recycled(s) /\ Unwound(t, q, s, h)
                        /\ result' = result \/ DisposeThrows(t, q)
        BY <1>0, <2>0, <3>9, RecycleEffect DEF Calm
      <4>2. q = s
        BY <3>5, <4>1 DEF Unwound
      <4>3. PICK a \in 1..Len(stack[t]) : Anchor(t, a, s)
        BY <4>1 DEF Unwound
      <4>4. ~Absent(t, q, h)
        BY <4>2, <4>3 DEF Absent, Anchor
      <4>5. RolledBack(t, q, h) /\ h \in 0..Len(stack[t])
        BY <4>1, <4>4 DEF Unwound
      <4>6. h + 1 = Len(stack[t])
        BY <3>3, <3>8, <4>5 DEF RolledBack
      <4> QED
        BY <2>4, <4>1, <4>5, <4>6 DEF RolledBack
    <3>10. CASE Renew(s)
      <4>1. PICK q \in Scopes :
              /\ policy[q] = policy[s] /\ pc[q] # "new"
              /\ \A u \in Threads : \A i \in 1..Len(stack[u]) : Owner(u, i) # q
              /\ result' = result \/ ~CanBegin(stack[t], aborted)
        BY <1>0, <2>0, <3>10, RenewEffect
      <4>2. q = s
        BY <3>5, <4>1
      <4>3. \A i \in 1..Len(stack[t]) : FALSE
        BY <3>7, <4>1, <4>2
      <4>4. stack[t] = <<>>
        BY <3>3, <4>3
      <4> QED
        BY <2>4, <4>1, <4>4 DEF CanBegin
    <3> QED
      BY <3>1, <3>9, <3>10
  <2>5. ASSUME NEW v \in Scopes \ {s}
        PROVE  result'[v] = result[v]
    BY <1>0, <1>2, Moves
  <2> QED
    BY <2>3, <2>4, <2>5 DEF OwnPolicyRetries
<1> QED
  BY <1>1, <1>2 DEF Next, Acts

-----------------------------------------------------------------------------

(***************************************************************************)
(* The inductive invariant.                                                *)
(***************************************************************************)
IInv ==
  /\ TypeOK /\ InUse /\ Subscribed /\ Numbers /\ Endings
  /\ Calm =>
       /\ Stacks /\ Renewals /\ Ledger /\ Blocks /\ Written
       /\ SuccessIsDurable /\ OwnPolicyRetries

(***************************************************************************)
(* Before anything is built the invariant holds.                           *)
(***************************************************************************)
LEMMA InitIInv == Init => IInv
<1> SUFFICES ASSUME Init PROVE IInv
  OBVIOUS
<1>1. TypeOK
  BY InitTypeOK
<1>2. /\ \A t \in Threads : active[t] = <<>> /\ stack[t] = <<>>
      /\ \A p \in Policies : subscribers[p] = <<>>
      /\ \A s \in Scopes : /\ pc[s] = "new" /\ within[s] = {} /\ pending[s] = <<>>
                           /\ result[s] = "none"
      /\ effects = {} /\ failures = {} /\ committed = {AutoCommit} /\ aborted = {}
  BY DEF Init
<1>3. InUse
  BY <1>2 DEF InUse
<1>4. Subscribed
  BY <1>2 DEF Subscribed
<1>5. Numbers /\ Endings /\ Written /\ SuccessIsDurable /\ OwnPolicyRetries
  BY <1>2 DEF Numbers, Endings, Written, SuccessIsDurable, OwnPolicyRetries
<1>6. Stacks /\ Renewals /\ Ledger
  BY <1>2 DEF Stacks, Renewals, Ledger
<1>7. Blocks
  BY <1>2 DEF Blocks, BlocksOf
<1> QED
  BY <1>1, <1>3, <1>4, <1>5, <1>6, <1>7 DEF IInv

(***************************************************************************)
(* The invariant is inductive.                                             *)
(***************************************************************************)
LEMMA NextIInv == IInv /\ [Next]_vars => IInv'
<1> SUFFICES ASSUME IInv, [Next]_vars PROVE IInv'
  OBVIOUS
<1>1. TypeOK /\ InUse /\ Subscribed /\ Numbers /\ Endings
  BY DEF IInv
<1>2. TypeOK' /\ InUse' /\ Subscribed' /\ Numbers' /\ Endings'
  BY <1>1, NextTypeOK, InUseStep, SubscribedStep, NumbersStep, EndingsStep
<1>3. ASSUME Calm'
      PROVE  /\ Stacks' /\ Renewals' /\ Ledger' /\ Blocks' /\ Written'
             /\ SuccessIsDurable' /\ OwnPolicyRetries'
  <2>1. Calm
    BY <1>1, <1>3, StaysCalm
  <2>2. ~NestedOnOnePolicy /\ ~NestedOnOnePolicy' /\ ~raced'
    BY <1>3, <2>1 DEF Calm
  <2>3. Steady /\ Shaped /\ SuccessIsDurable /\ OwnPolicyRetries
    BY <1>1, <2>1 DEF IInv, Steady, Shaped
  <2> QED
    BY <2>1, <2>2, <2>3, StacksStep, RenewalsStep, LedgerStep, BlocksStep, WrittenStep,
       DurableStep, OwnRetriesStep
<1> QED
  BY <1>2, <1>3 DEF IInv

(***************************************************************************)
(* The invariant holds in every reachable state.                           *)
(***************************************************************************)
LEMMA Invariant == Spec => []IInv
<1>1. Init => IInv
  BY InitIInv
<1>2. IInv /\ [Next]_vars => IInv'
  BY NextIInv
<1> QED
  BY <1>1, <1>2, PTL DEF Spec

(***************************************************************************)
(* Every variable has its type, in every reachable state.                  *)
(***************************************************************************)
THEOREM TypeCorrect == Spec => []TypeOK
<1>1. IInv => TypeOK
  BY DEF IInv
<1> QED
  BY <1>1, Invariant, PTL

(***************************************************************************)
(* Whatever the retries of one scope recycle: what a failed attempt wrote  *)
(* (WorkFails) is in no committed transaction, for scopes not nested on    *)
(* one policy and attempts that did not end the loop by themselves.  This  *)
(* is the part of FailedWorkNeverCommits where no two threads have renewed *)
(* one scope at a time.                                                    *)
(***************************************************************************)
THEOREM FailedWorkStaysOut == Spec => [](~raced => FailedWorkNeverCommits)
<1>1. IInv => (~raced => FailedWorkNeverCommits)
  <2> SUFFICES ASSUME IInv, Calm, NEW x \in effects,
                      <<x.scope, x.attempt>> \in failures \ quits
               PROVE  x.transaction \notin committed
    BY DEF FailedWorkNeverCommits, Calm
  <2>1. TypeOK /\ Stacks /\ Ledger /\ Placed(x)
    BY DEF IInv, Written
  <2>2. x.transaction \in aborted \/ Doomed(x)
    BY <2>1 DEF Placed
  <2>3. CASE Doomed(x)
    <3>1. PICK t \in Threads : t = thread[x.scope]
      BY <2>1 DEF TypeOK
    <3>2. 1 \in 1..Len(stack[t]) /\ x.transaction = Tx(t)
      BY <2>1, <2>3, <3>1 DEF Doomed, TypeOK
    <3> QED
      BY <2>1, <3>2, TransactionsOf
  <2> QED
    BY <2>1, <2>2, <2>3 DEF Ledger
<1> QED
  BY <1>1, Invariant, PTL

(***************************************************************************)
(* A thread whose scopes are done has no TransactionScope left on it       *)
(* (Dispose of TransactionRetryScope), for scopes not nested on one policy *)
(* and as long as no two threads have renewed one scope at a time.         *)
(***************************************************************************)
THEOREM NothingStaysAmbient == Spec => []NoStrayTransaction
<1>1. IInv => NoStrayTransaction
  <2> SUFFICES ASSUME IInv, Calm, NEW t \in Threads, active[t] = <<>>
               PROVE  stack[t] = <<>>
    BY DEF NoStrayTransaction, Calm
  <2>1. stack[t] \in Seq(Entries) /\ BlocksOf(t)
    BY DEF IInv, TypeOK, Blocks
  <2>2. \A i \in 1..Len(stack[t]) : FALSE
    BY <2>1 DEF BlocksOf, Covered
  <2> QED
    BY <2>1, <2>2
<1> QED
  BY <1>1, Invariant, PTL

(***************************************************************************)
(* A scope that is in no other one and ended in success has committed what *)
(* its last attempt wrote, unless two threads have renewed one scope at a  *)
(* time, and as long as no scopes are nested on one policy.                *)
(***************************************************************************)
THEOREM SuccessCommitted == Spec => [](~NestedOnOnePolicy => SuccessIsDurable)
<1>1. IInv => (~NestedOnOnePolicy => SuccessIsDurable)
  BY DEF IInv, Calm, SuccessIsDurable
<1> QED
  BY <1>1, Invariant, PTL

(***************************************************************************)
(* The retry handler never cuts short the budget of a scope that is alone  *)
(* on its policy and in no other one, unless two threads have renewed one  *)
(* scope at a time, and as long as no scopes are nested on one policy.     *)
(***************************************************************************)
THEOREM OwnRetriesKept == Spec => [](~NestedOnOnePolicy => OwnPolicyRetries)
<1>1. IInv => (~NestedOnOnePolicy => OwnPolicyRetries)
  BY DEF IInv, Calm, OwnPolicyRetries
<1> QED
  BY <1>1, Invariant, PTL
=============================================================================
