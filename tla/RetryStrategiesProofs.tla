------------------------ MODULE RetryStrategiesProofs ------------------------
(***************************************************************************)
(* A policy allows exactly the retries its options ask for, and the        *)
(* intervals between them back off within their bounds, whatever the       *)
(* options.  The first needs no more of a strategy than its retry count,   *)
(* which the switch of the constructor has to carry over into every class; *)
(* the second needs the powers of two, and how far two jitters of one      *)
(* delta can lie apart.                                                    *)
(***************************************************************************)
EXTENDS RetryStrategies, WellFoundedInduction, TLAPS

Prescribed == IF options.Enabled THEN options.RetryCount ELSE 0

\* A strategy in use has the prescribed count, and has not exceeded it.
InUse ==
  phase \in {"constructed", "stopped", "failed"} /\ strategy.class # "None"
    => /\ strategy.retryCount = Prescribed
       /\ currentRetryCount <= strategy.retryCount

IInv ==
  /\ options \in Candidates
  /\ currentRetryCount \in Nat
  /\ phase \in {"new", "rejected", "constructed", "stopped", "failed"}
  /\ currentRetryCount > 0 => phase # "new" /\ phase # "rejected"
  /\ currentRetryCount > 0 \/ phase = "stopped" => strategy.class # "None"
  /\ phase = "stopped" => currentRetryCount >= strategy.retryCount
  /\ InUse

(***************************************************************************)
(* Whatever the settings, the strategy that comes of them has a class, and *)
(* its count is the one that was asked for, or there is none.              *)
(***************************************************************************)
LEMMA CountCarriedOver ==
  ASSUME NEW o \in Candidates, StrategyFor(o).class # "None"
  PROVE  /\ StrategyFor(o).retryCount = (IF o.Enabled THEN o.RetryCount ELSE 0)
         /\ StrategyFor(o).retryCount \in Int
<1>1. o.Enabled \in BOOLEAN /\ o.RetryCount \in Int
  BY CandidatesAssumption
<1>2. CASE ~o.Enabled
  BY <1>2 DEF StrategyFor, NoRetry, Fixed
<1>3. CASE o.Enabled /\ o.RetryStrategyName = "Exponential"
  BY <1>1, <1>3 DEF StrategyFor, Exponential
<1>4. CASE o.Enabled /\ o.RetryStrategyName = "Incremental"
  BY <1>1, <1>4 DEF StrategyFor, Incremental
<1>5. CASE o.Enabled /\ o.RetryStrategyName = "Fixed"
  BY <1>1, <1>5 DEF StrategyFor, Fixed
<1>6. CASE o.Enabled /\ o.RetryStrategyName \notin {"Exponential", "Incremental", "Fixed"}
  <2>1. StrategyFor(o) = NoStrategy
    BY <1>6 DEF StrategyFor
  <2>2. NoStrategy.class = "None"
    BY DEF NoStrategy, NoRetry, Fixed
  <2>. QED BY <2>1, <2>2
<1>. QED BY <1>1, <1>2, <1>3, <1>4, <1>5, <1>6

(***************************************************************************)
(* Nothing has been constructed, and nothing asked for.                    *)
(***************************************************************************)
LEMMA Initially == Init => IInv
<1>. SUFFICES ASSUME Init PROVE IInv
  OBVIOUS
<1>1. NoStrategy.class = "None"
  BY DEF NoStrategy, NoRetry, Fixed
<1>. QED BY <1>1 DEF Init, IInv, InUse

(***************************************************************************)
(* A retry is allowed only below the count, and a stop comes only at it.   *)
(***************************************************************************)
LEMMA Inductive == IInv /\ [Next]_vars => IInv'
<1>. SUFFICES ASSUME IInv, [Next]_vars PROVE IInv'
  OBVIOUS
<1>. USE DEF IInv
<1>1. CASE Construct
  <2>1. /\ options' = options /\ currentRetryCount' = currentRetryCount
        /\ currentRetryCount = 0
        /\ strategy' = StrategyFor(options)
        /\ phase' = IF ArgumentsAccepted(strategy') THEN "constructed" ELSE "rejected"
    BY <1>1 DEF Construct
  <2>2. InUse'
    <3>. SUFFICES ASSUME phase' = "constructed", strategy'.class # "None"
                  PROVE  /\ strategy'.retryCount = Prescribed'
                         /\ currentRetryCount' <= strategy'.retryCount
      BY <2>1 DEF InUse
    <3>1. /\ strategy'.retryCount = Prescribed'
          /\ strategy'.retryCount \in Int
      BY <2>1, CountCarriedOver DEF Prescribed
    <3>2. strategy'.retryCount >= 0
      BY <2>1 DEF ArgumentsAccepted
    <3>. QED BY <2>1, <3>1, <3>2
  <2>. QED BY <2>1, <2>2
<1>2. CASE ShouldRetry
  <2>1. /\ options' = options /\ strategy' = strategy /\ phase' = phase
        /\ phase = "constructed" /\ strategy.class # "None"
        /\ currentRetryCount' = currentRetryCount + 1
        /\ currentRetryCount < strategy.retryCount
    BY <1>2 DEF ShouldRetry, RetryAllowed
  <2>2. strategy.retryCount = Prescribed /\ Prescribed' = Prescribed
    BY <2>1 DEF InUse, Prescribed
  <2>3. Prescribed \in Int
    BY CandidatesAssumption DEF Prescribed
  <2>4. InUse'
    BY <2>1, <2>2, <2>3 DEF InUse
  <2>. QED BY <2>1, <2>4
<1>3. CASE ShouldNotRetry
  <2>1. /\ options' = options /\ strategy' = strategy /\ phase' = "stopped"
        /\ phase = "constructed" /\ strategy.class # "None"
        /\ currentRetryCount' = currentRetryCount
        /\ ~(currentRetryCount < strategy.retryCount)
    BY <1>3 DEF ShouldNotRetry, RetryAllowed
  <2>2. InUse'
    BY <2>1 DEF InUse, Prescribed
  <2>3. strategy.retryCount \in Int
    BY <2>1, CandidatesAssumption DEF InUse, Prescribed
  <2>. QED BY <2>1, <2>2, <2>3
<1>4. CASE NoHandler \/ HandlerThrows
  <2>1. /\ options' = options /\ strategy' = strategy /\ phase' = "failed"
        /\ phase = "constructed" /\ currentRetryCount' = currentRetryCount
    BY <1>4 DEF NoHandler, HandlerThrows
  <2>2. InUse'
    BY <2>1 DEF InUse, Prescribed
  <2>. QED BY <2>1, <2>2
<1>5. CASE UNCHANGED vars
  BY <1>5 DEF vars, InUse, Prescribed
<1>. QED BY <1>1, <1>2, <1>3, <1>4, <1>5 DEF Next

(***************************************************************************)
(* The count of the strategy in use is the budget of the options.          *)
(***************************************************************************)
LEMMA Sufficient == IInv => BudgetExact
<1>. SUFFICES ASSUME IInv PROVE BudgetExact
  OBVIOUS
<1>1. Prescribed \in Int
  BY CandidatesAssumption DEF IInv, Prescribed
<1>2. currentRetryCount > 0 => currentRetryCount <= Prescribed
  BY <1>1 DEF IInv, InUse
<1>3. phase = "stopped" => currentRetryCount = Prescribed
  BY <1>1 DEF IInv, InUse
<1>. QED BY <1>2, <1>3 DEF BudgetExact, Prescribed

(***************************************************************************)
(* Any policy, from any options: at most RetryCount retries and no stop    *)
(* before, none at all when it is disabled.                                *)
(***************************************************************************)
THEOREM PrescribedBudget == Spec => []BudgetExact
<1>1. Init => IInv
  BY Initially
<1>2. IInv /\ [Next]_vars => IInv'
  BY Inductive
<1>3. IInv => BudgetExact
  BY Sufficient
<1>. QED BY <1>1, <1>2, <1>3, PTL DEF Spec

-----------------------------------------------------------------------------
(* The powers of two.                                                      *)

(***************************************************************************)
(* A set of numbers with 0 and with the successor of each of its members   *)
(* is the set of all: induction, over a set.                               *)
(***************************************************************************)
LEMMA NatSetInduction ==
  ASSUME NEW T \in SUBSET Nat, 0 \in T, \A n \in T : n + 1 \in T
  PROVE  T = Nat
<1> DEFINE rest == Nat \ T
<1> SUFFICES ASSUME rest # {} PROVE FALSE
  OBVIOUS
<1>1. PICK x \in rest : \A y \in rest : ~(<<y, x>> \in OpToRel(<, Nat))
  <2>1. rest \subseteq Nat
    OBVIOUS
  <2> HIDE DEF rest
  <2> QED
    BY <2>1, NatLessThanWellFounded, WFMin
<1>2. x \in Nat /\ x # 0
  OBVIOUS
<1>3. <<x - 1, x>> \in OpToRel(<, Nat)
  BY <1>2 DEF OpToRel
<1>4. x - 1 \in Nat /\ (x - 1) + 1 = x
  BY <1>2
<1>5. x - 1 \in T
  BY <1>1, <1>3, <1>4
<1>6. (x - 1) + 1 \in T
  BY <1>5
<1> QED
  BY <1>4, <1>6

\* The first n + 1 powers of two.
Tables(n) ==
  {table \in [0..n -> Nat] : /\ table[0] = 1
                             /\ \A i \in 1..n : table[i] = 2 * table[i - 1]}

(***************************************************************************)
(* There is a table of any length, and all tables agree.                   *)
(***************************************************************************)
LEMMA TablesExist == \A n \in Nat : \E table : table \in Tables(n)
<1> DEFINE T == {n \in Nat : \E table : table \in Tables(n)}
<1>1. 0 \in T
  <2>1. [i \in 0..0 |-> 1] \in Tables(0)
    BY DEF Tables
  <2> QED
    BY <2>1
<1>2. ASSUME NEW n \in T PROVE n + 1 \in T
  <2>1. PICK table : table \in Tables(n)
    OBVIOUS
  <2>2. n \in Nat /\ table \in [0..n -> Nat] /\ table[0] = 1
        /\ \A i \in 1..n : table[i] = 2 * table[i - 1]
    BY <2>1 DEF Tables
  <2> DEFINE longer == [i \in 0..(n + 1) |-> IF i = n + 1 THEN 2 * table[n] ELSE table[i]]
  <2>3. longer \in [0..(n + 1) -> Nat]
    BY <2>2
  <2>4. longer[0] = 1
    BY <2>2
  <2>5. ASSUME NEW i \in 1..(n + 1) PROVE longer[i] = 2 * longer[i - 1]
    <3>1. CASE i = n + 1
      <4>1. longer[i] = 2 * table[n]
        BY <2>2, <3>1
      <4>2. i - 1 = n /\ n \in 0..(n + 1) /\ n # n + 1
        BY <2>2, <3>1
      <4>3. longer[i - 1] = table[n]
        BY <4>2
      <4> QED
        BY <4>1, <4>3
    <3>2. CASE i # n + 1
      <4>1. i \in 1..n /\ i - 1 \in 0..(n + 1) /\ i - 1 # n + 1
        BY <2>2, <3>2
      <4>2. longer[i] = table[i] /\ longer[i - 1] = table[i - 1]
        BY <3>2, <4>1
      <4>3. table[i] = 2 * table[i - 1]
        BY <2>2, <4>1
      <4> QED
        BY <4>2, <4>3
    <3> QED
      BY <3>1, <3>2
  <2>6. longer \in Tables(n + 1)
    BY <2>3, <2>4, <2>5 DEF Tables
  <2> QED
    BY <2>2, <2>6
<1>3. T = Nat
  <2> HIDE DEF T
  <2>1. T \in SUBSET Nat
    BY DEF T
  <2> QED
    BY <1>1, <1>2, <2>1, NatSetInduction
<1> QED
  BY <1>3

(***************************************************************************)
(* Two tables agree wherever both have a value.                            *)
(***************************************************************************)
LEMMA TablesAgree ==
  ASSUME NEW m \in Nat, NEW n \in Nat, NEW g \in Tables(m), NEW h \in Tables(n)
  PROVE  \A i \in Nat : i <= m /\ i <= n => g[i] = h[i]
<1> DEFINE T == {i \in Nat : i <= m /\ i <= n => g[i] = h[i]}
<1>1. 0 \in T
  BY DEF Tables
<1>2. ASSUME NEW i \in T PROVE i + 1 \in T
  <2>1. i \in Nat /\ (i <= m /\ i <= n => g[i] = h[i])
    OBVIOUS
  <2>2. ASSUME i + 1 <= m, i + 1 <= n PROVE g[i + 1] = h[i + 1]
    <3>1. i + 1 \in 1..m /\ i + 1 \in 1..n /\ (i + 1) - 1 = i
      BY <2>1, <2>2
    <3>2. g[i + 1] = 2 * g[(i + 1) - 1] /\ h[i + 1] = 2 * h[(i + 1) - 1]
      BY <3>1 DEF Tables
    <3> QED
      BY <2>1, <2>2, <3>1, <3>2
  <2> QED
    BY <2>1, <2>2
<1>3. T = Nat
  <2> HIDE DEF T
  <2>1. T \in SUBSET Nat
    BY DEF T
  <2> QED
    BY <1>1, <1>2, <2>1, NatSetInduction
<1> QED
  BY <1>3

(***************************************************************************)
(* The recursion has a solution.                                           *)
(***************************************************************************)
LEMMA PowerOfTwoDef ==
  PowerOfTwo = [n \in Nat |-> IF n = 0 THEN 1 ELSE 2 * PowerOfTwo[n - 1]]
<1> DEFINE table(n) == CHOOSE g : g \in Tables(n)
           powers == [n \in Nat |-> table(n)[n]]
           Solves(f) == f = [n \in Nat |-> IF n = 0 THEN 1 ELSE 2 * f[n - 1]]
<1>1. ASSUME NEW n \in Nat PROVE table(n) \in Tables(n)
  BY TablesExist
<1> HIDE DEF table
<1>2. ASSUME NEW n \in Nat PROVE powers[n] = IF n = 0 THEN 1 ELSE 2 * powers[n - 1]
  <2>1. CASE n = 0
    BY <1>1, <2>1 DEF Tables
  <2>2. CASE n # 0
    <3>1. n - 1 \in Nat /\ n \in 1..n /\ n - 1 <= n
      BY <2>2
    <3>2. table(n)[n] = 2 * table(n)[n - 1]
      BY <1>1, <3>1 DEF Tables
    <3>3. table(n)[n - 1] = table(n - 1)[n - 1]
      <4>1. table(n) \in Tables(n) /\ table(n - 1) \in Tables(n - 1)
        BY <1>1, <3>1
      <4>2. n - 1 <= n /\ n - 1 <= n - 1
        BY <3>1
      <4> QED
        BY <3>1, <4>1, <4>2, TablesAgree
    <3> QED
      BY <2>2, <3>1, <3>2, <3>3
  <2> QED
    BY <2>1, <2>2
<1>3. Solves(powers)
  <2> DEFINE rhs == [n \in Nat |-> IF n = 0 THEN 1 ELSE 2 * powers[n - 1]]
  <2>1. powers = [n \in Nat |-> powers[n]]
    OBVIOUS
  <2>2. \A n \in Nat : powers[n] = IF n = 0 THEN 1 ELSE 2 * powers[n - 1]
    BY <1>2
  <2> HIDE DEF powers
  <2> QED
    BY <2>1, <2>2
<1>4. \E f : Solves(f)
  <2> HIDE DEF Solves, powers
  <2> QED
    BY <1>3
<1>5. PowerOfTwo = CHOOSE f : Solves(f)
  BY DEF PowerOfTwo
<1>6. Solves(PowerOfTwo)
  <2> HIDE DEF Solves
  <2> QED
    BY <1>4, <1>5
<1> QED
  BY <1>6

(***************************************************************************)
(* Powers of two are positive, and each is twice the one before.           *)
(***************************************************************************)
LEMMA PowersOfTwo ==
  \A n \in Nat : /\ PowerOfTwo[n] \in Nat /\ PowerOfTwo[n] >= 1
                 /\ PowerOfTwo[n + 1] = 2 * PowerOfTwo[n]
<1>1. PowerOfTwo[0] = 1
  BY PowerOfTwoDef
<1>2. ASSUME NEW n \in Nat PROVE PowerOfTwo[n + 1] = 2 * PowerOfTwo[n]
  <2>1. n + 1 \in Nat /\ n + 1 # 0 /\ (n + 1) - 1 = n
    OBVIOUS
  <2>2. PowerOfTwo[n + 1] = 2 * PowerOfTwo[(n + 1) - 1]
    BY <2>1, PowerOfTwoDef
  <2> QED
    BY <2>1, <2>2
<1> DEFINE T == {n \in Nat : PowerOfTwo[n] \in Nat /\ PowerOfTwo[n] >= 1}
<1>3. 0 \in T
  BY <1>1
<1>4. ASSUME NEW n \in T PROVE n + 1 \in T
  BY <1>2
<1>5. T = Nat
  <2> HIDE DEF T
  <2>1. T \in SUBSET Nat
    BY DEF T
  <2> QED
    BY <1>3, <1>4, <2>1, NatSetInduction
<1> QED
  BY <1>2, <1>5

-----------------------------------------------------------------------------
(* The operators of the handlers.                                          *)

(***************************************************************************)
(* Whatever the settings, the numbers of the strategy are integers.        *)
(***************************************************************************)
LEMMA StrategyNumbers ==
  ASSUME NEW o \in Candidates
  PROVE  /\ StrategyFor(o).class \in {"Fixed", "Incremental", "Exponential", "None"}
         /\ {StrategyFor(o).retryCount, StrategyFor(o).initial, StrategyFor(o).increment,
             StrategyFor(o).min, StrategyFor(o).max, StrategyFor(o).delta} \subseteq Int
<1>1. /\ o.Enabled \in BOOLEAN
      /\ o.RetryCount \in Int /\ o.Interval \in Int /\ o.Increment \in Int
      /\ o.MinBackoff \in Int /\ o.MaxBackoff \in Int /\ o.DeltaBackoff \in Int
  BY CandidatesAssumption
<1>2. CASE ~o.Enabled
  BY <1>2, MillisecondAssumption DEF StrategyFor, NoRetry, Fixed, DefaultRetryInterval
<1>3. CASE o.Enabled /\ o.RetryStrategyName = "Exponential"
  BY <1>1, <1>3 DEF StrategyFor, Exponential
<1>4. CASE o.Enabled /\ o.RetryStrategyName = "Incremental"
  BY <1>1, <1>4 DEF StrategyFor, Incremental
<1>5. CASE o.Enabled /\ o.RetryStrategyName = "Fixed"
  BY <1>1, <1>5 DEF StrategyFor, Fixed
<1>6. CASE o.Enabled /\ o.RetryStrategyName \notin {"Exponential", "Incremental", "Fixed"}
  <2>1. StrategyFor(o) = NoStrategy
    BY <1>6 DEF StrategyFor
  <2>2. NoStrategy = [class |-> "None", retryCount |-> 0, initial |-> 1000 * Millisecond,
                      increment |-> 0, min |-> 0, max |-> 0, delta |-> 0]
    BY DEF NoStrategy, NoRetry, Fixed, DefaultRetryInterval
  <2>3. 1000 * Millisecond \in Int
    BY MillisecondAssumption
  <2> QED
    BY <2>1, <2>2, <2>3
<1> QED
  BY <1>1, <1>2, <1>3, <1>4, <1>5, <1>6

(***************************************************************************)
(* A product grows with either factor.                                     *)
(***************************************************************************)
LEMMA ProductGrows ==
  ASSUME NEW a \in Nat, NEW b \in Nat, NEW x \in Nat, NEW y \in Nat, a <= b, x <= y
  PROVE  a * x \in Nat /\ a * x <= b * y
<1>1. PICK u \in Nat : b = a + u
  <2>1. b - a \in Nat /\ b = a + (b - a)
    OBVIOUS
  <2> QED
    BY <2>1
<1>2. PICK v \in Nat : y = x + v
  <2>1. y - x \in Nat /\ y = x + (y - x)
    OBVIOUS
  <2> QED
    BY <2>1
<1>3. a * x \in Nat /\ a * v \in Nat /\ u * x \in Nat /\ u * v \in Nat
  OBVIOUS
<1>4. b * y = a * x + a * v + u * x + u * v
  BY <1>1, <1>2
<1> QED
  BY <1>3, <1>4

(***************************************************************************)
(* What a division leaves.                                                 *)
(***************************************************************************)
LEMMA Quotient ==
  ASSUME NEW x \in Nat, NEW unit \in Nat \ {0}
  PROVE  /\ x \div unit \in Nat
         /\ unit * (x \div unit) \in Nat
         /\ unit * (x \div unit) <= x
         /\ x < unit * (x \div unit) + unit
  OBVIOUS

(***************************************************************************)
(* A whole number below another is below it by one or more, units and all. *)
(***************************************************************************)
LEMMA WholeUnits ==
  ASSUME NEW a \in Nat, NEW b \in Nat, NEW unit \in Nat \ {0}, a > b
  PROVE  unit * a >= unit * b + unit
<1>1. PICK u \in Nat : a = b + 1 + u
  <2>1. a - b - 1 \in Nat /\ a = b + 1 + (a - b - 1)
    OBVIOUS
  <2> QED
    BY <2>1
<1>2. unit * a = unit * b + unit + unit * u
  BY <1>1
<1>3. unit * u \in Nat /\ unit * b \in Nat
  OBVIOUS
<1> QED
  BY <1>2, <1>3

(***************************************************************************)
(* Cutting off fractions keeps the order.                                  *)
(***************************************************************************)
LEMMA QuotientGrows ==
  ASSUME NEW x \in Nat, NEW y \in Nat, NEW unit \in Nat \ {0}, x <= y
  PROVE  x \div unit <= y \div unit
<1> DEFINE a == x \div unit
           b == y \div unit
<1>1. /\ a \in Nat /\ unit * a \in Nat /\ unit * a <= x
      /\ b \in Nat /\ unit * b \in Nat /\ y < unit * b + unit
  BY Quotient
<1> HIDE DEF a, b
<1> SUFFICES ASSUME a > b PROVE FALSE
  BY <1>1 DEF a, b
<1>2. unit * a >= unit * b + unit
  BY <1>1, WholeUnits
<1> QED
  BY <1>1, <1>2

(***************************************************************************)
(* Whatever is cast, what comes out is an int.                             *)
(***************************************************************************)
LEMMA CastIsInt ==
  ASSUME NEW x \in Int, NEW unit \in Nat \ {0} PROVE ToInt(x, unit) \subseteq Int
<1>1. Truncated(x, unit) \in Int
  <2>1. CASE x >= 0
    <3>1. x \in Nat
      BY <2>1
    <3>2. x \div unit \in Nat
      BY <3>1, Quotient
    <3> QED
      BY <2>1, <3>2 DEF Truncated
  <2>2. CASE ~(x >= 0)
    <3>1. -x \in Nat
      BY <2>2
    <3>2. (-x) \div unit \in Nat
      BY <3>1, Quotient
    <3> QED
      BY <2>2, <3>2 DEF Truncated
  <2> QED
    BY <2>1, <2>2
<1> QED
  BY <1>1, IntMaxAssumption DEF ToInt

(***************************************************************************)
(* What fits loses its fraction and nothing else.                          *)
(***************************************************************************)
LEMMA CastExact ==
  ASSUME NEW x \in Nat, NEW unit \in Nat \ {0}, x \div unit <= IntMax
  PROVE  ToInt(x, unit) = {x \div unit}
<1>1. Truncated(x, unit) = x \div unit
  BY DEF Truncated
<1>2. x \div unit \in Nat
  BY Quotient
<1>3. x \div unit \in (-IntMax - 1)..IntMax
  BY <1>2, IntMaxAssumption
<1> QED
  BY <1>1, <1>3 DEF ToInt

(***************************************************************************)
(* The jitter of any delta is an int.                                      *)
(***************************************************************************)
LEMMA JitterInt == ASSUME NEW d \in Int PROVE Jitter(d) \subseteq Int
<1> SUFFICES ASSUME NEW j \in Jitter(d) PROVE j \in Int
  OBVIOUS
<1>1. 4 * d \in Int /\ 6 * d \in Int /\ 5 * Millisecond \in Nat \ {0}
  BY MillisecondAssumption
<1>2. PICK low \in JitterLow(d), high \in JitterHigh(d) : j \in RandomNext(low, high)
  BY DEF Jitter
<1>3. low \in Int /\ high \in Int
  BY <1>1, CastIsInt DEF JitterLow, JitterHigh
<1> QED
  BY <1>2, <1>3 DEF RandomNext

\* The least jitter, in whole milliseconds.
Least(d) == (4 * d) \div (5 * Millisecond)

(***************************************************************************)
(* Within the width of an int it is between one and two times its least,   *)
(* fractions cut off: the highest is below three halves of the least, as   *)
(* exact numbers, and both cuts together are worth less than one.          *)
(***************************************************************************)
LEMMA JitterRange ==
  ASSUME NEW d \in Nat, (6 * d) \div (5 * Millisecond) <= IntMax, NEW j \in Jitter(d)
  PROVE  /\ j \in Nat /\ Least(d) \in Nat
         /\ Least(d) <= j /\ j <= 2 * Least(d)
<1> DEFINE unit == 5 * Millisecond
           low == (4 * d) \div unit
           high == (6 * d) \div unit
<1>0. unit \in Nat \ {0} /\ 4 * d \in Nat /\ 6 * d \in Nat /\ 4 * d <= 6 * d
  BY MillisecondAssumption
<1> HIDE DEF unit
<1>1. /\ low \in Nat /\ unit * low \in Nat /\ 4 * d < unit * low + unit
      /\ high \in Nat /\ unit * high \in Nat /\ unit * high <= 6 * d
  BY <1>0, Quotient
<1>2. low <= high
  BY <1>0, QuotientGrows
<1>3. ToInt(4 * d, unit) = {low} /\ ToInt(6 * d, unit) = {high}
  <2>1. high <= IntMax
    BY DEF unit
  <2>2. low <= IntMax
    <3> HIDE DEF low, high
    <3> QED
      BY <1>1, <1>2, <2>1, IntMaxAssumption
  <2> QED
    BY <1>0, <2>1, <2>2, CastExact
<1>4. j \in RandomNext(low, high)
  <2>1. \E x \in ToInt(4 * d, unit), y \in ToInt(6 * d, unit) : j \in RandomNext(x, y)
    BY DEF Jitter, JitterLow, JitterHigh, unit
  <2> HIDE DEF low, high
  <2> QED
    BY <1>3, <2>1
<1>5. Least(d) = low
  BY DEF Least, unit
<1> HIDE DEF low, high
<1>6. high <= 2 * low + 1
  <2> SUFFICES ASSUME high > 2 * low + 1 PROVE FALSE
    BY <1>1
  <2>1. unit * high >= unit * (2 * low + 1) + unit
    BY <1>0, <1>1, WholeUnits
  <2>2. unit * (2 * low + 1) + unit = 2 * (unit * low) + 2 * unit
    BY <1>0, <1>1
  <2>3. 6 * d >= 2 * (unit * low) + 2 * unit
    BY <1>0, <1>1, <2>1, <2>2
  <2> QED
    BY <1>0, <1>1, <2>3
<1>7. j \in Nat /\ low <= j /\ j <= 2 * low
  BY <1>1, <1>2, <1>4, <1>6 DEF RandomNext
<1> QED
  BY <1>1, <1>5, <1>7

\* The settings an exponential strategy backs off with as it should.
Regular(s) ==
  /\ {s.min, s.max, s.delta} \subseteq Nat /\ s.min <= s.max
  /\ FitsInt(s)

\* What the strategy would wait for without the cut and the cast.
Uncut(s, power, j) == s.min + (power - 1) * j * Millisecond

\* The ticks that are left of a number of ticks.
WholeTicks(x) == Millisecond * (x \div Millisecond)

(***************************************************************************)
(* Casting keeps the order, and shortens.                                  *)
(***************************************************************************)
LEMMA WholeTicksGrow ==
  ASSUME NEW x \in Nat, NEW y \in Nat, x <= y
  PROVE  /\ WholeTicks(x) \in Nat /\ WholeTicks(y) \in Nat
         /\ WholeTicks(x) <= WholeTicks(y) /\ WholeTicks(x) <= x
<1>1. /\ x \div Millisecond \in Nat /\ y \div Millisecond \in Nat
      /\ Millisecond * (x \div Millisecond) \in Nat
      /\ Millisecond * (y \div Millisecond) \in Nat
      /\ Millisecond * (x \div Millisecond) <= x
  BY MillisecondAssumption, Quotient
<1>2. x \div Millisecond <= y \div Millisecond
  BY MillisecondAssumption, QuotientGrows
<1>3. Millisecond * (x \div Millisecond) <= Millisecond * (y \div Millisecond)
  BY <1>1, <1>2, MillisecondAssumption, ProductGrows
<1> QED
  BY <1>1, <1>3 DEF WholeTicks

(***************************************************************************)
(* What an exponential strategy that fits answers: the minimum and its     *)
(* share of the jitter, cut at the maximum, in whole milliseconds; so it   *)
(* is within the bounds.                                                   *)
(***************************************************************************)
LEMMA ExponentialAnswer ==
  ASSUME NEW s, Regular(s), NEW n \in Nat, NEW a \in ExponentialIntervals(s, n)
  PROVE  \E j \in Jitter(s.delta) :
           /\ Uncut(s, PowerOfTwo[n], j) \in Nat
           /\ a = WholeTicks(Lesser(Uncut(s, PowerOfTwo[n], j), s.max))
           /\ a \in WholeTicks(s.min)..s.max
<1>1. /\ s.min \in Nat /\ s.max \in Nat /\ s.delta \in Nat /\ s.min <= s.max
      /\ s.max \div Millisecond <= IntMax
      /\ (6 * s.delta) \div (5 * Millisecond) <= IntMax
  BY DEF Regular, FitsInt
<1>2. PICK j \in Jitter(s.delta) :
        a \in InMilliseconds(Lesser(Uncut(s, PowerOfTwo[n], j), s.max))
  BY DEF ExponentialIntervals, Uncut
<1>3. j \in Nat
  BY <1>1, JitterRange
<1>4. PowerOfTwo[n] - 1 \in Nat
  BY PowersOfTwo
<1>5. (PowerOfTwo[n] - 1) * j * Millisecond \in Nat
  BY <1>3, <1>4, MillisecondAssumption
<1> DEFINE uncut == Uncut(s, PowerOfTwo[n], j)
           cut == Lesser(uncut, s.max)
<1>6. uncut \in Nat /\ s.min <= uncut
  BY <1>1, <1>5 DEF Uncut
<1> HIDE DEF uncut
<1>7. cut \in Nat /\ s.min <= cut /\ cut <= s.max
  BY <1>1, <1>6 DEF Lesser
<1> HIDE DEF cut
<1>8. a = WholeTicks(cut)
  <2>1. cut \div Millisecond <= s.max \div Millisecond
    BY <1>1, <1>7, MillisecondAssumption, QuotientGrows
  <2>2. cut \div Millisecond \in Nat /\ s.max \div Millisecond \in Nat
    BY <1>1, <1>7, MillisecondAssumption, Quotient
  <2>3. cut \div Millisecond <= IntMax
    BY <1>1, <2>1, <2>2, IntMaxAssumption
  <2>4. ToInt(cut, Millisecond) = {cut \div Millisecond}
    BY <1>7, <2>3, MillisecondAssumption, CastExact
  <2>5. a = (cut \div Millisecond) * Millisecond
    BY <1>2, <2>4 DEF InMilliseconds, cut, uncut
  <2> QED
    BY <2>2, <2>5, MillisecondAssumption DEF WholeTicks
<1>9. a \in WholeTicks(s.min)..s.max
  BY <1>1, <1>7, <1>8, WholeTicksGrow
<1> QED
  BY <1>6, <1>8, <1>9 DEF cut, uncut

(***************************************************************************)
(* Of two answers in a row the second is no shorter: its power is twice    *)
(* the first one's, of two jitters of one delta neither is more than twice *)
(* the other, and the casts keep the order.                                *)
(***************************************************************************)
LEMMA ExponentialGrows ==
  ASSUME NEW s, Regular(s), NEW n \in Nat,
         NEW a \in ExponentialIntervals(s, n), NEW b \in ExponentialIntervals(s, n + 1)
  PROVE  a <= b
<1>1. /\ s.min \in Nat /\ s.max \in Nat /\ s.delta \in Nat /\ s.min <= s.max
      /\ (6 * s.delta) \div (5 * Millisecond) <= IntMax
  BY DEF Regular, FitsInt
<1>2. PICK j \in Jitter(s.delta) :
        /\ Uncut(s, PowerOfTwo[n], j) \in Nat
        /\ a = WholeTicks(Lesser(Uncut(s, PowerOfTwo[n], j), s.max))
  BY ExponentialAnswer
<1>3. PICK k \in Jitter(s.delta) :
        /\ Uncut(s, PowerOfTwo[n + 1], k) \in Nat
        /\ b = WholeTicks(Lesser(Uncut(s, PowerOfTwo[n + 1], k), s.max))
  <2>1. n + 1 \in Nat
    OBVIOUS
  <2> QED
    BY <2>1, ExponentialAnswer
<1> DEFINE low == Least(s.delta)
<1>4. /\ j \in Nat /\ k \in Nat /\ low \in Nat /\ j <= 2 * low /\ low <= k
  BY <1>1, JitterRange
<1> HIDE DEF low
<1>5. PICK p \in Nat : p = PowerOfTwo[n] - 1 /\ PowerOfTwo[n + 1] - 1 = 2 * p + 1
  <2>1. /\ PowerOfTwo[n] \in Nat /\ PowerOfTwo[n] >= 1
        /\ PowerOfTwo[n + 1] = 2 * PowerOfTwo[n]
    BY PowersOfTwo
  <2> QED
    BY <2>1
<1>6. p * j \in Nat /\ (2 * p + 1) * k \in Nat /\ p * j <= (2 * p + 1) * k
  <2>1. p * j <= p * (2 * low)
    BY <1>4, <1>5, ProductGrows
  <2>2. p * (2 * low) = (2 * p) * low
    BY <1>4, <1>5
  <2>3. (2 * p) * low <= (2 * p + 1) * k
    BY <1>4, <1>5, ProductGrows
  <2>4. p * j \in Nat /\ (2 * p) * low \in Nat /\ (2 * p + 1) * k \in Nat
    BY <1>4, <1>5
  <2> QED
    BY <2>1, <2>2, <2>3, <2>4
<1> DEFINE shorter == p * j
           longer == (2 * p + 1) * k
<1>7. /\ Uncut(s, PowerOfTwo[n], j) = s.min + shorter * Millisecond
      /\ Uncut(s, PowerOfTwo[n + 1], k) = s.min + longer * Millisecond
  BY <1>5 DEF Uncut
<1> HIDE DEF shorter, longer
<1>8. /\ shorter * Millisecond \in Nat /\ longer * Millisecond \in Nat
      /\ shorter * Millisecond <= longer * Millisecond
  <2>1. shorter \in Nat /\ longer \in Nat /\ shorter <= longer
    BY <1>6 DEF shorter, longer
  <2> QED
    BY <2>1, MillisecondAssumption, ProductGrows
<1>9. Lesser(Uncut(s, PowerOfTwo[n], j), s.max) <= Lesser(Uncut(s, PowerOfTwo[n + 1], k), s.max)
  BY <1>1, <1>7, <1>8 DEF Lesser
<1>10. /\ Lesser(Uncut(s, PowerOfTwo[n], j), s.max) \in Nat
       /\ Lesser(Uncut(s, PowerOfTwo[n + 1], k), s.max) \in Nat
  BY <1>1, <1>2, <1>3 DEF Lesser
<1> QED
  BY <1>2, <1>3, <1>9, <1>10, WholeTicksGrow

-----------------------------------------------------------------------------
(* The invariant, and the two properties of the backoff.                   *)

\* The strategy is the one the switch made of the options, its numbers passed
\* the constructor's guards before any retry, and the last interval was an
\* answer to the retry before this one.
Answered ==
  /\ options \in Candidates
  /\ currentRetryCount \in Nat /\ interval \in Int
  /\ phase = "new" => strategy = NoStrategy /\ currentRetryCount = 0
  /\ phase # "new" => strategy = StrategyFor(options)
  /\ phase = "constructed" \/ currentRetryCount > 0 => ArgumentsAccepted(strategy)
  /\ currentRetryCount > 0 =>
       /\ strategy.class # "None"
       /\ interval \in Intervals(strategy, currentRetryCount - 1)

(***************************************************************************)
(* The numbers of the strategy in use, once a retry has been answered.     *)
(***************************************************************************)
LEMMA NumbersInUse ==
  ASSUME Answered, phase # "new"
  PROVE  /\ strategy.class \in {"Fixed", "Incremental", "Exponential", "None"}
         /\ {strategy.retryCount, strategy.initial, strategy.increment,
             strategy.min, strategy.max, strategy.delta} \subseteq Int
  BY StrategyNumbers DEF Answered

(***************************************************************************)
(* Every answer of every class is an int.                                  *)
(***************************************************************************)
LEMMA AnswersAreInts ==
  ASSUME NEW s, s.class \in {"Fixed", "Incremental", "Exponential"},
         {s.initial, s.increment, s.min, s.max, s.delta} \subseteq Int,
         NEW n \in Nat, NEW a \in Intervals(s, n)
  PROVE  a \in Int
<1>1. CASE s.class = "Fixed"
  BY <1>1 DEF Intervals
<1>2. CASE s.class = "Incremental"
  <2>1. a = s.initial + s.increment * n
    BY <1>2 DEF Intervals
  <2> QED
    BY <2>1
<1>3. CASE s.class = "Exponential"
  <2>1. a \in ExponentialIntervals(s, n)
    BY <1>3 DEF Intervals
  <2>2. PICK j \in Jitter(s.delta) : a \in InMilliseconds(Lesser(Uncut(s, PowerOfTwo[n], j), s.max))
    BY <2>1 DEF ExponentialIntervals, Uncut
  <2>3. j \in Int /\ PowerOfTwo[n] \in Int
    BY JitterInt, PowersOfTwo
  <2>4. (PowerOfTwo[n] - 1) * j * Millisecond \in Int
    BY <2>3, MillisecondAssumption
  <2>5. Uncut(s, PowerOfTwo[n], j) \in Int
    BY <2>4 DEF Uncut
  <2>6. Lesser(Uncut(s, PowerOfTwo[n], j), s.max) \in Int
    BY <2>5 DEF Lesser
  <2>7. PICK whole \in ToInt(Lesser(Uncut(s, PowerOfTwo[n], j), s.max), Millisecond) :
          a = whole * Millisecond
    BY <2>2 DEF InMilliseconds
  <2>8. whole \in Int
    BY <2>6, CastIsInt, MillisecondAssumption
  <2> QED
    BY <2>7, <2>8, MillisecondAssumption
<1> QED
  BY <1>1, <1>2, <1>3

(***************************************************************************)
(* Of two answers in a row of a strategy that fits, whatever its class,    *)
(* the second is no shorter.                                               *)
(***************************************************************************)
LEMMA AnswersGrow ==
  ASSUME NEW s, s.class \in {"Fixed", "Incremental", "Exponential"},
         {s.initial, s.increment, s.min, s.max, s.delta} \subseteq Int,
         ArgumentsAccepted(s), FitsInt(s),
         NEW n \in Nat, NEW a \in Intervals(s, n), NEW b \in Intervals(s, n + 1)
  PROVE  a <= b
<1>1. CASE s.class = "Fixed"
  BY <1>1 DEF Intervals
<1>2. CASE s.class = "Incremental"
  <2>1. a = s.initial + s.increment * n /\ b = s.initial + s.increment * (n + 1)
    BY <1>2 DEF Intervals
  <2>2. s.initial \in Int /\ s.increment \in Nat
    BY DEF ArgumentsAccepted
  <2>3. s.increment * n <= s.increment * (n + 1)
    <3>1. n <= n + 1 /\ n + 1 \in Nat /\ s.increment <= s.increment
      BY <2>2
    <3> QED
      BY <2>2, <3>1, ProductGrows
  <2>4. s.increment * n \in Int /\ s.increment * (n + 1) \in Int
    BY <2>2
  <2> QED
    BY <2>1, <2>2, <2>3, <2>4
<1>3. CASE s.class = "Exponential"
  <2>1. a \in ExponentialIntervals(s, n) /\ b \in ExponentialIntervals(s, n + 1)
    BY <1>3 DEF Intervals
  <2>2. Regular(s)
    BY DEF ArgumentsAccepted, Regular
  <2> QED
    BY <2>1, <2>2, ExponentialGrows
<1> QED
  BY <1>1, <1>2, <1>3

(***************************************************************************)
(* No interval has been answered yet.                                      *)
(***************************************************************************)
LEMMA AnsweredInitially == Init => Answered
  BY DEF Init, Answered

(***************************************************************************)
(* Only ShouldRetry answers, and it answers to the retry it counts.        *)
(***************************************************************************)
LEMMA AnsweredInductive == Answered /\ [Next]_vars => Answered'
<1> SUFFICES ASSUME Answered, [Next]_vars PROVE Answered'
  OBVIOUS
<1>1. CASE Construct
  <2>1. /\ phase = "new" /\ options' = options
        /\ currentRetryCount' = currentRetryCount /\ interval' = interval
        /\ strategy' = StrategyFor(options)
        /\ phase' = IF ArgumentsAccepted(strategy') THEN "constructed" ELSE "rejected"
    BY <1>1 DEF Construct
  <2>2. currentRetryCount = 0 /\ options' \in Candidates /\ interval' \in Int
    BY <2>1 DEF Answered
  <2>3. phase' # "new" /\ (phase' = "constructed" => ArgumentsAccepted(strategy'))
    BY <2>1
  <2>4. strategy' = StrategyFor(options')
    BY <2>1
  <2> QED
    BY <2>1, <2>2, <2>3, <2>4 DEF Answered
<1>2. CASE ShouldRetry
  <2>1. /\ phase = "constructed" /\ phase' = "constructed"
        /\ options' = options /\ strategy' = strategy /\ strategy.class # "None"
        /\ interval' \in Intervals(strategy, currentRetryCount)
        /\ currentRetryCount' = currentRetryCount + 1
    BY <1>2 DEF ShouldRetry
  <2>2. /\ options \in Candidates /\ currentRetryCount \in Nat
        /\ strategy = StrategyFor(options) /\ ArgumentsAccepted(strategy)
    BY <2>1 DEF Answered
  <2>3. interval' \in Int
    BY <2>1, <2>2, NumbersInUse, AnswersAreInts
  <2>4. currentRetryCount' - 1 = currentRetryCount
    BY <2>1, <2>2
  <2>5. interval' \in Intervals(strategy', currentRetryCount' - 1)
    BY <2>1, <2>4
  <2>6. ArgumentsAccepted(strategy')
    BY <2>1, <2>2
  <2>7. strategy' = StrategyFor(options')
    BY <2>1, <2>2
  <2> QED
    BY <2>1, <2>2, <2>3, <2>5, <2>6, <2>7 DEF Answered
<1>3. CASE ShouldNotRetry \/ NoHandler \/ HandlerThrows
  <2>1. /\ phase = "constructed" /\ phase' # "new" /\ phase' # "constructed"
        /\ UNCHANGED <<options, strategy, currentRetryCount, interval>>
    BY <1>3 DEF ShouldNotRetry, NoHandler, HandlerThrows
  <2>2. StrategyFor(options') = StrategyFor(options)
    BY <2>1
  <2>3. ArgumentsAccepted(strategy') <=> ArgumentsAccepted(strategy)
    BY <2>1
  <2>4. /\ strategy'.class = strategy.class
        /\ Intervals(strategy', currentRetryCount' - 1)
             = Intervals(strategy, currentRetryCount - 1)
    BY <2>1
  <2> QED
    BY <2>1, <2>2, <2>3, <2>4 DEF Answered
<1>4. CASE UNCHANGED vars
  <2>1. UNCHANGED <<options, strategy, phase, currentRetryCount, interval>>
    BY <1>4 DEF vars
  <2>2. StrategyFor(options') = StrategyFor(options)
    BY <2>1
  <2>3. ArgumentsAccepted(strategy') <=> ArgumentsAccepted(strategy)
    BY <2>1
  <2>4. /\ strategy'.class = strategy.class
        /\ Intervals(strategy', currentRetryCount' - 1)
             = Intervals(strategy, currentRetryCount - 1)
    BY <2>1
  <2> QED
    BY <2>1, <2>2, <2>3, <2>4 DEF Answered
<1> QED
  BY <1>1, <1>2, <1>3, <1>4 DEF Next

(***************************************************************************)
(* The bounds of the constructor bound every exponential answer.           *)
(***************************************************************************)
LEMMA AnsweredWithinBounds == Answered => BackoffWithinBounds
<1> SUFFICES ASSUME Answered, strategy.class = "Exponential", FitsInt(strategy),
                    currentRetryCount > 0
             PROVE  interval \in WholeTicks(strategy.min)..strategy.max
  BY DEF BackoffWithinBounds, WholeTicks
<1>1. /\ currentRetryCount \in Nat /\ phase # "new" /\ ArgumentsAccepted(strategy)
      /\ interval \in Intervals(strategy, currentRetryCount - 1)
  BY DEF Answered
<1>2. currentRetryCount - 1 \in Nat
  BY <1>1
<1>3. Regular(strategy)
  BY <1>1, NumbersInUse DEF Regular, ArgumentsAccepted
<1>4. interval \in ExponentialIntervals(strategy, currentRetryCount - 1)
  BY <1>1 DEF Intervals
<1> QED
  BY <1>2, <1>3, <1>4, ExponentialAnswer

(***************************************************************************)
(* No step of an execution shortens the interval, as long as the strategy  *)
(* fits an int.                                                            *)
(***************************************************************************)
LEMMA AnswerNeverShrinks ==
  ASSUME Answered, [Next]_vars, currentRetryCount > 0, FitsInt(strategy)
  PROVE  interval' >= interval
<1>1. currentRetryCount \in Nat /\ interval \in Int /\ phase # "new"
  BY DEF Answered
<1>2. CASE ShouldRetry
  <2>1. /\ interval' \in Intervals(strategy, currentRetryCount)
        /\ interval \in Intervals(strategy, currentRetryCount - 1)
        /\ strategy.class # "None" /\ ArgumentsAccepted(strategy)
    BY <1>2 DEF ShouldRetry, Answered
  <2>2. currentRetryCount - 1 \in Nat /\ (currentRetryCount - 1) + 1 = currentRetryCount
    BY <1>1
  <2>3. interval <= interval'
    BY <1>1, <2>1, <2>2, NumbersInUse, AnswersGrow
  <2>4. interval' \in Int
    BY <1>1, <2>1, NumbersInUse, AnswersAreInts
  <2> QED
    BY <1>1, <2>3, <2>4
<1>3. CASE Construct \/ ShouldNotRetry \/ NoHandler \/ HandlerThrows \/ UNCHANGED vars
  BY <1>1, <1>3 DEF Construct, ShouldNotRetry, NoHandler, HandlerThrows, vars
<1> QED
  BY <1>2, <1>3 DEF Next

(***************************************************************************)
(* Whatever the settings and however many retries: an exponential interval *)
(* lies within the two bounds, less the fraction of a millisecond the cast *)
(* takes off, wherever its jitter falls and however far the power of two   *)
(* has grown, while the bounds fit an int.                                 *)
(***************************************************************************)
THEOREM BackoffBounded == Spec => []BackoffWithinBounds
<1>1. Init => Answered
  BY AnsweredInitially
<1>2. Answered /\ [Next]_vars => Answered'
  BY AnsweredInductive
<1>3. Answered => BackoffWithinBounds
  BY AnsweredWithinBounds
<1> QED
  BY <1>1, <1>2, <1>3, PTL DEF Spec

(***************************************************************************)
(* Whatever the class and its settings: an interval is never shorter than  *)
(* the one before it, as doubling outruns a jitter that can at most halve. *)
(***************************************************************************)
THEOREM BackoffMonotone == Spec => BackoffNeverShrinks
<1>1. Init => Answered
  BY AnsweredInitially
<1>2. Answered /\ [Next]_vars => Answered'
  BY AnsweredInductive
<1>3. Answered /\ [Next]_vars =>
        [currentRetryCount > 0 /\ FitsInt(strategy) => interval' >= interval]_vars
  BY AnswerNeverShrinks
<1> QED
  BY <1>1, <1>2, <1>3, PTL DEF Spec, BackoffNeverShrinks
=============================================================================
