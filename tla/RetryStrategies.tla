--------------------------- MODULE RetryStrategies ---------------------------
(***************************************************************************)
(* The retry strategy a policy gets from its options, and what the         *)
(* ShouldRetry handler of that strategy answers to one execution that      *)
(* consults it retry after retry.  The other constructors of RetryPolicy   *)
(* are calls with the same settings written out.  Time is in ticks, the    *)
(* unit of a TimeSpan: a setting need not be a whole number of             *)
(* milliseconds (10000 ticks in the program, fewer in a model), but the    *)
(* exponential strategy converts its interval to an int of them.  IntMax   *)
(* is the largest int (2^31 - 1 in the program, less in a model).          *)
(***************************************************************************)
EXTENDS Integers

CONSTANTS
  Candidates,   \* the options policies are constructed from
  Millisecond,  \* TimeSpan.TicksPerMillisecond
  IntMax        \* Int32.MaxValue

ASSUME MillisecondAssumption == Millisecond \in Nat \ {0}
ASSUME IntMaxAssumption == IntMax \in Nat
ASSUME CandidatesAssumption ==
  \A o \in Candidates :
    /\ o.Enabled \in BOOLEAN
    /\ {o.RetryCount, o.Interval, o.Increment, o.MinBackoff, o.MaxBackoff,
        o.DeltaBackoff} \subseteq Int

VARIABLES
  options,            \* RetryPolicyOptions, or the arguments written out
  strategy,           \* RetryPolicy.RetryStrategy
  phase,              \* "new", "rejected", "constructed", "stopped", "failed"
  currentRetryCount,  \* retries asked for so far
  interval            \* the last DelayBeforeRetry answered

vars == <<options, strategy, phase, currentRetryCount, interval>>

\* One record for the three classes; a class ignores the fields it lacks.
Fixed(count, every) ==
  [class |-> "Fixed", retryCount |-> count, initial |-> every, increment |-> 0,
   min |-> 0, max |-> 0, delta |-> 0]
Incremental(count, first, step) ==
  [class |-> "Incremental", retryCount |-> count, initial |-> first,
   increment |-> step, min |-> 0, max |-> 0, delta |-> 0]
Exponential(count, least, most, d) ==
  [class |-> "Exponential", retryCount |-> count, initial |-> 0, increment |-> 0,
   min |-> least, max |-> most, delta |-> d]

DefaultRetryInterval == 1000 * Millisecond
NoRetry == Fixed(0, DefaultRetryInterval)

\* The null reference that is left for a name that is none of the three.
NoStrategy == [NoRetry EXCEPT !.class = "None"]

StrategyFor_AlwaysEnabled(o) ==
  CASE o.RetryStrategyName = "Exponential" ->
         Exponential(o.RetryCount, o.MinBackoff, o.MaxBackoff, o.DeltaBackoff)
    [] o.RetryStrategyName = "Incremental" ->
         Incremental(o.RetryCount, o.Interval, o.Increment)
    [] o.RetryStrategyName = "Fixed" -> Fixed(o.RetryCount, o.Interval)
    [] OTHER -> NoStrategy

\* The switch of the constructor.
StrategyFor(o) ==
  CASE ~o.Enabled -> NoRetry
    [] o.Enabled /\ o.RetryStrategyName = "Exponential" ->
         Exponential(o.RetryCount, o.MinBackoff, o.MaxBackoff, o.DeltaBackoff)
    [] o.Enabled /\ o.RetryStrategyName = "Incremental" ->
         Incremental(o.RetryCount, o.Interval, o.Increment)
    [] o.Enabled /\ o.RetryStrategyName = "Fixed" -> Fixed(o.RetryCount, o.Interval)
    [] OTHER -> NoStrategy

-----------------------------------------------------------------------------
(* The constructors' guards.                                               *)

ArgumentsAccepted(s) ==
  /\ s.retryCount >= 0
  /\ s.initial >= 0 /\ s.increment >= 0
  /\ s.min >= 0 /\ s.max >= 0 /\ s.delta >= 0
  /\ s.min <= s.max

-----------------------------------------------------------------------------
(* The handlers.                                                           *)

\* x / unit without its fraction.
Truncated(x, unit) == IF x >= 0 THEN x \div unit ELSE -((-x) \div unit)

\* The cast (int) of the double x / unit.  Out of range, what comes out depends
\* on the runtime: Int32.MinValue, or the nearest bound.
ToInt(x, unit) ==
  IF Truncated(x, unit) \in (-IntMax - 1)..IntMax THEN {Truncated(x, unit)}
  ELSE {-IntMax - 1, IntMax}

\* Random.Next(low, high): low when the two are equal; it throws (the empty
\* set) when low is above high.
RandomNext(low, high) == IF low = high THEN {low} ELSE low..(high - 1)

\* 80% and 120% of the delta, in whole milliseconds.
JitterLow(d) == ToInt(4 * d, 5 * Millisecond)
JitterHigh(d) == ToInt(6 * d, 5 * Millisecond)

Jitter_TooWide(d) == UNION {RandomNext(low, high) : low \in ToInt(2 * d, 5 * Millisecond),
                                                    high \in JitterHigh(d)}

\* Random.Next between the two.
Jitter(d) == UNION {RandomNext(low, high) : low \in JitterLow(d),
                                            high \in JitterHigh(d)}

Lesser(a, b) == IF a < b THEN a ELSE b

\* Math.Pow(2, n)
PowerOfTwo[n \in Nat] == IF n = 0 THEN 1 ELSE 2 * PowerOfTwo[n - 1]

\* The ticks of an interval that was cast to whole milliseconds.
InMilliseconds(ticks) == {whole * Millisecond : whole \in ToInt(ticks, Millisecond)}

ExponentialIntervals_Uncapped(s, count) ==
  UNION {InMilliseconds(s.min + (PowerOfTwo[count] - 1) * j * Millisecond) :
           j \in Jitter(s.delta)}

ExponentialIntervals(s, count) ==
  UNION {InMilliseconds(Lesser(s.min + (PowerOfTwo[count] - 1) * j * Millisecond, s.max)) :
           j \in Jitter(s.delta)}

\* The intervals a handler may answer to the given retry, counted from 0.
Intervals(s, count) ==
  CASE s.class = "Fixed" -> {s.initial}
    [] s.class = "Incremental" -> {s.initial + s.increment * count}
    [] s.class = "Exponential" -> ExponentialIntervals(s, count)

RetryAllowed(s, count) == count < s.retryCount

-----------------------------------------------------------------------------

Init ==
  /\ options \in Candidates
  /\ strategy = NoStrategy
  /\ phase = "new"
  /\ currentRetryCount = 0
  /\ interval = 0

Construct ==
  /\ phase = "new"
  /\ strategy' = StrategyFor(options)
  /\ phase' = IF ArgumentsAccepted(strategy') THEN "constructed" ELSE "rejected"
  /\ UNCHANGED <<options, currentRetryCount, interval>>

ShouldRetry ==
  /\ phase = "constructed"
  /\ strategy.class # "None"
  /\ RetryAllowed(strategy, currentRetryCount)
  /\ interval' \in Intervals(strategy, currentRetryCount)
  /\ currentRetryCount' = currentRetryCount + 1
  /\ UNCHANGED <<options, strategy, phase>>

ShouldNotRetry ==
  /\ phase = "constructed"
  /\ strategy.class # "None"
  /\ ~RetryAllowed(strategy, currentRetryCount)
  /\ phase' = "stopped"
  /\ UNCHANGED <<options, strategy, currentRetryCount, interval>>

\* GetShouldRetryHandler of a null reference.
NoHandler ==
  /\ phase = "constructed"
  /\ strategy.class = "None"
  /\ phase' = "failed"
  /\ UNCHANGED <<options, strategy, currentRetryCount, interval>>

\* Random.Next throws when the bounds were mangled by the casts.
HandlerThrows ==
  /\ phase = "constructed"
  /\ strategy.class = "Exponential"
  /\ RetryAllowed(strategy, currentRetryCount)
  /\ \E low \in JitterLow(strategy.delta), high \in JitterHigh(strategy.delta) : low > high
  /\ phase' = "failed"
  /\ UNCHANGED <<options, strategy, currentRetryCount, interval>>

Next == Construct \/ ShouldRetry \/ ShouldNotRetry \/ NoHandler \/ HandlerThrows

Spec == Init /\ [][Next]_vars

-----------------------------------------------------------------------------
(* Properties.                                                             *)

\* Nothing of the strategy reaches past the width of an int.
FitsInt(s) ==
  /\ s.max \div Millisecond <= IntMax
  /\ (6 * s.delta) \div (5 * Millisecond) <= IntMax

(***************************************************************************)
(* A policy retries as often as its options say, and not at all when they  *)
(* disable it, whichever class the options name and whatever its handler   *)
(* counts from.                                                            *)
(***************************************************************************)
BudgetExact ==
  LET budget == IF options.Enabled THEN options.RetryCount ELSE 0
  IN  /\ currentRetryCount > 0 => currentRetryCount <= budget
      /\ phase = "stopped" => currentRetryCount = budget

(***************************************************************************)
(* A strategy backs off: within one execution an interval is never shorter *)
(* than the one before, for all that each exponential interval draws its   *)
(* own jitter and is cut at the maximum.                                   *)
(***************************************************************************)
BackoffNeverShrinks ==
  [][currentRetryCount > 0 /\ FitsInt(strategy) => interval' >= interval]_vars

(***************************************************************************)
(* An exponential interval never exceeds the maximum the constructor       *)
(* accepted, and of the minimum it falls short by no more than the         *)
(* fraction of a millisecond the cast cuts off, while the bounds fit an    *)
(* int.                                                                    *)
(***************************************************************************)
BackoffWithinBounds ==
  strategy.class = "Exponential" /\ FitsInt(strategy) /\ currentRetryCount > 0
    => interval \in (Millisecond * (strategy.min \div Millisecond))..strategy.max

=============================================================================
