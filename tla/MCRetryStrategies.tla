-------------------------- MODULE MCRetryStrategies --------------------------
(***************************************************************************)
(* Small settings: an int of eight bits, two ticks to the millisecond, and *)
(* arguments on both sides of every guard, whole milliseconds and halves.  *)
(***************************************************************************)
EXTENDS RetryStrategies

\* Settings that matter to one class carry fillers for the others.
Setting(name, count, first, step, least, most, d) ==
  [Enabled |-> TRUE, RetryStrategyName |-> name, RetryCount |-> count,
   Interval |-> first, Increment |-> step, MinBackoff |-> least,
   MaxBackoff |-> most, DeltaBackoff |-> d]

MCEnabled ==
  {Setting("Fixed", c, i, 1, 1, 9, 9) : c \in -1..3, i \in {-1, 0, 4}}
  \cup {Setting("Incremental", c, i, d, 1, 9, 9) :
          c \in -1..3, i \in {-1, 0, 4}, d \in {-1, 0, 3}}
  \cup {Setting("Exponential", c, 1, 1, m, x, d) :
          c \in {-1, 0, 1, 4}, m \in {-1, 0, 3, 4}, x \in {3, 21, 40, 255, 400},
          d \in {-1, 0, 1, 2, 3, 5, 8, 14, 240, 400}}
  \cup {Setting("Other", c, 1, 1, 1, 9, 9) : c \in {0, 3}}

MCCandidates ==
  MCEnabled \cup {[o EXCEPT !.Enabled = FALSE] : o \in MCEnabled}

=============================================================================
