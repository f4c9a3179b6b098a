---------------------------- MODULE MCRetryPolicy ----------------------------
(***************************************************************************)
(* Small instances of RetryPolicy: two calls that share the policy, and a  *)
(* strategy whose first answer may be negative and whose later ones grow   *)
(* with some jitter.                                                       *)
(***************************************************************************)
EXTENDS RetryPolicy

MCDelays == [c \in 0..RetryCount |-> IF c = 0 THEN {-1, 1} ELSE {c, c + 1}]
=============================================================================
