-------------------------- MODULE MCAsyncExecution --------------------------
(***************************************************************************)
(* Small instances of AsyncExecution: a strategy whose first answers may   *)
(* be negative, zero or positive and whose later ones grow with some       *)
(* jitter.                                                                 *)
(***************************************************************************)
EXTENDS AsyncExecution

MCDelays == [c \in 0..RetryCount |-> IF c = 0 THEN {-1, 0, 1} ELSE {c, c + 1}]
=============================================================================
