----------------------------- MODULE MCDocSearch -----------------------------
(***************************************************************************)
(* A query for each case: too short, without results, with one page of     *)
(* them, with two, and one that cannot be parsed.                          *)
(***************************************************************************)
EXTENDS DocSearch

MCQueries == {"no", "none", "some", "many", "a~b"}

MCLong == MCQueries \ {"no"}

MCPages == [q \in MCQueries |-> CASE q = "many" -> 2 [] q = "none" -> 0 [] OTHER -> 1]
=============================================================================
