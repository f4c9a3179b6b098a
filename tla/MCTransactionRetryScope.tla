----------------------- MODULE MCTransactionRetryScope -----------------------
(***************************************************************************)
(* Three scopes on two threads and two policies, for TLC.                  *)
(***************************************************************************)
EXTENDS TransactionRetryScope

CONSTANTS s1, s2, s3, t1, t2, p1, p2

\* Scopes, threads and policies can be renamed: of the arrangements that are
\* the same up to their names, one is kept.  Two scopes share thread and policy
\* and the third is anywhere, or s1 shares the one with s2, the other with s3.
Place(s) == <<thread[s], policy[s]>>

MCInit ==
  /\ Init
  /\ Place(s1) = <<t1, p1>>
  /\ \/ Place(s2) = <<t1, p1>>
     \/ Place(s2) = <<t1, p2>> /\ Place(s3) = <<t2, p1>>

MCSpec ==
  /\ MCInit
  /\ [][Next]_vars
  /\ \A s \in Scopes : WF_vars(ScopeStep(s) /\ UNCHANGED <<thread, policy>>)
=============================================================================
