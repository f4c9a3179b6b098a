--------------------------- MODULE ConnectionLease ---------------------------
(***************************************************************************)
(* What a retrying command promises to the owner of its connection,        *)
(* however often it fails, reconnects and tries again.  A call borrows the *)
(* connection it is given open; it may take one where there is none; when  *)
(* it ends, what it took has been given back or is in the hands of the     *)
(* owner, and what it borrowed is still there, unless the connection       *)
(* itself was lost.                                                        *)
(***************************************************************************)

VARIABLES
  busy,      \* a call is under way
  open,      \* the connection is open
  owned,     \* the owner knows that it is, and will close it
  borrowed,  \* the call in progress, or the last one, was given it open
  reader,    \* a reader is open on it
  handed     \* the last call handed a reader to the owner

vars == <<busy, open, owned, borrowed, reader, handed>>

Init ==
  /\ busy = FALSE
  /\ open = FALSE
  /\ owned = FALSE
  /\ borrowed = FALSE
  /\ reader = FALSE
  /\ handed = FALSE

-----------------------------------------------------------------------------
(* The owner.                                                              *)

\* Between calls the owner may open, close and read as it likes.
OwnerActs ==
  /\ ~busy
  /\ open' \in BOOLEAN
  /\ owned' = open'
  /\ reader' \in BOOLEAN
  /\ reader' => open' /\ reader
  /\ borrowed' = FALSE /\ handed' = FALSE
  /\ UNCHANGED busy

\* A call is made; it may be refused on the spot.
Begin ==
  /\ ~busy
  /\ busy' \in BOOLEAN
  /\ borrowed' \in BOOLEAN
  /\ borrowed' => open
  /\ handed' = FALSE
  /\ UNCHANGED <<open, owned, reader>>

-----------------------------------------------------------------------------
(* What a call may do to the connection in one step.                       *)

Keep == UNCHANGED <<open, owned, borrowed>>

Take == ~open /\ open' = TRUE /\ UNCHANGED <<owned, borrowed>>

\* Only what is not borrowed is given up.
GiveUp == ~borrowed /\ open' = FALSE /\ owned' = FALSE /\ UNCHANGED borrowed

Lose == open' = FALSE /\ owned' = FALSE /\ borrowed' = FALSE

\* A reader does not outlive its connection.
ReaderFollows == reader' \in BOOLEAN /\ (reader' => open')

Work ==
  /\ busy /\ busy' = TRUE
  /\ Keep \/ Take \/ GiveUp \/ Lose
  /\ ReaderFollows
  /\ handed' = FALSE

\* The call is over and leaves nothing behind that the owner does not know.
End ==
  /\ busy /\ busy' = FALSE
  /\ Keep \/ GiveUp \/ Lose
  /\ open' => owned'
  /\ ReaderFollows
  /\ handed' = FALSE

\* The call is over and its connection is in the hands of the owner, by
\* itself or behind the reader the owner receives.
HandOver ==
  /\ busy /\ busy' = FALSE
  /\ open' = TRUE /\ owned' = TRUE
  /\ reader' \in BOOLEAN
  /\ handed' \in BOOLEAN
  /\ handed' => reader'
  /\ UNCHANGED borrowed

-----------------------------------------------------------------------------

Next == OwnerActs \/ Begin \/ Work \/ End \/ HandOver

Spec == Init /\ [][Next]_vars

-----------------------------------------------------------------------------
(* Properties.                                                             *)

TypeOK ==
  /\ busy \in BOOLEAN
  /\ open \in BOOLEAN
  /\ owned \in BOOLEAN
  /\ borrowed \in BOOLEAN
  /\ reader \in BOOLEAN
  /\ handed \in BOOLEAN

(***************************************************************************)
(* Nothing leaks, nothing that was borrowed is missing, and a reader in    *)
(* the owner's hands can be read.                                          *)
(***************************************************************************)
LeaseKept ==
  /\ ~busy /\ open => owned
  /\ borrowed => open
  /\ handed => open /\ reader
=============================================================================
