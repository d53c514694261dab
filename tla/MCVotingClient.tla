--------------------------- MODULE MCVotingClient ----------------------------
(***************************************************************************)
(* Two accounts, both in the snapshot, and two secrets: both accounts can  *)
(* register, or one of them twice.  Three page loads or changes of account  *)
(* are enough to register with one account, then with the other, and to    *)
(* leave a page and come back while a call is under way.                   *)
(***************************************************************************)
EXTENDS VotingClient

MCBalancesRoot == [a \in Account |-> 1]
MCClientTiers  == <<[min |-> 1, max |-> 3]>>

=============================================================================
