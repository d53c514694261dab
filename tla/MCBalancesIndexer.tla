-------------------------- MODULE MCBalancesIndexer --------------------------
(***************************************************************************)
(* Snapshots of three blocks, one of them far enough from the first for a  *)
(* restart to leave a refresh behind while the daily job takes the third.  *)
(***************************************************************************)
EXTENDS BalancesIndexer

MCBlock      == {1, 2, 3}
MCBalancesAt == <<"balances at 1", "balances at 2", "balances at 3">>
MCBalancesRoot == {MCBalancesAt[b] : b \in MCBlock}

=============================================================================
