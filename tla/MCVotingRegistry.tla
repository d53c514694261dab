-------------------------- MODULE MCVotingRegistry --------------------------
(* A small registry for model checking: three blocks, so that a snapshot   *)
(* can be submitted before, between and after two others.                  *)
EXTENDS VotingRegistry

MCBlock == {1, 2, 4}

=============================================================================
