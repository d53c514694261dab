--------------------------- MODULE MCProposalSync ----------------------------
(***************************************************************************)
(* Three referenda for a page of two, so that one can leave it; two blocks *)
(* of which one is before the earliest snapshot; two syncs at a time.      *)
(***************************************************************************)
EXTENDS ProposalSync

MCProposalIdOf == <<"id of 1", "id of 2", "id of 3">>
MCProposalId   == {MCProposalIdOf[i] : i \in 1..3}

=============================================================================
