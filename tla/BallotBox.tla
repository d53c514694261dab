----------------------------- MODULE BallotBox ------------------------------
(***************************************************************************)
(* What the voting contracts promise about counting, with no roots, proofs *)
(* or snapshots: a box of ballots, at most one for a proposal and a        *)
(* nullifier, never changed or taken out once it is in; and published      *)
(* results that are at every moment the weighted count of the ballots.     *)
(***************************************************************************)
EXTENDS Integers, Sequences, FiniteSets

CONSTANTS ProposalId, Nullifier, Tier, Choice, Weight

VARIABLES ballots, weights, results, voteCount

vars == <<ballots, weights, results, voteCount>>

Ballot == [proposalId : ProposalId, tier : Tier, choice : Choice, nullifier : Nullifier]

BallotsFor(bs, p, t, c) == {b \in bs : b.proposalId = p /\ b.tier = t /\ b.choice = c}

(* The results a set of ballots amounts to, a tier not yet weighted being  *)
(* one nobody can have voted in.                                           *)
WeightOf(ws, t) == IF t < Len(ws) THEN ws[t + 1] ELSE 0

ResultsOf(bs, ws) ==
    [p \in ProposalId |-> [t \in Tier |-> [c \in Choice |->
        WeightOf(ws, t) * Cardinality(BallotsFor(bs, p, t, c))]]]

CountsOf(bs) == [p \in ProposalId |-> Cardinality({b \in bs : b.proposalId = p})]

Init ==
    /\ ballots = {}
    /\ weights = <<>>
    /\ results = ResultsOf({}, <<>>)
    /\ voteCount = CountsOf({})

AddTier(w) ==
    /\ weights' = Append(weights, w)
    /\ results' = ResultsOf(ballots, weights')
    /\ UNCHANGED <<ballots, voteCount>>

Cast(ballot) ==
    /\ ballot.tier < Len(weights)
    /\ \A b \in ballots : ~ /\ b.proposalId = ballot.proposalId
                            /\ b.nullifier = ballot.nullifier
    /\ ballots' = ballots \cup {ballot}
    /\ results' = ResultsOf(ballots', weights)
    /\ voteCount' = CountsOf(ballots')
    /\ UNCHANGED weights

Next ==
    \/ \E w \in Weight : AddTier(w)
    \/ \E ballot \in Ballot : Cast(ballot)

Spec == Init /\ [][Next]_vars

=============================================================================
