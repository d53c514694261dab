------------------------- MODULE MCOwnershipIndexer -------------------------
(***************************************************************************)
(* Two registrations, or three where only a violation is looked for, and   *)
(* two activities at a time: a poll can wait in its callback while         *)
(* another, or the daily job, goes on.  Failures and crashes come at any   *)
(* moment.                                                                 *)
(***************************************************************************)
EXTENDS OwnershipIndexer

CONSTANTS a1, a2, a3

MCLeaf == [account : Account, commitment : Commitment]

(* The trees of up to three leaves, no two of one account.                 *)
MCOwnershipRoot ==
    {regs \in UNION {[1..n -> MCLeaf] : n \in 0..Cardinality(Account)} :
        \A i, j \in DOMAIN regs : regs[i].account = regs[j].account => i = j}

=============================================================================
