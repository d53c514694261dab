------------------------- MODULE MCBalancesSnapshot --------------------------
(***************************************************************************)
(* Chains of ten blocks that come at even pace, faster or slower than      *)
(* the six seconds the estimate counts with, or stand still once, with     *)
(* midnight anywhere; blocks that differ in their accounts: pages cut by a *)
(* partition, empty partitions, accounts with a mapping, without one, with *)
(* too little balance, two for one address, and more than the tree holds.  *)
(***************************************************************************)
EXTENDS BalancesSnapshot

Pace(step, at, gap) == [b \in 1..10 |-> 100 + step * b + IF b > at THEN gap ELSE 0]

MCChain ==
    {c \in {[timestamps |-> Pace(step, at, 24), midnight |-> m] :
               step \in {2, 6, 9}, at \in {6, 10}, m \in {103, 113, 124, 136, 150, 200}} :
        LET last == c.timestamps[10]
        IN  last >= c.midnight => (last - c.midnight) \div 6 <= 10}

Full   == [k \in {1, 3, 5, 7, 9} |-> IF k = 3 THEN 0 ELSE k]
All    == [k \in {1, 3, 5, 7, 9} |-> k]
Sparse == [k \in {1, 5, 9} |-> k]

MCAccountsAt == [b \in 1..10 |-> <<Sparse, All, Full>>[(b % 3) + 1]]
MCDerived    == [k \in {1, 3, 5, 7, 9} |-> IF k \in {1, 3} THEN 100 + k ELSE 0]
MCOriginalAt ==
    [b \in 1..10 |-> CASE b % 3 = 0 -> [a \in {109} |-> 9]
                      [] b % 3 = 1 -> [a \in {105, 107, 109} |-> a - 100]
                      [] OTHER     -> [a \in {101, 105, 107} |-> IF a = 101 THEN 9 ELSE a - 100]]
MCBounds == <<6, 8>>

=============================================================================
