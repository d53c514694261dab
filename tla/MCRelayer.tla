----------------------------- MODULE MCRelayer -----------------------------
(***************************************************************************)
(* Three requests, two of them with one nullifier, and a queue of one: a   *)
(* request in hand, one queued and one refused for lack of room.           *)
(***************************************************************************)
EXTENDS Relayer

CONSTANTS r1, r2, r3, n1, n2

MCNullifierOf == [r \in Request |-> IF r = r3 THEN n2 ELSE n1]

=============================================================================
