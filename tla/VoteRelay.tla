----------------------------- MODULE VoteRelay ------------------------------
(***************************************************************************)
(* What the relayer promises to those who send it votes, with no queue,    *)
(* wallet, nonces or pending transactions: a request is answered once and  *)
(* for good; "200" means that its vote has been counted; "400" means that  *)
(* it has not and never will be; after "500", or a connection lost, it may *)
(* have been counted or be counted later.  A nullifier is used by one vote *)
(* at most, the relayer's or another's.                                    *)
(***************************************************************************)
CONSTANTS Request, Nullifier, NullifierOf

VARIABLES
    answer,     \* what each request was answered, "none" before
    counted,    \* requests whose vote was counted
    used        \* nullifiers used

vars == <<answer, counted, used>>

Init ==
    /\ answer = [r \in Request |-> "none"]
    /\ counted = {}
    /\ used = {}

(* The vote of a request is counted, before or after its answer.           *)
Count(r) ==
    /\ answer[r] # "400"
    /\ NullifierOf[r] \notin used
    /\ counted' = counted \cup {r}
    /\ used' = used \cup {NullifierOf[r]}
    /\ UNCHANGED answer

(* A vote that did not come through the relayer is counted.                *)
CountElsewhere(n) ==
    /\ n \notin used
    /\ used' = used \cup {n}
    /\ UNCHANGED <<answer, counted>>

Answer(r, a) ==
    /\ answer[r] = "none"
    /\ a = "200" => r \in counted
    /\ a = "400" => r \notin counted
    /\ answer' = [answer EXCEPT ![r] = a]
    /\ UNCHANGED <<counted, used>>

(* A restart loses the connections of requests not answered yet.           *)
Lose(requests) ==
    /\ \A r \in requests : answer[r] = "none"
    /\ answer' = [r \in Request |-> IF r \in requests THEN "lost" ELSE answer[r]]
    /\ UNCHANGED <<counted, used>>

Next ==
    \/ \E r \in Request : Count(r) \/ \E a \in {"200", "400", "500"} : Answer(r, a)
    \/ \E n \in Nullifier : CountElsewhere(n)
    \/ \E requests \in SUBSET Request : Lose(requests)

Spec == Init /\ [][Next]_vars

=============================================================================
