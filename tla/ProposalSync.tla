---------------------------- MODULE ProposalSync -----------------------------
(***************************************************************************)
(* The indexer's proposal sync (syncProposals in indexer/src/index.ts,     *)
(* registerProposal in submitter/root-submitter.ts): at startup and every  *)
(* 30 minutes the latest referenda are fetched from Subscan and those not  *)
(* on chain yet are registered, one transaction after the other.           *)
(*                                                                         *)
(* The timer does not ask whether an earlier sync has ended, so several    *)
(* may be under way: each holds a slot.  Steps run from await to await.    *)
(***************************************************************************)
EXTENDS VotingRegistry

CONSTANTS
    TreeBuilderKey,     \* the account of TREE_BUILDER_KEY
    ProposalIdOf,       \* referendum index => proposal id, a hash
    PageSize,           \* referenda in an answer: 50
    MinProposalBlock,   \* MIN_PROPOSAL_BLOCK, 0 for none
    Slot,               \* bounds the syncs under way at a time
    MaxReferenda,       \* bounds the referenda created
    MaxFailures         \* bounds failing reads, transactions and stops

ASSUME SyncAssumption ==
    /\ TreeBuilderKey \in Account
    /\ MaxReferenda \in Nat
    /\ ProposalIdOf \in [1..MaxReferenda -> ProposalId]
    /\ \A i, j \in 1..MaxReferenda : ProposalIdOf[i] = ProposalIdOf[j] => i = j
    /\ PageSize \in Nat \ {0}
    /\ MinProposalBlock \in Nat
    /\ MaxFailures \in Nat

VARIABLES
    referenda,      \* created_block of each referendum, 0 until Subscan has it
    sync,           \* what each slot has left to do
    mempool,        \* registrations sent and not mined, [referendum, block]
    failures        \* failures so far

syncVars == <<referenda, sync, mempool, failures>>
vars     == <<registryVars, syncVars>>

Referendum == [referendum : 1..MaxReferenda, block : Block \cup {0}]
Sync       == [pc : {"idle", "send", "wait"}, todo : Seq(Referendum)]
Idle       == [pc |-> "idle", todo |-> <<>>]

SyncTypeOK ==
    /\ referenda \in Seq(Block \cup {0})
    /\ Len(referenda) <= MaxReferenda
    /\ sync \in [Slot -> Sync]
    /\ \A s \in Slot : sync[s].pc = "idle" <=> sync[s].todo = <<>>
    /\ mempool \in SUBSET Referendum
    /\ failures \in 0..MaxFailures

Init ==
    /\ RegistryInit
    /\ treeBuilder = TreeBuilderKey
    /\ referenda = <<>>
    /\ sync = [s \in Slot |-> Idle]
    /\ mempool = {}
    /\ failures = 0

-----------------------------------------------------------------------------
(* Subscan and the chain *)

Create ==
    /\ Len(referenda) < MaxReferenda
    /\ \E b \in Block \cup {0} : referenda' = Append(referenda, b)
    /\ UNCHANGED <<registryVars, sync, mempool, failures>>

LearnBlock ==
    /\ \E i \in 1..Len(referenda), b \in Block :
          referenda[i] = 0 /\ referenda' = [referenda EXCEPT ![i] = b]
    /\ UNCHANGED <<registryVars, sync, mempool, failures>>

Mine(tx) ==
    /\ tx \in mempool
    /\ mempool' = mempool \ {tx}
    /\ \/ registerProposal(TreeBuilderKey, ProposalIdOf[tx.referendum], tx.block)
       \/ /\ proposalBlock[ProposalIdOf[tx.referendum]] # 0
          /\ UNCHANGED registryVars
    /\ UNCHANGED <<referenda, sync, failures>>

-----------------------------------------------------------------------------
(* The sync *)

Eligible(ref) == ref.block # 0 /\ ref.block >= MinProposalBlock

(* Mutant: a sync with nothing left goes on to the next referendum.        *)
GotoNext(s, list) == sync' = [sync EXCEPT ![s] = [pc |-> "send", todo |-> list]]

(* The loop goes on with the first referendum of list that is eligible.    *)
Goto(s, list) ==
    \E k \in 1..(Len(list) + 1) :
        /\ \A j \in 1..(k - 1) : ~Eligible(list[j])
        /\ k <= Len(list) => Eligible(list[k])
        /\ sync' = [sync EXCEPT ![s] =
                        IF k > Len(list) THEN Idle
                        ELSE [pc |-> "send", todo |-> SubSeq(list, k, Len(list))]]

(* Mutant: the oldest referenda are asked for.                             *)
OldestReferenda ==
    [k \in 1..(IF Len(referenda) < PageSize THEN Len(referenda) ELSE PageSize) |->
        [referendum |-> k, block |-> referenda[k]]]

(* Mutant: the answer is read as if it began with the oldest.              *)
MispairedReferenda ==
    [k \in 1..(IF Len(referenda) < PageSize THEN Len(referenda) ELSE PageSize) |->
        [referendum |-> Len(referenda) + 1 - k, block |-> referenda[k]]]

(* row: 50, page: 0, order: "desc".                                        *)
LatestReferenda ==
    [k \in 1..(IF Len(referenda) < PageSize THEN Len(referenda) ELSE PageSize) |->
        LET i == Len(referenda) + 1 - k IN [referendum |-> i, block |-> referenda[i]]]

(***************************************************************************)
(* syncProposals from the answer of Subscan to its first await.  No        *)
(* answer, or a 429 to each of the five attempts, is no step.              *)
(***************************************************************************)
SyncProposals(s) ==
    /\ sync[s] = Idle
    /\ Goto(s, LatestReferenda)
    /\ UNCHANGED <<registryVars, referenda, mempool, failures>>

(***************************************************************************)
(* registerProposal: an id that has a block is skipped, another sent.  A   *)
(* block recorded between the read and the send makes the send throw,      *)
(* which is caught and leads on to the next referendum as well.            *)
(***************************************************************************)
RegisterNext(s) ==
    LET ref == Head(sync[s].todo)
    IN  /\ sync[s].pc = "send"
        /\ \/ /\ proposalBlock[ProposalIdOf[ref.referendum]] # 0
              /\ Goto(s, Tail(sync[s].todo))
              /\ UNCHANGED mempool
           \/ /\ proposalBlock[ProposalIdOf[ref.referendum]] = 0
              /\ mempool' = mempool \cup {ref}
              /\ sync' = [sync EXCEPT ![s].pc = "wait"]
        /\ UNCHANGED <<registryVars, referenda, failures>>

(* The read or the send fails: logged, and the loop goes on.               *)
SendFails(s) ==
    /\ sync[s].pc = "send"
    /\ failures < MaxFailures
    /\ failures' = failures + 1
    /\ Goto(s, Tail(sync[s].todo))
    /\ UNCHANGED <<registryVars, referenda, mempool>>

(* The receipt: registered, or reverted, which is logged.                  *)
Receipt(s) ==
    /\ sync[s].pc = "wait"
    /\ Head(sync[s].todo) \notin mempool
    /\ Goto(s, Tail(sync[s].todo))
    /\ UNCHANGED <<registryVars, referenda, mempool, failures>>

(* The process stops and is started again.                                 *)
Crash ==
    /\ failures < MaxFailures
    /\ failures' = failures + 1
    /\ sync' = [s \in Slot |-> Idle]
    /\ UNCHANGED <<registryVars, referenda, mempool>>

Next ==
    \/ Create
    \/ LearnBlock
    \/ Crash
    \/ \E tx \in mempool : Mine(tx)
    \/ \E s \in Slot : SyncProposals(s) \/ RegisterNext(s) \/ SendFails(s) \/ Receipt(s)

(* The timer fires for ever (in the code it needs no slot), awaits end and *)
(* the chain executes transactions.                                        *)
Fairness ==
    /\ SF_vars(\E s \in Slot : SyncProposals(s))
    /\ \A s \in Slot : WF_vars(RegisterNext(s) \/ Receipt(s))
    /\ WF_vars(\E tx \in mempool : Mine(tx))

Spec == Init /\ [][Next]_vars /\ Fairness

-----------------------------------------------------------------------------
(* Properties *)

(***************************************************************************)
(* However many syncs overlap and whatever Subscan did not know yet, a     *)
(* proposal on chain has the block its referendum was created at: the      *)
(* registry takes the first block it is given and never another, so a      *)
(* wrong one would choose the wrong snapshot for ever.                     *)
(***************************************************************************)
RegisteredAtItsBlock ==
    \A i \in 1..MaxReferenda :
        LET b == proposalBlock[ProposalIdOf[i]]
        IN  b # 0 => i <= Len(referenda) /\ b = referenda[i] /\ b >= MinProposalBlock

(***************************************************************************)
(* A referendum is registered in the end, whatever fails on the way,       *)
(* unless so many others are created that it leaves the page Subscan       *)
(* answers with: then it never is.                                         *)
(***************************************************************************)
EventuallyRegistered ==
    \A i \in 1..MaxReferenda :
        (i <= Len(referenda) /\ Eligible([referendum |-> i, block |-> referenda[i]])) ~>
            (proposalBlock[ProposalIdOf[i]] # 0 \/ Len(referenda) >= i + PageSize)

=============================================================================
