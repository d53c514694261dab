--------------------------- MODULE VotingRegistry ---------------------------
(***************************************************************************)
(* The VotingRegistry contract (contracts/src/VotingRegistry.sol): voter   *)
(* registration, the Merkle roots the off-chain tree builder submits, and  *)
(* the block at which each proposal was created.                           *)
(*                                                                         *)
(* One action is one transaction: its conjuncts without primes are the     *)
(* require()s of the function, in their order.  A reverted transaction     *)
(* leaves the state alone, which is a stuttering step.  A mapping to bool  *)
(* is the set of the keys mapped to true; any other mapping is a function  *)
(* whose default is the EVM's zero.                                        *)
(***************************************************************************)
EXTENDS Integers, Sequences, FiniteSets

CONSTANTS
    Account,        \* addresses that send transactions
    Owner,          \* the deployer
    Commitment,     \* Poseidon(secret) values a voter may submit
    NoCommitment,   \* bytes32(0)
    OwnershipRoot,  \* roots of ownership trees
    BalancesRoot,   \* roots of balances trees
    NoRoot,         \* bytes32(0)
    Block,          \* Asset Hub block numbers in use, all above zero
    ProposalId

ASSUME RegistryAssumption ==
    /\ Owner \in Account
    /\ IsFiniteSet(Account)
    /\ NoCommitment \notin Commitment
    /\ NoRoot \notin OwnershipRoot \cup BalancesRoot
    /\ Block \subseteq Nat \ {0}

VARIABLES
    registrations,            \* Registration[]
    isRegistered,
    knownOwnershipRoots,
    latestOwnershipRoot,
    latestOwnershipRegCount,
    balancesRootBlock,        \* root => snapshot block
    latestBalancesRoot,
    blockToBalancesRoot,      \* snapshot block => root
    submittedBlocks,          \* snapshot blocks in the order of submission
    proposalBlock,            \* proposal => block of its creation
    treeBuilder

ownershipVars == <<knownOwnershipRoots, latestOwnershipRoot, latestOwnershipRegCount>>
balancesVars  == <<balancesRootBlock, latestBalancesRoot, blockToBalancesRoot, submittedBlocks>>
registryVars  == <<registrations, isRegistered, ownershipVars, balancesVars,
                   proposalBlock, treeBuilder>>

Registration == [account : Account, commitment : Commitment]

RegistryTypeOK ==
    /\ registrations \in Seq(Registration)
    /\ isRegistered \in SUBSET Account
    /\ knownOwnershipRoots \in SUBSET OwnershipRoot
    /\ latestOwnershipRoot \in OwnershipRoot \cup {NoRoot}
    /\ latestOwnershipRegCount \in Nat
    /\ balancesRootBlock \in [BalancesRoot -> Block \cup {0}]
    /\ latestBalancesRoot \in BalancesRoot \cup {NoRoot}
    /\ blockToBalancesRoot \in [Block -> BalancesRoot \cup {NoRoot}]
    /\ submittedBlocks \in Seq(Block)
    /\ proposalBlock \in [ProposalId -> Block \cup {0}]
    /\ treeBuilder \in Account

RegistryInit ==
    /\ registrations = <<>>
    /\ isRegistered = {}
    /\ knownOwnershipRoots = {}
    /\ latestOwnershipRoot = NoRoot
    /\ latestOwnershipRegCount = 0
    /\ balancesRootBlock = [root \in BalancesRoot |-> 0]
    /\ latestBalancesRoot = NoRoot
    /\ blockToBalancesRoot = [b \in Block |-> NoRoot]
    /\ submittedBlocks = <<>>
    /\ proposalBlock = [p \in ProposalId |-> 0]
    /\ treeBuilder \in Account

-----------------------------------------------------------------------------
(* View functions *)

(* Mutant: any root but the zero root is known.                            *)
anyOwnershipRoot(root) == root # NoRoot

isKnownOwnershipRoot(root) == root \in knownOwnershipRoots

isKnownBalancesRoot(root) == balancesRootBlock[root] > 0

submittedBlockSet == {submittedBlocks[i] : i \in 1..Len(submittedBlocks)}

(* Mutant: the scan keeps the last submitted block, not the largest.       *)
IsLastSubmittedFor(blk, s) ==
    \E i \in 1..Len(submittedBlocks) :
        /\ s = submittedBlocks[i]
        /\ s <= blk
        /\ \A j \in (i + 1)..Len(submittedBlocks) : submittedBlocks[j] > blk

(***************************************************************************)
(* findBalancesRootForProposal(blk) returns snapshot s: the scan keeps the *)
(* largest submitted block that is not after blk.  It reverts when no      *)
(* submitted block qualifies, that is, when no s satisfies this.           *)
(***************************************************************************)
IsSnapshotFor(blk, s) ==
    /\ s \in submittedBlockSet
    /\ s <= blk
    /\ \A b \in submittedBlockSet : b <= blk => b <= s

-----------------------------------------------------------------------------
(* Transactions *)

(* Mutant: the zero commitment is accepted.                                *)
registerZero(sender, commitment) ==
    /\ sender \notin isRegistered
    /\ registrations' =
           Append(registrations, [account |-> sender, commitment |-> commitment])
    /\ isRegistered' = isRegistered \cup {sender}
    /\ UNCHANGED <<ownershipVars, balancesVars, proposalBlock, treeBuilder>>

(* Mutant: an address may register again.                                  *)
registerAgain(sender, commitment) ==
    /\ commitment # NoCommitment
    /\ registrations' =
           Append(registrations, [account |-> sender, commitment |-> commitment])
    /\ isRegistered' = isRegistered \cup {sender}
    /\ UNCHANGED <<ownershipVars, balancesVars, proposalBlock, treeBuilder>>

(* Mutant: registering again replaces the commitment in its place.         *)
registerOrReplace(sender, commitment) ==
    LET new == [account |-> sender, commitment |-> commitment]
    IN  /\ commitment # NoCommitment
        /\ registrations' =
               IF sender \in isRegistered
               THEN [i \in DOMAIN registrations |->
                        IF registrations[i].account = sender THEN new ELSE registrations[i]]
               ELSE Append(registrations, new)
        /\ isRegistered' = isRegistered \cup {sender}
        /\ UNCHANGED <<ownershipVars, balancesVars, proposalBlock, treeBuilder>>

register(sender, commitment) ==
    /\ sender \notin isRegistered
    /\ commitment # NoCommitment
    /\ registrations' =
           Append(registrations, [account |-> sender, commitment |-> commitment])
    /\ isRegistered' = isRegistered \cup {sender}
    /\ UNCHANGED <<ownershipVars, balancesVars, proposalBlock, treeBuilder>>

(* Mutant: the count the root was built for is not checked.                *)
submitStaleOwnershipRoot(sender, root, regCount) ==
    /\ sender = treeBuilder
    /\ root # NoRoot
    /\ knownOwnershipRoots' = knownOwnershipRoots \cup {root}
    /\ latestOwnershipRoot' = root
    /\ latestOwnershipRegCount' = regCount
    /\ UNCHANGED <<registrations, isRegistered, balancesVars, proposalBlock, treeBuilder>>

submitOwnershipRoot(sender, root, regCount) ==
    /\ sender = treeBuilder
    /\ root # NoRoot
    /\ regCount = Len(registrations)
    /\ knownOwnershipRoots' = knownOwnershipRoots \cup {root}
    /\ latestOwnershipRoot' = root
    /\ latestOwnershipRegCount' = regCount
    /\ UNCHANGED <<registrations, isRegistered, balancesVars, proposalBlock, treeBuilder>>

(* Mutant: a block that has a root is given another one.                   *)
resubmitBalancesRoot(sender, root, snapshotBlock) ==
    /\ sender = treeBuilder
    /\ root # NoRoot
    /\ snapshotBlock > 0
    /\ balancesRootBlock' = [balancesRootBlock EXCEPT ![root] = snapshotBlock]
    /\ latestBalancesRoot' = root
    /\ blockToBalancesRoot' = [blockToBalancesRoot EXCEPT ![snapshotBlock] = root]
    /\ submittedBlocks' = Append(submittedBlocks, snapshotBlock)
    /\ UNCHANGED <<registrations, isRegistered, ownershipVars, proposalBlock, treeBuilder>>

submitBalancesRoot(sender, root, snapshotBlock) ==
    /\ sender = treeBuilder
    /\ root # NoRoot
    /\ snapshotBlock > 0
    /\ blockToBalancesRoot[snapshotBlock] = NoRoot
    /\ balancesRootBlock' = [balancesRootBlock EXCEPT ![root] = snapshotBlock]
    /\ latestBalancesRoot' = root
    /\ blockToBalancesRoot' = [blockToBalancesRoot EXCEPT ![snapshotBlock] = root]
    /\ submittedBlocks' = Append(submittedBlocks, snapshotBlock)
    /\ UNCHANGED <<registrations, isRegistered, ownershipVars, proposalBlock, treeBuilder>>

registerProposal(sender, proposalId, createdAtBlock) ==
    /\ sender = treeBuilder
    /\ createdAtBlock > 0
    /\ proposalBlock[proposalId] = 0
    /\ proposalBlock' = [proposalBlock EXCEPT ![proposalId] = createdAtBlock]
    /\ UNCHANGED <<registrations, isRegistered, ownershipVars, balancesVars, treeBuilder>>

setTreeBuilder(sender, newBuilder) ==
    /\ sender = Owner
    /\ treeBuilder' = newBuilder
    /\ UNCHANGED <<registrations, isRegistered, ownershipVars, balancesVars, proposalBlock>>

RegistryNext ==
    \E sender \in Account :
        \/ \E c \in Commitment \cup {NoCommitment} : register(sender, c)
        \/ \E root \in OwnershipRoot \cup {NoRoot}, n \in 0..(Len(registrations) + 1) :
               submitOwnershipRoot(sender, root, n)
        \/ \E root \in BalancesRoot \cup {NoRoot}, b \in Block \cup {0} :
               submitBalancesRoot(sender, root, b)
        \/ \E p \in ProposalId, b \in Block \cup {0} : registerProposal(sender, p, b)
        \/ \E newBuilder \in Account : setTreeBuilder(sender, newBuilder)

RegistrySpec == RegistryInit /\ [][RegistryNext]_registryVars

-----------------------------------------------------------------------------
(* Properties *)

(***************************************************************************)
(* An address holds at most one registration, and isRegistered says        *)
(* exactly which addresses hold one (register, lines 86-95).               *)
(***************************************************************************)
OneRegistrationPerAccount ==
    /\ \A i, j \in 1..Len(registrations) :
           registrations[i].account = registrations[j].account => i = j
    /\ isRegistered = {registrations[i].account : i \in 1..Len(registrations)}

(***************************************************************************)
(* The three records submitBalancesRoot keeps of a snapshot agree: no      *)
(* block is listed twice, a block is listed exactly when it has a root,    *)
(* the root of a listed block is known, and the block a known root points  *)
(* back to is one whose root it is.                                        *)
(***************************************************************************)
SnapshotRecordsAgree ==
    /\ \A i, j \in 1..Len(submittedBlocks) :
           submittedBlocks[i] = submittedBlocks[j] => i = j
    /\ \A b \in Block : b \in submittedBlockSet <=> blockToBalancesRoot[b] # NoRoot
    /\ \A b \in submittedBlockSet : isKnownBalancesRoot(blockToBalancesRoot[b])
    /\ \A root \in BalancesRoot : isKnownBalancesRoot(root) =>
           blockToBalancesRoot[balancesRootBlock[root]] = root

(***************************************************************************)
(* Roots may be submitted late and in any order (script/backfill-roots.ts),*)
(* and then the snapshot a proposal is voted on can change.  It can only   *)
(* move forward, towards the proposal's block, and the root of a snapshot  *)
(* never changes; nor does the block of a registered proposal.             *)
(***************************************************************************)
SnapshotOnlyAdvances ==
    [][\A p \in ProposalId : proposalBlock[p] # 0 =>
         /\ proposalBlock'[p] = proposalBlock[p]
         /\ \A s \in Block : IsSnapshotFor(proposalBlock[p], s) =>
              /\ blockToBalancesRoot'[s] = blockToBalancesRoot[s]
              /\ \A t \in Block : IsSnapshotFor(proposalBlock[p], t)' => s <= t
      ]_registryVars

(* The registrations latestOwnershipRoot was submitted for are all there.  *)
CountWithinRegistrations == latestOwnershipRegCount <= Len(registrations)

(***************************************************************************)
(* A client takes registration number i as ready when                      *)
(* latestOwnershipRegCount > i (frontend/src/hooks/useRegistration.ts).    *)
(* Ready is forever: the count never goes back, never passes the number of *)
(* registrations, and a root once known stays known.                       *)
(***************************************************************************)
ReadyIsForever ==
    [][/\ latestOwnershipRegCount <= latestOwnershipRegCount'
       /\ latestOwnershipRegCount' <= Len(registrations')
       /\ knownOwnershipRoots \subseteq knownOwnershipRoots'
      ]_registryVars

=============================================================================
