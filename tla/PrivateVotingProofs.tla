------------------------ MODULE PrivateVotingProofs -------------------------
(***************************************************************************)
(* Proofs about the contracts and their users.  RegistryInv is an          *)
(* inductive invariant of the registry on its own: each of its parts needs *)
(* only the types besides itself.  The registry's part of a composed step  *)
(* is a step of VotingRegistry, so RegistryInv carries over; the booth's   *)
(* part only matters when a tier is configured or a vote is cast.          *)
(***************************************************************************)
EXTENDS PrivateVoting, FiniteSetTheorems, TLAPS

-----------------------------------------------------------------------------
(* The registry on its own                                                 *)

RegistryInv ==
    /\ RegistryTypeOK
    /\ OneRegistrationPerAccount
    /\ SnapshotRecordsAgree
    /\ CountWithinRegistrations

(* The snapshots after a submission are those before and the new one.      *)
LEMMA SubmittedGrows ==
    ASSUME RegistryTypeOK, NEW b \in Block,
           submittedBlocks' = Append(submittedBlocks, b)
    PROVE  submittedBlockSet' = submittedBlockSet \cup {b}
BY DEF RegistryTypeOK, submittedBlockSet

(***************************************************************************)
(* Type correctness of the initial state and of every step.                *)
(***************************************************************************)
LEMMA RegistryTypeInit == RegistryInit => RegistryTypeOK
BY RegistryAssumption DEF RegistryInit, RegistryTypeOK

LEMMA RegistryTypeStep ==
    RegistryTypeOK /\ [RegistryNext]_registryVars => RegistryTypeOK'
<1> SUFFICES ASSUME RegistryTypeOK, [RegistryNext]_registryVars
             PROVE  RegistryTypeOK'
  OBVIOUS
<1> USE RegistryAssumption DEF RegistryTypeOK, ownershipVars, balancesVars
<1>1. ASSUME NEW sender \in Account, NEW c \in Commitment \cup {NoCommitment},
             register(sender, c)
      PROVE  RegistryTypeOK'
  <2>1. [account |-> sender, commitment |-> c] \in Registration
    BY <1>1 DEF register, Registration
  <2>2. registrations' \in Seq(Registration)
    BY <1>1, <2>1 DEF register
  <2>3. QED
    BY <1>1, <2>2 DEF register
<1>2. ASSUME NEW sender \in Account, NEW root \in OwnershipRoot \cup {NoRoot},
             NEW n \in 0..(Len(registrations) + 1), submitOwnershipRoot(sender, root, n)
      PROVE  RegistryTypeOK'
  BY <1>2 DEF submitOwnershipRoot
<1>3. ASSUME NEW sender \in Account, NEW root \in BalancesRoot \cup {NoRoot},
             NEW b \in Block \cup {0}, submitBalancesRoot(sender, root, b)
      PROVE  RegistryTypeOK'
  BY <1>3 DEF submitBalancesRoot
<1>4. ASSUME NEW sender \in Account, NEW p \in ProposalId, NEW b \in Block \cup {0},
             registerProposal(sender, p, b)
      PROVE  RegistryTypeOK'
  BY <1>4 DEF registerProposal
<1>5. ASSUME NEW sender \in Account, NEW newBuilder \in Account,
             setTreeBuilder(sender, newBuilder)
      PROVE  RegistryTypeOK'
  BY <1>5 DEF setTreeBuilder
<1>6. CASE UNCHANGED registryVars
  BY <1>6 DEF registryVars
<1>7. QED
  BY <1>1, <1>2, <1>3, <1>4, <1>5, <1>6 DEF RegistryNext

(* Every state of the registry has the right types.                        *)
THEOREM RegistryTypeCorrect == RegistrySpec => []RegistryTypeOK
BY RegistryTypeInit, RegistryTypeStep, PTL DEF RegistrySpec

(***************************************************************************)
(* Registration: an address registers once.                                *)
(***************************************************************************)
LEMMA OneRegistrationStep ==
    RegistryTypeOK /\ OneRegistrationPerAccount /\ [RegistryNext]_registryVars
        => OneRegistrationPerAccount'
<1> SUFFICES ASSUME RegistryTypeOK, OneRegistrationPerAccount, [RegistryNext]_registryVars
             PROVE  OneRegistrationPerAccount'
  OBVIOUS
<1>1. ASSUME NEW sender \in Account, NEW c \in Commitment \cup {NoCommitment},
             register(sender, c)
      PROVE  OneRegistrationPerAccount'
  <2> DEFINE n == Len(registrations)
             new == [account |-> sender, commitment |-> c]
  <2>1. n \in Nat /\ registrations \in Seq(Registration)
    BY DEF RegistryTypeOK
  <2>2. /\ Len(registrations') = n + 1
        /\ registrations'[n + 1] = new
        /\ \A i \in 1..n : registrations'[i] = registrations[i]
    BY <1>1, <2>1 DEF register
  <2>3. \A i \in 1..n : registrations[i].account # sender
    BY <1>1 DEF register, OneRegistrationPerAccount
  <2>4. ASSUME NEW i \in 1..(n + 1), NEW j \in 1..(n + 1),
               registrations'[i].account = registrations'[j].account
        PROVE  i = j
    <3>1. CASE i \in 1..n /\ j \in 1..n
      BY <2>2, <2>4, <3>1 DEF OneRegistrationPerAccount
    <3>2. CASE i = n + 1 \/ j = n + 1
      BY <2>1, <2>2, <2>3, <2>4, <3>2
    <3>3. QED
      BY <2>1, <3>1, <3>2
  <2>5. isRegistered' = {registrations'[i].account : i \in 1..(n + 1)}
    <3>1. isRegistered' = {registrations[i].account : i \in 1..n} \cup {sender}
      BY <1>1 DEF register, OneRegistrationPerAccount
    <3>2. 1..(n + 1) = 1..n \cup {n + 1}
      BY <2>1
    <3>3. QED
      BY <2>2, <3>1, <3>2
  <2>6. QED
    BY <2>2, <2>4, <2>5 DEF OneRegistrationPerAccount
<1>2. CASE UNCHANGED <<registrations, isRegistered>>
  BY <1>2 DEF OneRegistrationPerAccount
<1>3. QED
  BY <1>1, <1>2 DEF RegistryNext, registryVars, submitOwnershipRoot, submitBalancesRoot,
                    registerProposal, setTreeBuilder

(***************************************************************************)
(* A submission gives a block that has no root its only one, so the three  *)
(* records of the snapshots keep agreeing, also when the root is one that  *)
(* an earlier snapshot already had.                                        *)
(***************************************************************************)
LEMMA SnapshotRecordsStep ==
    RegistryTypeOK /\ SnapshotRecordsAgree /\ [RegistryNext]_registryVars
        => SnapshotRecordsAgree'
<1> SUFFICES ASSUME RegistryTypeOK, SnapshotRecordsAgree, [RegistryNext]_registryVars
             PROVE  SnapshotRecordsAgree'
  OBVIOUS
<1>1. ASSUME NEW sender \in Account, NEW root \in BalancesRoot \cup {NoRoot},
             NEW b \in Block \cup {0}, submitBalancesRoot(sender, root, b)
      PROVE  SnapshotRecordsAgree'
  <2> DEFINE n == Len(submittedBlocks)
  <2>1. b \in Block /\ root \in BalancesRoot /\ Block \subseteq Nat \ {0} /\ NoRoot \notin BalancesRoot
    BY <1>1, RegistryAssumption DEF submitBalancesRoot
  <2>2. n \in Nat /\ submittedBlocks \in Seq(Block)
    BY DEF RegistryTypeOK
  <2>3. /\ Len(submittedBlocks') = n + 1
        /\ submittedBlocks'[n + 1] = b
        /\ \A i \in 1..n : submittedBlocks'[i] = submittedBlocks[i]
    BY <1>1, <2>1, <2>2 DEF submitBalancesRoot
  <2>4. submittedBlockSet' = submittedBlockSet \cup {b}
    BY <1>1, <2>1, SubmittedGrows DEF submitBalancesRoot
  <2>5. submittedBlockSet \subseteq Block
    BY <2>2 DEF submittedBlockSet
  <2>6. b \notin submittedBlockSet
    BY <1>1, <2>1 DEF submitBalancesRoot, SnapshotRecordsAgree
  <2>7. /\ blockToBalancesRoot'[b] = root
        /\ \A d \in Block \ {b} : blockToBalancesRoot'[d] = blockToBalancesRoot[d]
    BY <1>1, <2>1 DEF submitBalancesRoot, RegistryTypeOK
  <2>8. /\ balancesRootBlock'[root] = b
        /\ \A r \in BalancesRoot \ {root} : balancesRootBlock'[r] = balancesRootBlock[r]
    BY <1>1, <2>1 DEF submitBalancesRoot, RegistryTypeOK
  <2>9. ASSUME NEW i \in 1..(n + 1), NEW j \in 1..(n + 1),
               submittedBlocks'[i] = submittedBlocks'[j]
        PROVE  i = j
    <3>1. \A k \in 1..n : submittedBlocks[k] # b
      BY <2>6 DEF submittedBlockSet
    <3>2. CASE i \in 1..n /\ j \in 1..n
      BY <2>3, <2>9, <3>2 DEF SnapshotRecordsAgree
    <3>3. CASE i = n + 1 \/ j = n + 1
      BY <2>2, <2>3, <2>9, <3>1, <3>3
    <3>4. QED
      BY <2>2, <3>2, <3>3
  <2>10. \A d \in Block : d \in submittedBlockSet' <=> blockToBalancesRoot'[d] # NoRoot
    BY <2>1, <2>4, <2>7 DEF SnapshotRecordsAgree
  <2>11. ASSUME NEW d \in submittedBlockSet'
         PROVE  balancesRootBlock'[blockToBalancesRoot'[d]] > 0
    <3>1. CASE blockToBalancesRoot'[d] = root
      BY <2>1, <2>8, <3>1
    <3>2. CASE blockToBalancesRoot'[d] # root
      <4>1. d \in submittedBlockSet /\ d # b /\ d \in Block
        BY <2>4, <2>5, <2>7, <3>2
      <4>2. blockToBalancesRoot'[d] = blockToBalancesRoot[d]
        BY <2>7, <4>1
      <4>3. blockToBalancesRoot[d] \in BalancesRoot
        BY <4>1 DEF SnapshotRecordsAgree, RegistryTypeOK
      <4>4. QED
        BY <2>8, <3>2, <4>1, <4>2, <4>3 DEF SnapshotRecordsAgree, isKnownBalancesRoot
    <3>3. QED
      BY <3>1, <3>2
  <2>12. ASSUME NEW r \in BalancesRoot, balancesRootBlock'[r] > 0
         PROVE  blockToBalancesRoot'[balancesRootBlock'[r]] = r
    <3>1. CASE r = root
      BY <2>7, <2>8, <3>1
    <3>2. CASE r # root
      <4>1. balancesRootBlock'[r] = balancesRootBlock[r] /\ balancesRootBlock[r] > 0
        BY <2>8, <2>12, <3>2
      <4>2. balancesRootBlock[r] \in Block
        BY <4>1 DEF RegistryTypeOK
      <4>3. blockToBalancesRoot[balancesRootBlock[r]] = r
        BY <4>1 DEF SnapshotRecordsAgree, isKnownBalancesRoot
      <4>4. balancesRootBlock[r] # b
        BY <1>1, <2>1, <4>3 DEF submitBalancesRoot
      <4>5. QED
        BY <2>7, <4>1, <4>2, <4>3, <4>4
    <3>3. QED
      BY <3>1, <3>2
  <2>13. QED
    BY <2>3, <2>9, <2>10, <2>11, <2>12 DEF SnapshotRecordsAgree, isKnownBalancesRoot
<1>2. CASE UNCHANGED balancesVars
  BY <1>2 DEF SnapshotRecordsAgree, balancesVars, submittedBlockSet, isKnownBalancesRoot
<1>3. QED
  BY <1>1, <1>2 DEF RegistryNext, registryVars, register, submitOwnershipRoot,
                    registerProposal, setTreeBuilder

(***************************************************************************)
(* RegistryInv is inductive.                                               *)
(***************************************************************************)
LEMMA RegistryInvInit == RegistryInit => RegistryInv
<1> SUFFICES ASSUME RegistryInit PROVE RegistryInv
  OBVIOUS
<1>1. RegistryTypeOK
  BY RegistryTypeInit
<1>2. OneRegistrationPerAccount /\ CountWithinRegistrations
  BY DEF RegistryInit, OneRegistrationPerAccount, CountWithinRegistrations
<1>3. SnapshotRecordsAgree
  BY DEF RegistryInit, SnapshotRecordsAgree, submittedBlockSet, isKnownBalancesRoot
<1>4. QED
  BY <1>1, <1>2, <1>3 DEF RegistryInv

LEMMA CountWithinStep ==
    RegistryTypeOK /\ CountWithinRegistrations /\ [RegistryNext]_registryVars
        => /\ CountWithinRegistrations'
           /\ latestOwnershipRegCount <= latestOwnershipRegCount'
           /\ Len(registrations) <= Len(registrations')
           /\ knownOwnershipRoots \subseteq knownOwnershipRoots'
<1> SUFFICES ASSUME RegistryTypeOK, CountWithinRegistrations, [RegistryNext]_registryVars
             PROVE  /\ CountWithinRegistrations'
                    /\ latestOwnershipRegCount <= latestOwnershipRegCount'
                    /\ Len(registrations) <= Len(registrations')
                    /\ knownOwnershipRoots \subseteq knownOwnershipRoots'
  OBVIOUS
<1>0. Len(registrations) \in Nat /\ latestOwnershipRegCount \in Nat
  BY DEF RegistryTypeOK
<1> USE <1>0 DEF CountWithinRegistrations, ownershipVars
<1>1. ASSUME NEW sender \in Account, NEW c \in Commitment \cup {NoCommitment},
             register(sender, c)
      PROVE  /\ Len(registrations') = Len(registrations) + 1
             /\ UNCHANGED ownershipVars
  BY <1>1 DEF register, RegistryTypeOK
<1>2. ASSUME NEW sender \in Account, NEW root \in OwnershipRoot \cup {NoRoot},
             NEW n \in 0..(Len(registrations) + 1), submitOwnershipRoot(sender, root, n)
      PROVE  /\ latestOwnershipRegCount' = Len(registrations)
             /\ knownOwnershipRoots \subseteq knownOwnershipRoots'
             /\ UNCHANGED registrations
  BY <1>2 DEF submitOwnershipRoot
<1>3. \/ /\ Len(registrations') = Len(registrations) + 1
         /\ UNCHANGED ownershipVars
      \/ /\ latestOwnershipRegCount' = Len(registrations)
         /\ knownOwnershipRoots \subseteq knownOwnershipRoots'
         /\ UNCHANGED registrations
      \/ UNCHANGED <<registrations, ownershipVars>>
  BY <1>1, <1>2 DEF RegistryNext, registryVars, submitBalancesRoot, registerProposal,
                    setTreeBuilder
<1>4. QED
  BY <1>3

LEMMA RegistryInvStep == RegistryInv /\ [RegistryNext]_registryVars => RegistryInv'
BY RegistryTypeStep, OneRegistrationStep, SnapshotRecordsStep, CountWithinStep DEF RegistryInv

THEOREM RegistryInvariant == RegistrySpec => []RegistryInv
BY RegistryInvInit, RegistryInvStep, PTL DEF RegistrySpec

(* Each address registers at most once, for any number of addresses.       *)
THEOREM RegistersOnce == RegistrySpec => []OneRegistrationPerAccount
<1>1. RegistryInv => OneRegistrationPerAccount
  BY DEF RegistryInv
<1>2. QED
  BY <1>1, RegistryInvariant, PTL

(* The three records of the snapshots agree in every reachable state.      *)
THEOREM SnapshotRecordsCorrect == RegistrySpec => []SnapshotRecordsAgree
<1>1. RegistryInv => SnapshotRecordsAgree
  BY DEF RegistryInv
<1>2. QED
  BY <1>1, RegistryInvariant, PTL

(***************************************************************************)
(* Whatever the order in which roots are submitted, the snapshot of a      *)
(* registered proposal never moves back and keeps its root.                *)
(***************************************************************************)
THEOREM SnapshotsAdvance == RegistrySpec => SnapshotOnlyAdvances
<1> DEFINE Advances ==
        \A p \in ProposalId : proposalBlock[p] # 0 =>
          /\ proposalBlock'[p] = proposalBlock[p]
          /\ \A s \in Block : IsSnapshotFor(proposalBlock[p], s) =>
               /\ blockToBalancesRoot'[s] = blockToBalancesRoot[s]
               /\ \A t \in Block : IsSnapshotFor(proposalBlock[p], t)' => s <= t
<1>1. RegistryInv /\ [RegistryNext]_registryVars => [Advances]_registryVars
  <2> SUFFICES ASSUME RegistryInv, RegistryNext,
                      NEW p \in ProposalId, proposalBlock[p] # 0
               PROVE  /\ proposalBlock'[p] = proposalBlock[p]
                      /\ \A s \in Block : IsSnapshotFor(proposalBlock[p], s) =>
                           /\ blockToBalancesRoot'[s] = blockToBalancesRoot[s]
                           /\ \A t \in Block : IsSnapshotFor(proposalBlock[p], t)' => s <= t
    OBVIOUS
  <2> USE DEF RegistryInv
  <2>1. proposalBlock'[p] = proposalBlock[p]
    <3>1. ASSUME NEW sender \in Account, NEW q \in ProposalId, NEW b \in Block \cup {0},
                 registerProposal(sender, q, b)
          PROVE  proposalBlock'[p] = proposalBlock[p]
      BY <3>1 DEF registerProposal, RegistryTypeOK
    <3>2. CASE UNCHANGED proposalBlock
      BY <3>2
    <3>3. QED
      BY <3>1, <3>2 DEF RegistryNext, register, submitOwnershipRoot, submitBalancesRoot,
                        setTreeBuilder
  <2>2. submittedBlockSet \subseteq submittedBlockSet'
    <3>1. ASSUME NEW sender \in Account, NEW root \in BalancesRoot \cup {NoRoot},
                 NEW b \in Block \cup {0}, submitBalancesRoot(sender, root, b)
          PROVE  submittedBlockSet \subseteq submittedBlockSet'
      BY <3>1, SubmittedGrows DEF submitBalancesRoot
    <3>2. CASE UNCHANGED submittedBlocks
      BY <3>2 DEF submittedBlockSet
    <3>3. QED
      BY <3>1, <3>2 DEF RegistryNext, register, submitOwnershipRoot, registerProposal,
                        setTreeBuilder, balancesVars
  <2>3. ASSUME NEW s \in submittedBlockSet
        PROVE  blockToBalancesRoot'[s] = blockToBalancesRoot[s]
    <3>1. s \in Block /\ blockToBalancesRoot[s] # NoRoot
      <4>1. PICK i \in 1..Len(submittedBlocks) : s = submittedBlocks[i]
        BY DEF submittedBlockSet
      <4>2. s \in Block
        BY <4>1 DEF RegistryTypeOK
      <4> QED BY <4>1, <4>2 DEF SnapshotRecordsAgree, submittedBlockSet
    <3>2. ASSUME NEW sender \in Account, NEW root \in BalancesRoot \cup {NoRoot},
                 NEW b \in Block \cup {0}, submitBalancesRoot(sender, root, b)
          PROVE  blockToBalancesRoot'[s] = blockToBalancesRoot[s]
      BY <3>1, <3>2 DEF submitBalancesRoot, RegistryTypeOK
    <3>3. CASE UNCHANGED blockToBalancesRoot
      BY <3>3
    <3>4. QED
      BY <3>2, <3>3 DEF RegistryNext, register, submitOwnershipRoot, registerProposal,
                        setTreeBuilder, balancesVars
  <2>4. ASSUME NEW s \in Block, IsSnapshotFor(proposalBlock[p], s)
        PROVE  /\ blockToBalancesRoot'[s] = blockToBalancesRoot[s]
               /\ \A t \in Block : IsSnapshotFor(proposalBlock[p], t)' => s <= t
    BY <2>1, <2>2, <2>3, <2>4 DEF IsSnapshotFor
  <2>5. QED
    BY <2>1, <2>4
<1>2. QED
  BY <1>1, RegistryInvariant, PTL DEF RegistrySpec, SnapshotOnlyAdvances

(* A registration that is ready stays ready.                               *)
THEOREM ReadyStaysReady == RegistrySpec => ReadyIsForever
<1> DEFINE Grows == /\ latestOwnershipRegCount <= latestOwnershipRegCount'
                    /\ latestOwnershipRegCount' <= Len(registrations')
                    /\ knownOwnershipRoots \subseteq knownOwnershipRoots'
<1>1. RegistryInv /\ [RegistryNext]_registryVars => [Grows]_registryVars
  BY CountWithinStep DEF RegistryInv, CountWithinRegistrations
<1>2. QED
  BY <1>1, RegistryInvariant, PTL DEF RegistrySpec, ReadyIsForever

-----------------------------------------------------------------------------
(* The composition respects the registry's specification *)

(* Registrations are bounded by the addresses, as no address has two.      *)
LEMMA RegistrationsBounded ==
    ASSUME RegistryTypeOK, OneRegistrationPerAccount
    PROVE  Len(registrations) <= Cardinality(Account)
<1> DEFINE n == Len(registrations)
           f == [i \in 1..n |-> registrations[i].account]
<1>1. n \in Nat
  BY DEF RegistryTypeOK
<1>2. \A i \in 1..n : registrations[i].account \in Account
  <2>1. \A i \in 1..n : registrations[i] \in Registration
    BY DEF RegistryTypeOK
  <2>2. \A r \in Registration : r.account \in Account
    BY DEF Registration
  <2>3. QED
    BY <2>1, <2>2
<1>3. f \in Injection(1..n, Account)
  <2>1. f \in [1..n -> Account]
    BY <1>2
  <2>2. \A i, j \in 1..n : f[i] = f[j] => i = j
    BY DEF OneRegistrationPerAccount
  <2>3. QED
    BY <2>1, <2>2 DEF Injection, IsInjective
<1>4. Cardinality(1..n) <= Cardinality(Account)
  BY <1>3, FS_Injection, RegistryAssumption
<1> HIDE DEF n
<1>5. Cardinality(1..n) = n
  BY <1>1, FS_Interval
<1>6. QED
  BY <1>4, <1>5 DEF n

LEMMA RegistrationsInTrees ==
    ASSUME RegistryTypeOK, OneRegistrationPerAccount
    PROVE  registrations \in OwnershipRoot
<1> DEFINE n == Len(registrations)
<1>1. n \in 0..Cardinality(Account)
  <2>1. n \in Nat /\ n <= Cardinality(Account)
    BY RegistrationsBounded DEF RegistryTypeOK
  <2>2. Cardinality(Account) \in Nat
    BY FS_CardinalityType, RegistryAssumption
  <2>3. QED
    BY <2>1, <2>2
<1>2. registrations \in [1..n -> Registration]
  BY DEF RegistryTypeOK
<1>3. DistinctAccounts(registrations)
  BY <1>2 DEF DistinctAccounts, OneRegistrationPerAccount
<1>4. QED
  BY <1>1, <1>2, <1>3, VotingAssumption

LEMMA StepOfRegistry ==
    RegistryInv /\ [Next]_vars => [RegistryNext]_registryVars
<1> SUFFICES ASSUME RegistryInv, Next
             PROVE  RegistryNext \/ UNCHANGED registryVars
  BY DEF vars
<1> USE DEF RegistryInv
<1>1. treeBuilder \in Account /\ Owner \in Account /\ Len(registrations) \in Nat
  BY RegistryAssumption DEF RegistryTypeOK
<1>2. CASE Register
  BY <1>2, VotingAssumption DEF Register, RegistryNext
<1>3. CASE PublishOwnershipRoot
  <2>1. submitOwnershipRoot(treeBuilder, registrations, Len(registrations))
    BY <1>3 DEF PublishOwnershipRoot
  <2>2. Len(registrations) \in 0..(Len(registrations) + 1)
    BY <1>1
  <2>3. QED
    BY <1>1, <2>1, <2>2, RegistrationsInTrees DEF RegistryNext
<1>4. CASE PublishBalancesRoot
  BY <1>1, <1>4, VotingAssumption DEF PublishBalancesRoot, RegistryNext
<1>5. CASE RegisterProposal
  BY <1>1, <1>5 DEF RegisterProposal, RegistryNext
<1>6. CASE ReplaceTreeBuilder
  BY <1>1, <1>6 DEF ReplaceTreeBuilder, RegistryNext
<1>7. CASE ConfigureTier \/ CastVote
  BY <1>7 DEF ConfigureTier, CastVote
<1>8. QED
  BY <1>2, <1>3, <1>4, <1>5, <1>6, <1>7 DEF Next

(***************************************************************************)
(* Used as the voters, the tree builder and the owner use it, the registry *)
(* stays within its specification, so all that is proved of it holds here. *)
(***************************************************************************)
THEOREM ImplementsRegistry == Spec => RegistrySpec
<1>1. Init => RegistryInit /\ RegistryInv
  BY RegistryInvInit DEF Init
<1>2. RegistryInv /\ [Next]_vars => RegistryInv'
  BY StepOfRegistry, RegistryInvStep
<1>3. QED
  BY <1>1, <1>2, StepOfRegistry, PTL DEF Spec, RegistrySpec

-----------------------------------------------------------------------------
(* The counting *)

(***************************************************************************)
(* The two bounds of a tier can be read back from their packed form, also  *)
(* when the upper one of the client is 2^128 itself.                       *)
(***************************************************************************)
LEMMA PackingInjective ==
    ASSUME NEW a \in Nat, NEW b \in Nat, NEW c \in Nat, NEW d \in Nat,
           b > 0, b <= TwoTo128, d > 0, d < TwoTo128,
           PackTierConfig(a, b) = PackTierConfig(c, d)
    PROVE  a = c /\ b = d
<1>1. TwoTo128 \in Nat /\ TwoTo128 > 0
  BY CircuitAssumption
<1>2. a * TwoTo128 + b = c * TwoTo128 + d
  BY DEF PackTierConfig
<1>3. (a - c) * TwoTo128 = d - b
  BY <1>1, <1>2
<1>4. d - b < TwoTo128 /\ d - b > -TwoTo128
  BY <1>1
<1>5. CASE a - c >= 1
  <2>1. (a - c) * TwoTo128 >= TwoTo128
    BY <1>1, <1>5
  <2>2. QED
    BY <1>1, <1>3, <1>4, <2>1
<1>6. CASE a - c <= -1
  <2>1. (a - c) * TwoTo128 <= -TwoTo128
    BY <1>1, <1>6
  <2>2. QED
    BY <1>1, <1>3, <1>4, <2>1
<1>7. CASE a = c
  BY <1>1, <1>2, <1>7
<1>8. QED
  BY <1>5, <1>6, <1>7

(* The ids of tiers are numbers.                                            *)
LEMMA TiersAreNaturals == Tier \subseteq Nat
<1>1. \A t \in 0..255 : t \in Nat
  OBVIOUS
<1>2. QED
  BY <1>1 DEF Tier

LEMMA VotingTypeInit == Init => BoothTypeOK
BY BoothAssumption DEF Init, BoothInit, BoothTypeOK, Tier

(***************************************************************************)
(* What a cast vote does, and of whom: the facts about CastVote the proofs *)
(* below use.                                                              *)
(***************************************************************************)
VoteOf(p, t, c, n) == [proposalId |-> p, tier |-> t, choice |-> c, nullifier |-> n]

Counted(p, t, c, n) ==
    /\ t < Len(tiers)
    /\ n \notin nullifierUsed[p]
    /\ nullifierUsed' = [nullifierUsed EXCEPT ![p] = @ \cup {n}]
    /\ tally' = [tally EXCEPT ![p][t][c] = @ + tiers[t + 1].weight]
    /\ totalVotes' = [totalVotes EXCEPT ![p] = @ + 1]
    /\ voteCast' = voteCast \cup {VoteOf(p, t, c, n)}

LEMMA CastVoteCounts ==
    ASSUME BoothTypeOK, CastVote
    PROVE  /\ \E p \in ProposalId, t \in Tier, c \in Choice, n \in Nullifier : Counted(p, t, c, n)
           /\ UNCHANGED <<tiers, registryVars>>
<1>1. PICK secret \in Secret, p \in ProposalId, c \in Choice,
           ownershipTree \in OwnershipRoot, balancesTree \in BalancesRoot, t \in Tier :
              LET pub == [ownershipRoot |-> ownershipTree,
                          balancesRoot  |-> balancesTree,
                          proposalId    |-> p,
                          voteChoice    |-> c,
                          tier          |-> t,
                          nullifier     |-> NullifierOf(secret, p),
                          tierConfig    |-> packedConfig(tiers[t + 1])]
              IN  vote(pub, pub)
  BY DEF CastVote
<1> DEFINE n == NullifierOf(secret, p)
<1>2. Counted(p, t, c, n)
  BY <1>1 DEF vote, recordVote, IsUnused, Counted, VoteOf
<1>3. n \in Nullifier
  BY DEF Nullifier
<1>4. UNCHANGED <<tiers, registryVars>>
  BY <1>1 DEF vote, CastVote
<1>5. QED
  BY <1>2, <1>3, <1>4

LEMMA VotingTypeStep == BoothTypeOK /\ [Next]_vars => BoothTypeOK'
<1> SUFFICES ASSUME BoothTypeOK, [Next]_vars
             PROVE  BoothTypeOK'
  OBVIOUS
<1>1. CASE ConfigureTier
  <2>1. PICK t \in TierInput : configureTier(Owner, t.min, t.max, t.weight)
    BY <1>1 DEF ConfigureTier
  <2>2. t.min \in Nat /\ t.max \in Nat /\ t.weight \in Nat
    BY BoothAssumption
  <2> DEFINE new == [min |-> t.min, max |-> t.max, weight |-> t.weight]
  <2>3. new \in TierConfig
    BY <2>2 DEF TierConfig
  <2>4. /\ tiers' = Append(tiers, new)
        /\ Len(tiers) < MaxTiers
        /\ UNCHANGED <<tally, nullifierUsed, totalVotes, voteCast>>
    BY <2>1 DEF configureTier
  <2>5. tiers' \in Seq(TierConfig) /\ Len(tiers') = Len(tiers) + 1 /\ Len(tiers) \in Nat
    BY <2>3, <2>4 DEF BoothTypeOK
  <2>6. QED
    BY <2>4, <2>5, BoothAssumption DEF BoothTypeOK
<1>2. CASE CastVote
  <2>1. PICK p \in ProposalId, t \in Tier, c \in Choice, n \in Nullifier : Counted(p, t, c, n)
    BY <1>2, CastVoteCounts
  <2>2. tiers[t + 1].weight \in Nat
    <3>1. t + 1 \in 1..Len(tiers)
      BY <2>1, TiersAreNaturals DEF Counted, BoothTypeOK
    <3>2. tiers[t + 1] \in TierConfig
      BY <3>1 DEF BoothTypeOK
    <3>3. QED
      BY <3>2 DEF TierConfig
  <2>3. VoteOf(p, t, c, n) \in VoteCast
    BY DEF VoteOf, VoteCast
  <2>4. QED
    BY <1>2, <2>1, <2>2, <2>3, CastVoteCounts DEF BoothTypeOK, Counted
<1>3. CASE UNCHANGED boothVars
  BY <1>3 DEF boothVars, BoothTypeOK
<1>4. QED
  BY <1>1, <1>2, <1>3 DEF Next, vars, Register, PublishOwnershipRoot, PublishBalancesRoot,
                          RegisterProposal, ReplaceTreeBuilder

(* The ballot box counts with the same cardinality as the contracts.       *)
LEMMA BoxCardinality ==
    ASSUME NEW S
    PROVE  Box!Cardinality(S) = Cardinality(S)
BY DEF Box!Cardinality, Cardinality

LEMMA VotesCountedStep ==
    ASSUME BoothTypeOK, IsFiniteSet(voteCast), VotesCountedOnce,
           NEW p \in ProposalId, NEW t \in Tier, NEW c \in Choice, NEW n \in Nullifier,
           Counted(p, t, c, n)
    PROVE  VotesCountedOnce' /\ IsFiniteSet(voteCast)'
<1> DEFINE new == VoteOf(p, t, c, n)
<1>1. \A e \in BallotsOf(p) : e.nullifier # n
  BY DEF Counted, VotesCountedOnce
<1>2. new.proposalId = p /\ new.nullifier = n
  BY DEF VoteOf
<1>3. new \notin voteCast
  BY <1>1, <1>2 DEF BallotsOf
<1>4. voteCast' = voteCast \cup {new}
  BY DEF Counted
<1>5. IsFiniteSet(voteCast)'
  BY <1>4, FS_AddElement
<1>6. \A q \in ProposalId : IsFiniteSet(BallotsOf(q))
  <2>1. \A q \in ProposalId : BallotsOf(q) \in SUBSET voteCast
    BY DEF BallotsOf
  <2>2. QED
    BY <2>1, FS_Subset
<1>7. BallotsOf(p)' = BallotsOf(p) \cup {new}
  BY <1>2, <1>4 DEF BallotsOf
<1>8. \A q \in ProposalId \ {p} : BallotsOf(q)' = BallotsOf(q)
  BY <1>2, <1>4 DEF BallotsOf
<1>9. totalVotes'[p] = totalVotes[p] + 1
      /\ \A q \in ProposalId \ {p} : totalVotes'[q] = totalVotes[q]
  BY DEF Counted, BoothTypeOK
<1>10. nullifierUsed'[p] = nullifierUsed[p] \cup {n}
       /\ \A q \in ProposalId \ {p} : nullifierUsed'[q] = nullifierUsed[q]
  BY DEF Counted, BoothTypeOK
<1>11. ASSUME NEW q \in ProposalId
       PROVE  /\ totalVotes'[q] = Cardinality(BallotsOf(q)')
              /\ nullifierUsed'[q] = {e.nullifier : e \in BallotsOf(q)'}
              /\ \A e, f \in BallotsOf(q)' : e.nullifier = f.nullifier => e = f
  <2>1. CASE q = p
    <3>1. Cardinality(BallotsOf(p) \cup {new}) = Cardinality(BallotsOf(p)) + 1
      BY <1>3, <1>6, FS_AddElement DEF BallotsOf
    <3>2. totalVotes'[q] = Cardinality(BallotsOf(q)')
      BY <1>7, <1>9, <2>1, <3>1 DEF VotesCountedOnce
    <3>3. nullifierUsed'[q] = {e.nullifier : e \in BallotsOf(q)'}
      BY <1>2, <1>7, <1>10, <2>1 DEF VotesCountedOnce
    <3>4. \A e, f \in BallotsOf(q)' : e.nullifier = f.nullifier => e = f
      BY <1>1, <1>2, <1>7, <2>1 DEF VotesCountedOnce
    <3>5. QED
      BY <3>2, <3>3, <3>4
  <2>2. CASE q # p
    BY <1>8, <1>9, <1>10, <2>2 DEF VotesCountedOnce
  <2>3. QED
    BY <2>1, <2>2
<1>12. QED
  BY <1>5, <1>11 DEF VotesCountedOnce

(***************************************************************************)
(* The tally after a vote is the weighted count of the ballots after it.   *)
(***************************************************************************)
LEMMA TallyAfterVote ==
    ASSUME BoothTypeOK, TallyIsCount, VotesCountedOnce,
           NEW p \in ProposalId, NEW t \in Tier, NEW c \in Choice, NEW n \in Nullifier,
           Counted(p, t, c, n), UNCHANGED tiers
    PROVE  TallyIsCount'
<1> DEFINE new == VoteOf(p, t, c, n)
           Before(q, u, d) == Box!BallotsFor(voteCast, q, u, d)
           After(q, u, d)  == Box!BallotsFor(voteCast \cup {new}, q, u, d)
<1>1. voteCast' = voteCast \cup {new} /\ TierWeights' = TierWeights
  BY DEF Counted, TierWeights
<1>2. new.proposalId = p /\ new.tier = t /\ new.choice = c /\ new.nullifier = n
  BY DEF VoteOf
<1>3. new \notin voteCast
  <2>1. \A e \in BallotsOf(p) : e.nullifier # n
    BY DEF Counted, VotesCountedOnce
  <2>2. QED
    BY <1>2, <2>1 DEF BallotsOf
<1>4. IsFiniteSet(voteCast) /\ IsFiniteSet(voteCast')
  BY <1>1, FS_AddElement DEF TallyIsCount
<1>5. ASSUME NEW q, NEW u, NEW d
      PROVE  IsFiniteSet(Before(q, u, d)) /\ Cardinality(Before(q, u, d)) \in Nat
  <2>1. Before(q, u, d) \in SUBSET voteCast
    BY DEF Box!BallotsFor
  <2>2. QED
    BY <1>4, <2>1, FS_Subset, FS_CardinalityType
<1>6. Cardinality(After(p, t, c)) = Cardinality(Before(p, t, c)) + 1
  <2>1. After(p, t, c) = Before(p, t, c) \cup {new}
    BY <1>2 DEF Box!BallotsFor
  <2>2. new \notin Before(p, t, c)
    BY <1>3 DEF Box!BallotsFor
  <2>3. QED
    BY <1>5, <2>1, <2>2, FS_AddElement
<1>7. ASSUME NEW q, NEW u, NEW d, ~(q = p /\ u = t /\ d = c)
      PROVE  After(q, u, d) = Before(q, u, d)
  BY <1>2, <1>7 DEF Box!BallotsFor
<1>8. /\ Len(tiers) \in Nat
      /\ t \in 0..(Len(tiers) - 1)
      /\ tiers[t + 1].weight \in Nat
  <2>1. Len(tiers) \in Nat /\ t \in 0..(Len(tiers) - 1)
    BY TiersAreNaturals DEF Counted, BoothTypeOK
  <2>2. tiers[t + 1] \in TierConfig
    BY <2>1 DEF BoothTypeOK
  <2>3. QED
    BY <2>1, <2>2 DEF TierConfig
<1>9. Box!WeightOf(TierWeights, t) = tiers[t + 1].weight
  BY <1>8 DEF Box!WeightOf, TierWeights
<1>10. tally'[p][t][c] = Box!WeightOf(TierWeights, t) * Cardinality(After(p, t, c))
  <2>1. tally[p][t][c] = Box!WeightOf(TierWeights, t) * Cardinality(Before(p, t, c))
    BY BoxCardinality DEF TallyIsCount, Box!ResultsOf
  <2>2. tally'[p][t][c] = tally[p][t][c] + tiers[t + 1].weight
    BY DEF Counted, BoothTypeOK
  <2>3. Cardinality(Before(p, t, c)) \in Nat
    BY <1>5
  <2>4. \A w \in Nat, k \in Nat : w * (k + 1) = w * k + w
    OBVIOUS
  <2>5. QED
    BY <1>6, <1>8, <1>9, <2>1, <2>2, <2>3, <2>4
<1>11. ASSUME NEW q \in ProposalId, NEW u \in Tier, NEW d \in Choice
       PROVE  tally'[q][u][d] = Box!WeightOf(TierWeights, u) * Cardinality(After(q, u, d))
  <2>1. CASE q = p /\ u = t /\ d = c
    BY <1>10, <2>1
  <2>2. CASE ~(q = p /\ u = t /\ d = c)
    <3>1. tally'[q][u][d] = tally[q][u][d]
      BY <2>2 DEF Counted, BoothTypeOK
    <3>2. tally[q][u][d] = Box!WeightOf(TierWeights, u) * Cardinality(Before(q, u, d))
      BY BoxCardinality DEF TallyIsCount, Box!ResultsOf
    <3>3. QED
      BY <1>7, <2>2, <3>1, <3>2
  <2>3. QED
    BY <2>1, <2>2
<1>12. tally' \in [ProposalId -> [Tier -> [Choice -> Nat]]]
  BY <1>8 DEF Counted, BoothTypeOK
<1>13. tally' = Box!ResultsOf(voteCast', TierWeights')
  <2>1. tally' = [q \in ProposalId |-> [u \in Tier |-> [d \in Choice |-> tally'[q][u][d]]]]
    BY <1>12
  <2>2. tally' = [q \in ProposalId |-> [u \in Tier |-> [d \in Choice |->
                     Box!WeightOf(TierWeights, u) * Cardinality(After(q, u, d))]]]
    <3> DEFINE W(q, u, d) == Box!WeightOf(TierWeights, u) * Cardinality(After(q, u, d))
    <3>1. \A q \in ProposalId, u \in Tier, d \in Choice : tally'[q][u][d] = W(q, u, d)
      BY <1>11
    <3> HIDE DEF W
    <3>2. \A q \in ProposalId, u \in Tier :
              [d \in Choice |-> tally'[q][u][d]] = [d \in Choice |-> W(q, u, d)]
      BY <3>1
    <3>3. \A q \in ProposalId :
              [u \in Tier |-> [d \in Choice |-> tally'[q][u][d]]]
                = [u \in Tier |-> [d \in Choice |-> W(q, u, d)]]
      BY <3>2
    <3>4. tally' = [q \in ProposalId |-> [u \in Tier |-> [d \in Choice |-> W(q, u, d)]]]
      BY <2>1, <3>3
    <3>5. QED
      BY <3>4 DEF W
  <2>3. QED
    BY <1>1, <2>2, BoxCardinality DEF Box!ResultsOf
<1>14. \A e \in voteCast' : e.tier < Len(tiers)'
  BY <1>1, <1>2 DEF TallyIsCount, Counted
<1>15. QED
  BY <1>4, <1>13, <1>14 DEF TallyIsCount

(* A new tier has no ballots, so adding it changes no result.              *)
LEMMA TallyAfterTier ==
    ASSUME BoothTypeOK, TallyIsCount, ConfigureTier
    PROVE  TallyIsCount'
<1>1. PICK input \in TierInput : configureTier(Owner, input.min, input.max, input.weight)
  BY DEF ConfigureTier
<1> DEFINE k == Len(tiers)
           new == [min |-> input.min, max |-> input.max, weight |-> input.weight]
<1>2. tiers' = Append(tiers, new) /\ UNCHANGED <<tally, voteCast>>
  BY <1>1 DEF configureTier
<1>3. /\ k \in Nat
      /\ Len(tiers') = k + 1
      /\ \A i \in 1..k : tiers'[i] = tiers[i]
      /\ tiers'[k + 1] = new
  BY <1>2 DEF BoothTypeOK
<1>4. input.weight \in Nat
  BY BoothAssumption
<1>5. ASSUME NEW u \in Tier, u # k
      PROVE  Box!WeightOf(TierWeights', u) = Box!WeightOf(TierWeights, u)
  BY <1>3, <1>5, TiersAreNaturals DEF Box!WeightOf, TierWeights
<1>6. ASSUME NEW q \in ProposalId, NEW d \in Choice
      PROVE  Cardinality(Box!BallotsFor(voteCast, q, k, d)) = 0
  <2>1. Box!BallotsFor(voteCast, q, k, d) = {}
    BY <1>3 DEF Box!BallotsFor, TallyIsCount
  <2>2. QED
    BY <2>1, FS_EmptySet
<1>7. ASSUME NEW q \in ProposalId, NEW u \in Tier, NEW d \in Choice
      PROVE  tally[q][u][d]
               = Box!WeightOf(TierWeights', u) * Cardinality(Box!BallotsFor(voteCast, q, u, d))
  <2>1. tally[q][u][d]
          = Box!WeightOf(TierWeights, u) * Cardinality(Box!BallotsFor(voteCast, q, u, d))
    BY BoxCardinality DEF TallyIsCount, Box!ResultsOf
  <2>2. CASE u # k
    BY <1>5, <2>1, <2>2
  <2>3. CASE u = k
    <3>1. Box!WeightOf(TierWeights, u) = 0
      BY <1>3, <2>3 DEF Box!WeightOf, TierWeights
    <3>2. Box!WeightOf(TierWeights', u) = input.weight
      BY <1>3, <2>3 DEF Box!WeightOf, TierWeights
    <3>3. QED
      BY <1>4, <1>6, <2>1, <2>3, <3>1, <3>2
  <2>4. QED
    BY <2>2, <2>3
<1>8. tally' = Box!ResultsOf(voteCast', TierWeights')
  BY <1>2, <1>7, BoxCardinality DEF Box!ResultsOf, BoothTypeOK
<1>9. \A e \in voteCast' : e.tier < Len(tiers)'
  <2>1. \A e \in voteCast : e.tier < k /\ e.tier \in Nat
    BY TiersAreNaturals DEF TallyIsCount, BoothTypeOK, VoteCast
  <2>2. QED
    BY <1>2, <1>3, <2>1
<1>10. \A i \in 1..Len(tiers') : tiers'[i].weight \in {t.weight : t \in TierInput}
  BY <1>3 DEF TallyIsCount
<1>11. QED
  BY <1>2, <1>8, <1>9, <1>10 DEF TallyIsCount

-----------------------------------------------------------------------------
(* Who votes *)

(* A step appends at most one registration and changes none.               *)
LEMMA RegistrationsGrow ==
    ASSUME RegistryInv, [Next]_vars
    PROVE  /\ Len(registrations) \in Nat /\ Len(registrations') \in Nat
           /\ Len(registrations) <= Len(registrations')
           /\ \A i \in 1..Len(registrations) : registrations'[i] = registrations[i]
<1>1. registrations \in Seq(Registration)
  BY DEF RegistryInv, RegistryTypeOK
<1>2. CASE Register
  <2>1. PICK sender \in Account, secret \in Secret : register(sender, CommitmentOf(secret))
    BY <1>2 DEF Register
  <2> DEFINE new == [account |-> sender, commitment |-> CommitmentOf(secret)]
  <2>2. registrations' = Append(registrations, new)
    BY <2>1 DEF register
  <2>3. new \in Registration
    BY VotingAssumption DEF Registration
  <2>4. QED
    BY <1>1, <2>2, <2>3
<1>3. CASE UNCHANGED registrations
  BY <1>1, <1>3
<1>4. QED
  BY <1>2, <1>3 DEF Next, vars, registryVars, PublishOwnershipRoot, submitOwnershipRoot,
                    PublishBalancesRoot, submitBalancesRoot, RegisterProposal,
                    registerProposal, ReplaceTreeBuilder, setTreeBuilder, ConfigureTier,
                    CastVote

LEMMA PrefixesStep ==
    RegistryInv /\ KnownRootsArePrefixes /\ [Next]_vars => KnownRootsArePrefixes'
<1> SUFFICES ASSUME RegistryInv, KnownRootsArePrefixes, [Next]_vars,
                    NEW root \in knownOwnershipRoots'
             PROVE  /\ Len(root) <= Len(registrations')
                    /\ \A i \in 1..Len(root) : root[i] = registrations'[i]
  BY DEF KnownRootsArePrefixes
<1>1. /\ Len(registrations) \in Nat /\ Len(registrations') \in Nat
      /\ Len(registrations) <= Len(registrations')
      /\ \A i \in 1..Len(registrations) : registrations'[i] = registrations[i]
  BY RegistrationsGrow
<1>2. root \in knownOwnershipRoots \/ root = registrations
  <2>1. CASE PublishOwnershipRoot
    BY <2>1 DEF PublishOwnershipRoot, submitOwnershipRoot
  <2>2. CASE UNCHANGED ownershipVars
    BY <2>2 DEF ownershipVars
  <2>3. QED
    BY <2>1, <2>2
       DEF Next, vars, registryVars, Register, register, PublishBalancesRoot,
           submitBalancesRoot, RegisterProposal, registerProposal, ReplaceTreeBuilder,
           setTreeBuilder, ConfigureTier, CastVote
<1>3. CASE root = registrations
  BY <1>1, <1>3
<1>4. CASE root \in knownOwnershipRoots
  <2>1. /\ Len(root) <= Len(registrations)
        /\ \A i \in 1..Len(root) : root[i] = registrations[i]
    BY <1>4 DEF KnownRootsArePrefixes
  <2>2. Len(root) \in Nat
    BY <1>4, VotingAssumption DEF RegistryInv, RegistryTypeOK
  <2>3. QED
    BY <1>1, <2>1, <2>2
<1>5. QED
  BY <1>2, <1>3, <1>4

(* A configured tier keeps its bounds and its weight.                      *)
LEMMA TiersGrow ==
    ASSUME BoothTypeOK, [Next]_vars
    PROVE  /\ Len(tiers) \in Nat /\ Len(tiers') \in Nat
           /\ Len(tiers) <= Len(tiers')
           /\ \A i \in 1..Len(tiers) : tiers'[i] = tiers[i]
<1>1. CASE ConfigureTier
  BY <1>1 DEF ConfigureTier, configureTier, BoothTypeOK
<1>2. CASE UNCHANGED tiers
  BY <1>2 DEF BoothTypeOK
<1>3. QED
  BY <1>1, <1>2, CastVoteCounts
     DEF Next, vars, boothVars, Register, PublishOwnershipRoot, PublishBalancesRoot,
         RegisterProposal, ReplaceTreeBuilder

(***************************************************************************)
(* A ballot stays its account's: registrations, tiers and snapshots are    *)
(* only added, and a proposal keeps its block.                             *)
(***************************************************************************)
LEMMA BelongsForever ==
    ASSUME RegistryInv, [Next]_vars, NEW e \in VoteCast,
           NEW i \in 1..Len(registrations), NEW s \in submittedBlockSet, BelongsTo(e, i, s)
    PROVE  /\ BelongsTo(e, i, s)'
           /\ i \in 1..Len(registrations') /\ registrations'[i] = registrations[i]
           /\ s \in submittedBlockSet' /\ blockToBalancesRoot'[s] = blockToBalancesRoot[s]
<1>1. i \in 1..Len(registrations') /\ registrations'[i] = registrations[i]
  BY RegistrationsGrow
<1>2. e.proposalId \in ProposalId /\ s <= proposalBlock[e.proposalId]
  BY DEF VoteCast, BelongsTo
<1>3. s \in Block /\ s \in Nat /\ s > 0
  <2>1. \A j \in 1..Len(submittedBlocks) : submittedBlocks[j] \in Block
    BY DEF RegistryInv, RegistryTypeOK
  <2>2. s \in Block
    BY <2>1 DEF submittedBlockSet
  <2>3. QED
    BY <2>2, RegistryAssumption
<1>4. proposalBlock'[e.proposalId] = proposalBlock[e.proposalId]
  <2>1. proposalBlock[e.proposalId] # 0
    <3>1. proposalBlock[e.proposalId] \in Block \cup {0}
      BY <1>2 DEF RegistryInv, RegistryTypeOK
    <3>2. \A b \in Block \cup {0} : b \in Nat
      BY RegistryAssumption
    <3>3. proposalBlock[e.proposalId] \in Nat
      BY <3>1, <3>2
    <3>4. QED
      BY <1>2, <1>3, <3>3
  <2>2. CASE RegisterProposal
    <3>1. PICK q \in ProposalId, b \in Block : registerProposal(treeBuilder, q, b)
      BY <2>2 DEF RegisterProposal
    <3>2. QED
      BY <1>2, <2>1, <3>1 DEF registerProposal, RegistryInv, RegistryTypeOK
  <2>3. CASE UNCHANGED proposalBlock
    BY <2>3
  <2>4. QED
    BY <2>2, <2>3 DEF Next, vars, registryVars, Register, register, PublishOwnershipRoot,
           submitOwnershipRoot, PublishBalancesRoot, submitBalancesRoot, ReplaceTreeBuilder,
           setTreeBuilder, ConfigureTier, CastVote
<1>5. s \in submittedBlockSet' /\ blockToBalancesRoot'[s] = blockToBalancesRoot[s]
  <2>1. CASE PublishBalancesRoot
    <3>1. PICK b \in Block : submitBalancesRoot(treeBuilder, BalancesAt[b], b)
      BY <2>1 DEF PublishBalancesRoot
    <3>2. submittedBlockSet' = submittedBlockSet \cup {b}
      BY <3>1, SubmittedGrows DEF submitBalancesRoot, RegistryInv
    <3>3. blockToBalancesRoot[s] # NoRoot
      BY <1>3 DEF RegistryInv, SnapshotRecordsAgree
    <3>4. QED
      BY <1>3, <3>1, <3>2, <3>3 DEF submitBalancesRoot, RegistryInv, RegistryTypeOK
  <2>2. CASE UNCHANGED balancesVars
    BY <2>2 DEF balancesVars, submittedBlockSet
  <2>3. QED
    BY <2>1, <2>2 DEF Next, vars, registryVars, Register, register, PublishOwnershipRoot,
           submitOwnershipRoot, RegisterProposal, registerProposal, ReplaceTreeBuilder,
           setTreeBuilder, ConfigureTier, CastVote
<1>6. QED
  BY <1>1, <1>4, <1>5 DEF BelongsTo

LEMMA EligibleForever ==
    ASSUME RegistryInv, BoothTypeOK, [Next]_vars,
           NEW e \in VoteCast, IsEligible(e)
    PROVE  IsEligible(e)'
<1>1. PICK i \in 1..Len(registrations), s \in submittedBlockSet :
          /\ BelongsTo(e, i, s)
          /\ InBounds(blockToBalancesRoot[s][registrations[i].account], tiers[e.tier + 1])
  BY DEF IsEligible
<1>2. e.tier \in Nat /\ e.tier < Len(tiers)
  BY TiersAreNaturals DEF VoteCast, IsEligible
<1>3. /\ Len(tiers) \in Nat /\ Len(tiers') \in Nat /\ Len(tiers) <= Len(tiers')
      /\ \A j \in 1..Len(tiers) : tiers'[j] = tiers[j]
  BY TiersGrow
<1>4. e.tier < Len(tiers') /\ tiers'[e.tier + 1] = tiers[e.tier + 1]
  BY <1>2, <1>3
<1>5. /\ BelongsTo(e, i, s)'
      /\ i \in 1..Len(registrations') /\ registrations'[i] = registrations[i]
      /\ s \in submittedBlockSet' /\ blockToBalancesRoot'[s] = blockToBalancesRoot[s]
  BY <1>1, BelongsForever
<1>6. QED
  BY <1>1, <1>4, <1>5 DEF IsEligible, InBounds

(* An ownership proof against a known root is that of a registration.      *)
LEMMA MemberIsRegistered ==
    ASSUME RegistryInv, KnownRootsArePrefixes, NEW root \in knownOwnershipRoots,
           NEW address, NEW secret,
           InOwnershipTree(root, OwnershipLeaf(address, CommitmentOf(secret)))
    PROVE  \E i \in 1..Len(registrations) :
               registrations[i] = [account |-> address, commitment |-> CommitmentOf(secret)]
<1>1. PICK i \in 1..Len(root) :
          root[i] = [account |-> address, commitment |-> CommitmentOf(secret)]
  BY DEF InOwnershipTree, OwnershipLeaf
<1>2. Len(root) <= Len(registrations) /\ root[i] = registrations[i]
  BY <1>1 DEF KnownRootsArePrefixes
<1>3. Len(registrations) \in Nat /\ Len(root) \in Nat
  BY VotingAssumption DEF RegistryInv, RegistryTypeOK
<1>4. QED
  BY <1>1, <1>2, <1>3

(***************************************************************************)
(* The ballot a vote adds belongs to the account it was proved for: the    *)
(* known root is a prefix of the registrations, and the balances root that *)
(* of a snapshot not after the proposal's block.                           *)
(***************************************************************************)
LEMMA VoteBelongs ==
    ASSUME RegistryInv, KnownRootsArePrefixes, NEW e \in VoteCast,
           NEW secret \in Secret, NEW address, NEW pub, vote(pub, pub),
           e.proposalId = pub.proposalId, e.nullifier = NullifierOf(secret, e.proposalId),
           InOwnershipTree(pub.ownershipRoot, OwnershipLeaf(address, CommitmentOf(secret))),
           address \in DOMAIN pub.balancesRoot
    PROVE  \E i \in 1..Len(registrations), s \in submittedBlockSet :
               /\ BelongsTo(e, i, s)
               /\ registrations[i].account = address
               /\ blockToBalancesRoot[s] = pub.balancesRoot
<1>1. pub.ownershipRoot \in knownOwnershipRoots
  BY DEF vote, isKnownOwnershipRoot
<1>2. PICK s \in submittedBlockSet :
          s <= proposalBlock[pub.proposalId] /\ pub.balancesRoot = blockToBalancesRoot[s]
  BY DEF vote, IsSnapshotFor
<1>3. PICK i \in 1..Len(registrations) :
          registrations[i] = [account |-> address, commitment |-> CommitmentOf(secret)]
  BY <1>1, MemberIsRegistered
<1>4. QED
  BY <1>2, <1>3 DEF BelongsTo

(* A ballot any prover casts is a registered account's.                    *)
LEMMA RegisteredVote ==
    ASSUME RegistryInv, BoothTypeOK, KnownRootsArePrefixes, CastVote,
           NEW e \in voteCast' \ voteCast
    PROVE  /\ e.tier < Len(tiers')
           /\ (\E i \in 1..Len(registrations), s \in submittedBlockSet : BelongsTo(e, i, s))'
<1>1. PICK secret \in Secret, p \in ProposalId, c \in Choice,
           ownershipTree \in OwnershipRoot, balancesTree \in BalancesRoot, t \in Tier,
           address \in Account :
              LET pub == [ownershipRoot |-> ownershipTree,
                          balancesRoot  |-> balancesTree,
                          proposalId    |-> p,
                          voteChoice    |-> c,
                          tier          |-> t,
                          nullifier     |-> NullifierOf(secret, p),
                          tierConfig    |-> packedConfig(tiers[t + 1])]
              IN  t < Len(tiers) /\ vote(pub, pub) /\ Provable(address, secret, pub)
  BY DEF CastVote
<1> DEFINE pub == [ownershipRoot |-> ownershipTree,
                   balancesRoot  |-> balancesTree,
                   proposalId    |-> p,
                   voteChoice    |-> c,
                   tier          |-> t,
                   nullifier     |-> NullifierOf(secret, p),
                   tierConfig    |-> packedConfig(tiers[t + 1])]
<1>2. vote(pub, pub) /\ Provable(address, secret, pub) /\ t < Len(tiers)
  BY <1>1
<1>3. e = [proposalId |-> p, tier |-> t, choice |-> c, nullifier |-> NullifierOf(secret, p)]
  BY <1>2 DEF vote, recordVote
<1>4. e \in VoteCast /\ pub.proposalId = p /\ pub.ownershipRoot = ownershipTree
      /\ pub.balancesRoot = balancesTree
  BY <1>3 DEF VoteCast, Nullifier
<1>5. /\ InOwnershipTree(ownershipTree, OwnershipLeaf(address, CommitmentOf(secret)))
      /\ address \in DOMAIN balancesTree
  BY <1>2, <1>4 DEF Provable, PrivateVote
<1>6. \E i \in 1..Len(registrations), s \in submittedBlockSet : BelongsTo(e, i, s)
  <2> HIDE DEF pub
  <2>1. QED
    BY <1>2, <1>3, <1>4, <1>5, VoteBelongs
<1>7. UNCHANGED <<registrations, submittedBlockSet, blockToBalancesRoot, proposalBlock, tiers>>
  BY CastVoteCounts DEF registryVars, balancesVars, submittedBlockSet
<1>8. QED
  BY <1>2, <1>3, <1>6, <1>7 DEF BelongsTo

(* Only CastVote counts a ballot.                                          *)
LEMMA OnlyCastVoteCounts ==
    ASSUME [Next]_vars, ~CastVote
    PROVE  UNCHANGED <<voteCast, totalVotes, nullifierUsed>>
BY DEF Next, vars, boothVars, Register, PublishOwnershipRoot, PublishBalancesRoot,
       RegisterProposal, ReplaceTreeBuilder, ConfigureTier, configureTier

(***************************************************************************)
(* A vote made with the client library is in the contract's bounds: the    *)
(* library put the balance in the bounds of its own tier, and both pack to *)
(* the same number.                                                        *)
(***************************************************************************)
LEMMA ClientVoteEligible ==
    ASSUME RegistryInv, BoothTypeOK, KnownRootsArePrefixes, [Next]_vars,
           NEW e \in voteCast', e \in VoteCast, CastByClient(e)
    PROVE  IsEligible(e)'
<1>1. PICK secret \in Secret, root \in knownOwnershipRoots, d \in submittedBlockSet,
           address \in Account :
           LET pub == VoteInputs(secret, root, blockToBalancesRoot[d],
                                 e.proposalId, e.choice, e.tier)
           IN  vote(pub, pub) /\ GeneratesVoteProof(address, secret, pub)
  BY DEF CastByClient
<1> DEFINE pub == VoteInputs(secret, root, blockToBalancesRoot[d],
                             e.proposalId, e.choice, e.tier)
           bal == pub.balancesRoot[address]
           client == ClientTiers[e.tier + 1]
           tier == tiers[e.tier + 1]
<1>2. vote(pub, pub) /\ GeneratesVoteProof(address, secret, pub)
  BY <1>1
<1>3. /\ pub.proposalId = e.proposalId /\ pub.tier = e.tier
      /\ pub.nullifier = NullifierOf(secret, e.proposalId)
      /\ pub.tierConfig = PackTierConfig(client.min, client.max)
  BY DEF VoteInputs
<1>4. e.nullifier = NullifierOf(secret, e.proposalId) /\ e.tier < Len(tiers)
      /\ pub.tierConfig = packedConfig(tier)
  <2> HIDE DEF pub
  <2>1. voteCast' = voteCast \cup {[proposalId |-> pub.proposalId, tier |-> pub.tier,
                                    choice |-> pub.voteChoice, nullifier |-> pub.nullifier]}
    BY <1>2 DEF vote, recordVote
  <2>2. e \notin voteCast
    BY DEF CastByClient
  <2>3. e.nullifier = pub.nullifier
    BY <2>1, <2>2
  <2>4. pub.tier < Len(tiers) /\ pub.tierConfig = packedConfig(tiers[pub.tier + 1])
    BY <1>2 DEF vote, verifyProof
  <2>5. QED
    BY <1>3, <2>3, <2>4
<1>5. /\ InOwnershipTree(pub.ownershipRoot, OwnershipLeaf(address, CommitmentOf(secret)))
      /\ address \in DOMAIN pub.balancesRoot
      /\ InBounds(bal, client)
      /\ e.tier + 1 \in 1..Len(ClientTiers)
  <2> HIDE DEF pub
  <2>1. QED
    BY <1>2, <1>3 DEF GeneratesVoteProof, PrivateVote, DeterminesTier
<1>6. PICK i \in 1..Len(registrations), s \in submittedBlockSet :
          /\ BelongsTo(e, i, s)
          /\ registrations[i].account = address
          /\ blockToBalancesRoot[s] = pub.balancesRoot
  <2> HIDE DEF pub
  <2>1. QED
    BY <1>2, <1>3, <1>4, <1>5, VoteBelongs
<1>7. InBounds(bal, tier)
  <2>1. e.tier \in Nat /\ e.tier + 1 \in 1..Len(tiers)
    <3>1. e.tier \in Nat
      BY TiersAreNaturals DEF VoteCast
    <3>2. Len(tiers) \in Nat /\ e.tier < Len(tiers)
      BY <1>4 DEF BoothTypeOK
    <3>3. QED
      BY <3>1, <3>2
  <2>2. client.min \in Nat /\ client.max \in Nat /\ client.max <= TwoTo128
    <3>1. \A S : \A q \in Seq(S) : \A j \in 1..Len(q) : q[j] \in S
      OBVIOUS
    <3>2. client \in [min : Nat, max : Nat]
      BY <1>5, <3>1, CircuitAssumption
    <3>3. client.max <= TwoTo128
      BY <1>5, CircuitAssumption
    <3>4. QED
      BY <3>2, <3>3
  <2>3. tier.min \in Nat /\ tier.max \in Nat
    <3>1. tier \in TierConfig
      BY <2>1 DEF BoothTypeOK
    <3>2. QED
      BY <3>1 DEF TierConfig
  <2>4. tier.min < tier.max /\ tier.max < TwoTo128
    BY DEF CastByClient
  <2>5. packedConfig(tier) = PackTierConfig(tier.min, tier.max)
    <3>1. TwoTo128 \in Nat /\ tier.min < TwoTo128
      BY <2>3, <2>4, CircuitAssumption
    <3>2. tier.min % TwoTo128 = tier.min
      BY <2>3, <3>1
    <3>3. QED
      BY <2>4, <3>2 DEF packedConfig, PackTierConfig
  <2>6. bal \in Nat
    <3>1. pub.balancesRoot \in BalancesRoot
      <4>1. d \in Block
        BY DEF submittedBlockSet, RegistryInv, RegistryTypeOK
      <4>2. blockToBalancesRoot[d] \in BalancesRoot
        BY <4>1 DEF RegistryInv, RegistryTypeOK, SnapshotRecordsAgree
      <4>3. QED
        BY <4>2 DEF VoteInputs
    <3> HIDE DEF pub
    <3>2. QED
      BY <1>5, <3>1, VotingAssumption
  <2>7. client.min <= bal /\ bal < client.max
    BY <1>5 DEF InBounds
  <2> HIDE DEF pub, bal, client, tier
  <2>8. client.max > 0 /\ tier.max > 0
    BY <2>2, <2>3, <2>4, <2>6, <2>7
  <2>9. PackTierConfig(client.min, client.max) = PackTierConfig(tier.min, tier.max)
    BY <1>3, <1>4, <2>5
  <2>10. client.min = tier.min /\ client.max = tier.max
    BY <2>2, <2>3, <2>4, <2>8, <2>9, PackingInjective
  <2>11. QED
    BY <2>7, <2>10 DEF InBounds
<1>8. IsEligible(e)
  <2> HIDE DEF pub
  <2>1. QED
    BY <1>4, <1>6, <1>7 DEF IsEligible
<1>9. QED
  BY <1>8, EligibleForever

-----------------------------------------------------------------------------
(* The invariant *)

LEMMA VotingInvInit == Init => VotingInv
<1> SUFFICES ASSUME Init
             PROVE  VotingInv
  OBVIOUS
<1>1. BoothTypeOK
  BY VotingTypeInit
<1>2. tiers = <<>> /\ voteCast = {} /\ knownOwnershipRoots = {}
  BY DEF Init, RegistryInit, BoothInit
<1>3. KnownRootsArePrefixes /\ OnlyRegisteredBallots
  BY <1>2 DEF KnownRootsArePrefixes, OnlyRegisteredBallots
<1>4. VotesCountedOnce
  <2>1. \A p \in ProposalId : BallotsOf(p) = {}
    BY <1>2 DEF BallotsOf
  <2>2. QED
    BY <2>1, FS_EmptySet DEF VotesCountedOnce, Init, BoothInit
<1>5. TallyIsCount
  <2>1. ASSUME NEW q \in ProposalId, NEW u \in Tier, NEW d \in Choice
        PROVE  Box!WeightOf(TierWeights, u) * Cardinality(Box!BallotsFor(voteCast, q, u, d)) = 0
    <3>1. Box!BallotsFor(voteCast, q, u, d) = {}
      BY <1>2 DEF Box!BallotsFor
    <3>2. Box!WeightOf(TierWeights, u) = 0
      BY <1>2, TiersAreNaturals DEF Box!WeightOf, TierWeights
    <3>3. QED
      BY <3>1, <3>2, FS_EmptySet
  <2> DEFINE W(q, u, d) ==
               Box!WeightOf(TierWeights, u) * Cardinality(Box!BallotsFor(voteCast, q, u, d))
  <2>2. \A q \in ProposalId, u \in Tier, d \in Choice : W(q, u, d) = 0
    BY <2>1
  <2>3. tally = [q \in ProposalId |-> [u \in Tier |-> [d \in Choice |-> W(q, u, d)]]]
    <3> HIDE DEF W
    <3>1. \A q \in ProposalId, u \in Tier :
              [d \in Choice |-> W(q, u, d)] = [d \in Choice |-> 0]
      BY <2>2
    <3>2. \A q \in ProposalId :
              [u \in Tier |-> [d \in Choice |-> W(q, u, d)]]
                = [u \in Tier |-> [d \in Choice |-> 0]]
      BY <3>1
    <3>3. QED
      BY <3>2 DEF Init, BoothInit
  <2>4. tally = Box!ResultsOf(voteCast, TierWeights)
    BY <2>3, BoxCardinality DEF Box!ResultsOf
  <2>5. QED
    BY <1>2, <2>4, FS_EmptySet DEF TallyIsCount
<1>6. QED
  BY <1>1, <1>3, <1>4, <1>5 DEF VotingInv

LEMMA VotingInvStep == RegistryInv /\ VotingInv /\ [Next]_vars => VotingInv'
<1> SUFFICES ASSUME RegistryInv, VotingInv, [Next]_vars
             PROVE  VotingInv'
  OBVIOUS
<1> USE DEF VotingInv
<1>1. BoothTypeOK' /\ KnownRootsArePrefixes'
  BY VotingTypeStep, PrefixesStep
<1> DEFINE Registered(e) ==
             /\ e.tier < Len(tiers)
             /\ \E i \in 1..Len(registrations), s \in submittedBlockSet : BelongsTo(e, i, s)
<1>0. ASSUME NEW e \in voteCast
      PROVE  Registered(e)'
  <2>1. e \in VoteCast
    BY DEF BoothTypeOK
  <2>2. PICK i \in 1..Len(registrations), s \in submittedBlockSet : BelongsTo(e, i, s)
    BY DEF OnlyRegisteredBallots
  <2>3. BelongsTo(e, i, s)' /\ i \in 1..Len(registrations') /\ s \in submittedBlockSet'
    BY <2>1, <2>2, BelongsForever
  <2>4. e.tier \in Nat /\ e.tier < Len(tiers)
    BY <2>1, TiersAreNaturals DEF OnlyRegisteredBallots, VoteCast
  <2>5. e.tier < Len(tiers')
    BY <2>4, TiersGrow
  <2>6. QED
    BY <2>3, <2>5
<1>2. CASE CastVote
  <2>1. PICK p \in ProposalId, t \in Tier, c \in Choice, n \in Nullifier : Counted(p, t, c, n)
    BY <1>2, CastVoteCounts
  <2>2. UNCHANGED tiers
    BY <1>2, CastVoteCounts
  <2>3. VotesCountedOnce' /\ TallyIsCount'
    BY <2>1, <2>2, VotesCountedStep, TallyAfterVote DEF TallyIsCount
  <2>4. \A e \in voteCast' : Registered(e)'
    BY <1>2, <1>0, RegisteredVote
  <2>5. QED
    BY <1>1, <2>3, <2>4 DEF OnlyRegisteredBallots
<1>3. CASE ~CastVote
  <2>1. UNCHANGED <<voteCast, totalVotes, nullifierUsed>>
    BY <1>3, OnlyCastVoteCounts
  <2>2. VotesCountedOnce'
    BY <2>1 DEF VotesCountedOnce, BallotsOf
  <2>3. TallyIsCount'
    <3>1. CASE ConfigureTier
      BY <3>1, TallyAfterTier
    <3>2. CASE UNCHANGED boothVars
      BY <3>2 DEF boothVars, TallyIsCount, TierWeights
    <3>3. QED
      BY <1>3, <3>1, <3>2 DEF Next, vars, Register, PublishOwnershipRoot,
         PublishBalancesRoot, RegisterProposal, ReplaceTreeBuilder
  <2>4. OnlyRegisteredBallots'
    BY <1>0, <2>1 DEF OnlyRegisteredBallots
  <2>5. QED
    BY <1>1, <2>2, <2>3, <2>4
<1>4. QED
  BY <1>2, <1>3

(***************************************************************************)
(* The inductive invariant: the registry's and the booth's together.       *)
(***************************************************************************)
THEOREM VotingInvariant == Spec => [](RegistryInv /\ VotingInv)
<1>1. Init => RegistryInv /\ VotingInv
  BY RegistryInvInit, VotingInvInit DEF Init
<1>2. RegistryInv /\ VotingInv /\ [Next]_vars => (RegistryInv /\ VotingInv)'
  BY StepOfRegistry, RegistryInvStep, VotingInvStep
<1>3. QED
  BY <1>1, <1>2, PTL DEF Spec

(* Every variable of the two contracts keeps its type.                     *)
THEOREM VotingTypeCorrect == Spec => []TypeOK
<1>1. RegistryInv /\ VotingInv => TypeOK
  BY DEF RegistryInv, VotingInv, TypeOK
<1>2. QED
  BY <1>1, VotingInvariant, PTL

(***************************************************************************)
(* Counts, nullifiers and events of every proposal agree, and no nullifier *)
(* votes twice on a proposal.                                              *)
(***************************************************************************)
THEOREM NoVoteCountedTwice == Spec => []VotesCountedOnce
<1>1. VotingInv => VotesCountedOnce
  BY DEF VotingInv
<1>2. QED
  BY <1>1, VotingInvariant, PTL

(* Every known ownership root is of a prefix of the registrations.         *)
THEOREM RootsArePrefixes == Spec => []KnownRootsArePrefixes
<1>1. VotingInv => KnownRootsArePrefixes
  BY DEF VotingInv
<1>2. QED
  BY <1>1, VotingInvariant, PTL

(***************************************************************************)
(* Every counted ballot was cast with the secret of a registered account   *)
(* that the proposal's balances know, whoever proved it.                   *)
(***************************************************************************)
THEOREM OnlyRegisteredVote == Spec => []OnlyRegisteredBallots
<1>1. VotingInv => OnlyRegisteredBallots
  BY DEF VotingInv
<1>2. QED
  BY <1>1, VotingInvariant, PTL

(***************************************************************************)
(* A vote made with the client library is counted in a tier the account's  *)
(* balance is in, whatever the two tables of tiers are, and an eligible    *)
(* ballot stays eligible.                                                  *)
(***************************************************************************)
THEOREM ClientVotesEligible == Spec => ClientVotesAreEligible
<1> DEFINE Eligible ==
        \A e \in voteCast' :
          (IF e \in voteCast THEN IsEligible(e) ELSE CastByClient(e)) => IsEligible(e)'
<1>1. RegistryInv /\ VotingInv /\ [Next]_vars => [Eligible]_vars
  <2> SUFFICES ASSUME RegistryInv, VotingInv, Next, NEW e \in voteCast',
                      IF e \in voteCast THEN IsEligible(e) ELSE CastByClient(e)
               PROVE  IsEligible(e)'
    OBVIOUS
  <2>1. BoothTypeOK /\ BoothTypeOK' /\ KnownRootsArePrefixes
    BY VotingInvStep DEF VotingInv
  <2>2. e \in VoteCast
    BY <2>1 DEF BoothTypeOK
  <2>3. CASE e \in voteCast
    BY <2>1, <2>2, <2>3, EligibleForever
  <2>4. CASE e \notin voteCast
    BY <2>1, <2>2, <2>4, ClientVoteEligible
  <2>5. QED
    BY <2>3, <2>4
<1>2. QED
  BY <1>1, VotingInvariant, PTL DEF Spec, ClientVotesAreEligible

(* A proposal never has more votes than there are distinct commitments.    *)
LEMMA CommitmentsBoundVotes ==
    ASSUME RegistryInv, VotingInv
    PROVE  VotesBoundedByCommitments
<1> DEFINE C == {registrations[i].commitment : i \in 1..Len(registrations)}
<1>1. IsFiniteSet(C)
  <2>1. IsFiniteSet(1..Len(registrations))
    BY FS_Interval DEF RegistryInv, RegistryTypeOK
  <2> DEFINE g == [i \in 1..Len(registrations) |-> registrations[i].commitment]
  <2>2. g \in Surjection(1..Len(registrations), C)
    BY DEF Surjection
  <2>3. QED
    BY <2>1, <2>2, FS_Surjection
<1>2. ASSUME NEW p \in ProposalId
      PROVE  totalVotes[p] <= Cardinality(C)
  <2> DEFINE f == [e \in BallotsOf(p) |-> CommitmentOf(e.nullifier.secret)]
  <2>1. \A e \in BallotsOf(p) : \E secret \in Secret :
            e.nullifier = NullifierOf(secret, p) /\ CommitmentOf(secret) \in C
    <3>1. \A e \in BallotsOf(p) : e.proposalId = p /\ e \in voteCast
      BY DEF BallotsOf
    <3>2. ASSUME NEW e \in BallotsOf(p)
          PROVE  \E i \in 1..Len(registrations), secret \in Secret :
                     /\ registrations[i].commitment = CommitmentOf(secret)
                     /\ e.nullifier = NullifierOf(secret, e.proposalId)
      BY <3>1 DEF VotingInv, OnlyRegisteredBallots, BelongsTo
    <3>3. \A i \in 1..Len(registrations) : registrations[i].commitment \in C
      OBVIOUS
    <3> HIDE DEF C
    <3>4. QED
      BY <3>1, <3>2, <3>3
  <2>2. f \in [BallotsOf(p) -> C]
    <3>1. \A secret : NullifierOf(secret, p).secret = secret
      BY DEF NullifierOf
    <3>2. \A e \in BallotsOf(p) : CommitmentOf(e.nullifier.secret) \in C
      BY <2>1, <3>1
    <3> HIDE DEF C
    <3>3. QED
      BY <3>2
  <2>3. ASSUME NEW e \in BallotsOf(p), NEW h \in BallotsOf(p), f[e] = f[h]
        PROVE  e = h
    <3>1. e.nullifier.secret = h.nullifier.secret
      BY <2>3 DEF CommitmentOf
    <3>2. e.nullifier = h.nullifier
      <4>1. \A secret : NullifierOf(secret, p).secret = secret
        BY DEF NullifierOf
      <4>2. \A b \in BallotsOf(p) : b.nullifier = NullifierOf(b.nullifier.secret, p)
        BY <2>1, <4>1
      <4>3. QED
        BY <3>1, <4>2
    <3>3. QED
      BY <3>2 DEF VotingInv, VotesCountedOnce
  <2>4. f \in Injection(BallotsOf(p), C)
    BY <2>2, <2>3 DEF Injection, IsInjective
  <2>5. Cardinality(BallotsOf(p)) <= Cardinality(C)
    BY <1>1, <2>4, FS_Injection
  <2>6. QED
    BY <2>5 DEF VotingInv, VotesCountedOnce
<1>3. QED
  BY <1>2 DEF VotesBoundedByCommitments

(***************************************************************************)
(* No set of voters, by whatever trees and however often they vote, gets   *)
(* more votes on a proposal than it has registered commitments.            *)
(***************************************************************************)
THEOREM VotesBounded == Spec => []VotesBoundedByCommitments
BY CommitmentsBoundVotes, VotingInvariant, PTL

-----------------------------------------------------------------------------
(* The contracts count as a ballot box *)

LEMMA BoxInit == Init => Box!Init
<1> SUFFICES ASSUME Init
             PROVE  Box!Init
  OBVIOUS
<1>1. VotingInv
  BY VotingInvInit
<1>2. voteCast = {} /\ TierWeights = <<>>
  BY DEF Init, BoothInit, TierWeights
<1>3. tally = Box!ResultsOf({}, <<>>)
  BY <1>1, <1>2 DEF VotingInv, TallyIsCount
<1>4. totalVotes = Box!CountsOf({})
  <2>1. \A p \in ProposalId : {b \in {} : b.proposalId = p} = {}
    OBVIOUS
  <2>2. QED
    BY <2>1, FS_EmptySet, BoxCardinality DEF Box!CountsOf, Init, BoothInit
<1>5. QED
  BY <1>2, <1>3, <1>4 DEF Box!Init

LEMMA BoxStep ==
    RegistryInv /\ VotingInv /\ [Next]_vars => [Box!Next]_(Box!vars)
<1> SUFFICES ASSUME RegistryInv, VotingInv, [Next]_vars
             PROVE  Box!Next \/ UNCHANGED Box!vars
  OBVIOUS
<1>1. VotingInv'
  BY VotingInvStep
<1>2. tally' = Box!ResultsOf(voteCast', TierWeights')
  BY <1>1 DEF VotingInv, TallyIsCount
<1>3. Len(tiers) \in Nat /\ Len(TierWeights) = Len(tiers)
  BY DEF VotingInv, BoothTypeOK, TierWeights
<1>4. CASE CastVote
  <2>1. PICK p \in ProposalId, t \in Tier, c \in Choice, n \in Nullifier : Counted(p, t, c, n)
    BY <1>4, CastVoteCounts DEF VotingInv
  <2> DEFINE new == VoteOf(p, t, c, n)
  <2>2. new \in Box!Ballot /\ new.tier = t /\ new.proposalId = p /\ new.nullifier = n
    BY DEF VoteOf, Box!Ballot
  <2>3. voteCast' = voteCast \cup {new} /\ TierWeights' = TierWeights
    BY <1>4, <2>1, CastVoteCounts DEF Counted, VotingInv, TierWeights
  <2>4. t < Len(TierWeights)
    BY <1>3, <2>1 DEF Counted
  <2>5. \A b \in voteCast : ~ /\ b.proposalId = new.proposalId
                              /\ b.nullifier = new.nullifier
    <3>1. \A b \in BallotsOf(p) : b.nullifier # n
      BY <2>1 DEF Counted, VotingInv, VotesCountedOnce
    <3>2. QED
      BY <2>2, <3>1 DEF BallotsOf
  <2>6. totalVotes' = Box!CountsOf(voteCast')
    <3>1. totalVotes' \in [ProposalId -> Nat]
      BY <1>1 DEF VotingInv, BoothTypeOK
    <3>2. \A q \in ProposalId :
              totalVotes'[q] = Cardinality({b \in voteCast' : b.proposalId = q})
      BY <1>1 DEF VotingInv, VotesCountedOnce, BallotsOf
    <3>3. QED
      BY <3>1, <3>2, BoxCardinality DEF Box!CountsOf
  <2>7. Box!Cast(new)
    BY <1>2, <2>2, <2>3, <2>4, <2>5, <2>6 DEF Box!Cast
  <2>8. QED
    BY <2>2, <2>7 DEF Box!Next
<1>5. CASE ConfigureTier
  <2>1. PICK input \in TierInput : configureTier(Owner, input.min, input.max, input.weight)
    BY <1>5 DEF ConfigureTier
  <2> DEFINE new == [min |-> input.min, max |-> input.max, weight |-> input.weight]
  <2>2. tiers' = Append(tiers, new) /\ UNCHANGED <<voteCast, totalVotes>>
    BY <2>1 DEF configureTier
  <2>3. TierWeights' = Append(TierWeights, input.weight)
    <3>1. /\ Len(tiers') = Len(tiers) + 1
          /\ tiers'[Len(tiers) + 1] = new
          /\ \A i \in 1..Len(tiers) : tiers'[i] = tiers[i]
      BY <2>2 DEF VotingInv, BoothTypeOK
    <3>2. TierWeights' = [i \in 1..(Len(tiers) + 1) |-> tiers'[i].weight]
      BY <3>1 DEF TierWeights
    <3>3. \A i \in 1..(Len(tiers) + 1) :
              tiers'[i].weight = IF i <= Len(tiers) THEN tiers[i].weight ELSE input.weight
      BY <1>3, <3>1
    <3>4. TierWeights \in Seq({t.weight : t \in TierInput})
      <4>1. \A i \in 1..Len(tiers) : tiers[i].weight \in {t.weight : t \in TierInput}
        BY DEF VotingInv, TallyIsCount
      <4>2. QED
        BY <1>3, <4>1 DEF TierWeights
    <3>5. Append(TierWeights, input.weight)
            = [i \in 1..(Len(tiers) + 1) |->
                  IF i <= Len(tiers) THEN TierWeights[i] ELSE input.weight]
      BY <1>3, <3>4
    <3>6. \A i \in 1..Len(tiers) : TierWeights[i] = tiers[i].weight
      BY DEF TierWeights
    <3>7. QED
      BY <1>3, <3>2, <3>3, <3>5, <3>6
  <2>4. Box!AddTier(input.weight)
    BY <1>2, <2>2, <2>3 DEF Box!AddTier
  <2>5. QED
    BY <2>4 DEF Box!Next
<1>6. CASE UNCHANGED boothVars
  BY <1>6 DEF boothVars, Box!vars, TierWeights
<1>7. QED
  BY <1>4, <1>5, <1>6 DEF Next, vars, Register, PublishOwnershipRoot, PublishBalancesRoot,
                          RegisterProposal, ReplaceTreeBuilder

(***************************************************************************)
(* The contracts implement the ballot box: a step casts one ballot that    *)
(* was not there, adds one tier or changes nothing, and the tally is at    *)
(* all times the weighted count of the ballots.                            *)
(***************************************************************************)
THEOREM CountsAsBallotBox == Spec => ImplementsBallotBox
<1>1. Spec => Box!Init /\ [][Box!Next]_(Box!vars)
  BY BoxInit, BoxStep, VotingInvariant, PTL DEF Spec
<1>2. QED
  BY <1>1 DEF ImplementsBallotBox, Box!Spec

=============================================================================
