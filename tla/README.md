# zkOpenGov in TLA+

A verification project for zkOpenGov, private voting on OpenGov referenda:
TLA+ modules that model its contracts, circuit, indexer, relayer and voting
client, TLC configurations that check them on small instances, and TLAPS proofs that every
property checked, liveness apart, holds for every value of the constants.

## 1. The system

A voter registers `Poseidon(secret)` on chain. The **indexer** builds a Merkle
tree of the registrations (the ownership tree) and one of the account balances
at a block (a balances tree), uploads both and submits their roots. To vote, the
**client library** proves in zero knowledge, with the **PrivateVote circuit**,
that the voter's account is in the ownership tree with the commitment of the
secret, that its balance in the balances tree lies in the bounds of a tier, and
that the nullifier is `Poseidon(secret, proposal)`. The **relayer** sends the
proof to the **VotingBooth** contract, which checks the roots against the
**VotingRegistry** and counts the vote with the weight of its tier.

| part | state it keeps | operations | talks to |
|---|---|---|---|
| `contracts/src/VotingRegistry.sol` | registrations, known roots, snapshot blocks, proposals' blocks | register, submitOwnershipRoot, submitBalancesRoot, registerProposal, setTreeBuilder, findBalancesRootForProposal | called by voters, indexer, VotingBooth |
| `contracts/src/VotingBooth.sol` | tiers, tally, used nullifiers, vote counts | configureTier, vote, getResults | reads the registry, calls the verifier |
| `circuits/` | none | the PrivateVote relation | proved by the client, verified on chain |
| `client-lib/src` | none | determineTier, generateVoteProof, Merkle trees | downloads trees |
| `indexer/src`, ownership side | registrations in memory, their tree, last index seen | startup fetch, 30 s poll, incremental insertion, upload, submission | events of and transactions to the registry, S3 |
| `indexer/src`, balances side | balances, tree, snapshot block, cache files | cron job, cache, archive search, partition scan, proposal sync | Asset Hub RPC, Subscan, registry, S3 |
| `relayer/src` | queue, processing flag, nonce | relay request, pre-checks, processNext, submitVote | reads both contracts, sends votes |
| `frontend/src` | secret and index in localStorage, what each page shows | connect, register, wait for the tree, restore and clear the secret, vote, results | wallet, registry, client-lib, relayer |

What makes it hard: transactions of many senders interleave in any order; roots
are published late and out of order (`script/backfill-roots.ts`); trees are
uploaded before their roots are on chain; the indexer's polls overlap
(`setInterval` with an awaiting callback), its submissions fail or are executed
after a restart; the relayer's handlers interleave, pre-checks swallow read
errors, sends and waits fail while the transaction stays pending, nonces are
guessed; startup, the refresh it leaves behind and the jobs of several days share one balances
tree in memory and one directory of cache files, and may stop or fail at every
await; proposal syncs overlap; the frontend saves a secret after the transaction
that depends on it, under one key for all accounts, while pages are left, reloaded
and switched to another account.
`PROJECT.json` lists these hazards at their lines with the properties aimed at
them.

What makes each part correct: the registry's redundant records agree and what
others rely on never goes back; a counted ballot is that of a registered account the
proposal's snapshot knows and is counted once, and a vote made with the client library is
in a tier its balance is in; what the indexer publishes is the whole list of registrations and
in the end every one of them; the relayer sends one transaction at a time without
nonce gaps, answers everybody, and says success only of a vote that counts; a
balances root is recorded for the block it is of, with its leaves in the bucket, and
is that of every account there; a proposal has its referendum's block; no change of page or
account makes the browser lose a secret it has sent, and it shows no vote that was not
counted.

## 2. The modules and the code

| module | models |
|---|---|
| `VotingRegistry` | VotingRegistry.sol. One action per transaction; the unprimed conjuncts are its `require`s. |
| `PrivateVoteCircuit` | PrivateVote.circom with its library, and `determineTier`/`generateVoteProof` of the client library. |
| `VotingBooth` | VotingBooth.sol on top of the two above. |
| `BallotBox` | the abstract specification of counting: ballots, one per proposal and nullifier, never changed, and results that are their weighted count. |
| `PrivateVoting` | both contracts with the parties that call them: voters, tree builder, owner; anyone may send any proof the circuit accepts. |
| `OwnershipIndexer` | the ownership side of the indexer working on the registry: index.ts, event-listener.ts, root-submitter.ts. |
| `BalancesIndexer` | the balances side of the indexer: startup, refresh and daily job of index.ts, cache.ts, root-submitter.ts, s3-uploader.ts, and the backfill script. |
| `ProposalSync` | `syncProposals` of index.ts with `registerProposal` of root-submitter.ts. |
| `MerkleTree` | the two Merkle trees, PoseidonMerkleTree.ts of the indexer and merkle-tree.ts of the client library, as functions. |
| `BalancesSnapshot` | how a snapshot comes about: polkadot-rpc.ts, balance-fetcher.ts, balances-tree.ts, on top of `MerkleTree`. |
| `VotingClient` | one browser: usePolkadotWallet.ts, useRegistration.ts, useVoting.ts, secret-storage.ts and the buttons of Register.tsx and Vote.tsx, on top of `PrivateVoteCircuit`. |
| `Relayer` | queue.ts, tx-submitter.ts, the relay handler of index.ts, proof-validator.ts, and the wallet's nonce on chain. |
| `VoteRelay` | the abstract specification of the relayer: what "200", "400" and "500" say of a vote, without queue, nonces or pending transactions. |
| `MC*` | values for TLC. |
| `*Proofs` | theorems and proofs of the module they are named after; those of `VotingRegistry` are the first part of `PrivateVotingProofs`. |

Correspondence of state and actions:

* **Contracts.** Variables have the source's names. A mapping to bool is the set
  of its true keys; a mapping is a function with the EVM's zero as default.
  A revert is a stuttering step. `owner` is the constant `Owner`.
* **Hashes and trees.** Poseidon is taken to be injective on the values in use,
  so a hash is the record of its inputs, an ownership root is the sequence of the
  leaves and a balances root the function from accounts to balances. A Groth16
  proof is represented by the public inputs it was made for. This is the one
  cryptographic assumption of the project.
* **Numbers.** `TwoTo128` is 2^128, `CompareRange` the 2^252 of `RangeProof(252)` and
  `FieldPrime` the order of the field, as constants. The contract packs the bounds of a
  tier by shift and bitwise or in 256 bits (`packedConfig`), the circuit by a sum in the
  field, and compares by the top bit of a difference in the field (`LessThan`). Tier ids
  are what a uint8 holds; `MaxTiers` is a bound on their number the contract lacks.
* **Provers.** The two bounds are private inputs of the circuit. `Provable` lets the
  prover choose any, and `CastVote` sends any proof there is; `GeneratesVoteProof` is the
  client library's proof, which has the bounds of the client's own table. What holds of
  every proof (`OnlyRegisteredBallots`) and what holds of the client's
  (`ClientVotesAreEligible`) are two properties.
* **Indexer.** An action runs from one `await` to the next. Polls and submissions
  under way are *slots*, since nothing in the code stops several from being under
  way. A slot waits for an upload, the count on chain, a send or a receipt.
  `windowStart` stands for the 1000 blocks a poll looks back; `BlocksPass` moves
  it. A submission sent stays in the mempool over a crash and is executed or
  reverts at any later time. Two equal submissions are one element of `mempool`.
  A failed poll query is no step: the timer polls again.
* **Relayer.** `stage[r]` is what the handler of request `r` awaits, or its
  answer. `processNext` is an operator used by `enqueue` and by the end of every
  request, as in the code, where `finally` starts the next one with no `await` in
  between. `txNonce` is the local `nonce` of `processNext`. The node is external:
  it takes a transaction whose nonce is not used up, in place of a pending one with
  the same nonce, or refuses it, and it may drop a pending one. `AnswerTo` is what a
  client was told; with `voted` and `nullifierUsed` it is the state of `VoteRelay`.
* **Balances side.** `DailyJobs` are names for the jobs, as many as may be under way at
  once: that of an earlier day may be when the next begins. A job begins at midnight, when
  the block is a later one, if the process is there and has got as far as to schedule it.
  `activity[a].pc` is what startup, the
  refresh or a job awaits; `post` are the arguments of its `postBalancesTreeActions`, which are read
  when it is called, and `submit` what `submitRoots` reads of the tree in memory
  (`current`) after the ownership submission. The balances at a block are named by
  their root. A stop while a file is written leaves `HalfFile`, which does not
  parse. `failedUploads`, `failedSnapshots` and `overtaken` record what went wrong and no
  action reads them. The ownership submission inside `submitRoots` is an await and no more:
  `OwnershipIndexer` has its steps.
* **Proposal sync.** A slot is a sync under way, `todo` what is left of its page.
* **Snapshot.** The search for the block is a step per call of `getBlockTimestamp`:
  `StartSearch` places the window around the estimate, `ExpandLeft` and `ExpandRight`
  widen it, `Bisect` halves it; `window` is `low`, `high` and `expansions`. A storage
  key is a number and a page the set of the next keys after the last one; a worker
  holds its partition, the rest of its page and the attempts of its call. The
  timestamps of a chain are chosen at the start.
* **Trees.** A hash is the pair of what was hashed. The indexer's `layers` are sparse,
  as the code's Maps are: a node that was not set reads as the zero value of its level.
  `insert` sets the nodes above one leaf, `bulkInsert` rebuilds the nodes above the
  first to the last new leaf; the client's layers are built at one go.
* **Client.** A call under way is an element of `registering`, `checks`, `polls`,
  `restoring` or `voting`. Leaving the page makes it no longer `here`: it then writes
  to the storage, but sets nothing of a page. A reload ends it. A call of `register` may
  throw at any await, `tx.wait()` also when the registration is pending or mined
  (`RegisterFails`); `failedWaits` records the secrets of those that had sent. `page` has the React
  state that decides what is shown or offered.

`PROJECT.json`, "map", gives the source lines of every definition.

## 3. What the runs check

The longest runs (`relayer`, `balances_indexer`, `private_voting`) take one to two minutes
on two workers, the others less than 40 seconds.

| run (module, cfg) | question | bounds |
|---|---|---|
| `registry` (MCVotingRegistry) | Do the three records of a snapshot agree, can a proposal's snapshot only advance, is "ready" for ever, whoever calls whatever? | 2 accounts, 2 ownership roots, 2 balances roots, 3 blocks, so that a root is shared by blocks and blocks arrive out of order |
| `private_voting` (MCPrivateVoting) | Is every counted ballot a registered account's, counted once, whoever made the proof; is a vote made with the client library in a tier of its balance; are proposals independent; do votes stay below the commitments; do the contracts implement `BallotBox`? | 2 accounts, 2 secrets either may commit to, 2 blocks with different balances of one account and the other in one snapshot only, 2 proposals, a tier configured as in the client's table, otherwise, or with an upper bound of more bits than the packing has for it; 2^128, 2^252 and the field are 4, 8 and 17 |
| `ownership_indexer` (MCOwnershipIndexer) | Is whatever becomes known the root of all registrations, though polls overlap, fail and the process restarts, and is every registration published in the end? | 2 registrations, 2 activities at a time, 2 failures, 2 stops |
| `missed_events` (MCOwnershipIndexer, violation) | Is the callback called for every event? No. | 3 registrations, 1 failure, 1 stop |
| `balances_indexer` (MCBalancesIndexer) | Is a root recorded for the block it is of, are its leaves stored under that block, does it reach the chain, though startup, its refresh and the jobs of two days share a tree and may fail or stop? | 3 snapshot blocks, so that startup uses one, its refresh fetches the second and a daily job the third; 2 daily jobs, which may overlap; 1 fault at any await |
| `restart` (MCBalancesIndexer, violation) | Does a restart after an error get the process a tree sooner or later? No. | the same |
| `proposal_sync` (MCProposalSync) | Is a proposal registered at its referendum's block, and in the end? | 3 referenda, a page of 2, so that one can leave it; 3 blocks, one below the minimum; 2 syncs at a time, 1 failure or stop |
| `snapshot` (MCBalancesSnapshot) | Is the block the first of the day, does the scan miss nobody, do indexer and client build one tree? | chains of ten blocks, evenly fast or slow or with a gap, and midnight anywhere, so that windows must widen; pages of 2, batches of 1, 2 workers, 2 attempts, 2 failing calls, 1 line not written; trees of depth 2, one set of accounts more than a tree holds |
| `relayer` (MCRelayer) | One request in hand, no nonce gap, success only for votes, 400 only for what never becomes one (`VoteRelay`), everybody answered? | 3 requests, 2 of them with one nullifier, a queue of 1, 1 restart; every request may fail once at every await |
| `send_overlap` (MCRelayer, violation) | Is a transaction sent only after the previous one was mined? No. | no restart needed |
| `voting_client` (MCVotingClient) | Does a secret sent outlive its page, and is what is shown of votes and of the tree true? | 2 accounts, 2 secrets, 3 page loads or changes of account, which is enough to register with one account and then the other and to leave a page and come back while calls are under way; the wallet may be on another network |
| `wrong_chain` (MCVotingClient, violation) | Does a stored secret open a commitment of the registry? Not when the wallet was on another network. | the same |

Why the bounds suffice to make the cases happen: two accounts share or change a
secret; three blocks submitted in any order give a snapshot that is replaced by a
later one; two registrations let a poll hold an event another has already appended,
and two stops let a submission be executed that was sent two processes ago; three
requests fill the hand and the queue and get one refused; two accounts let the one
secret key be overwritten, and three moves leave a page, change the account and come
back. One tier is enough for the two tables to differ, as there are three ways to configure
it; that tiers do not get mixed up is left to the proofs, which have any number. The
passing runs take every action, and each property has a mutated definition (next
to the definition it mutates, marked "Mutant") that TLC finds to violate it.
The theorems remove the bounds altogether for every property but liveness.

**Fairness.** `OwnershipIndexer`: the process is restarted, every await ends and
the chain executes what is pending (weak fairness); the poll timer and the daily
job fire again and again, which in the code needs no free slot, so strong fairness
for having one in the model. Nobody has to register and no block has to pass.
`EventuallyPublished` excepts exactly the case of an event missed (`Missed`), where
nothing is published before a restart. `Relayer`: every await ends (weak fairness
per request) and a pending transaction that is not dropped is executed. There is
none for failures, drops, restarts or clients. `EventuallyAnswered` excepts a wait
for a dropped transaction (`Blocked`): `wait()` has no timeout. `BalancesIndexer`:
Docker starts the process, every await ends, transactions are executed (weak
fairness). There is none for the days and their jobs: cron fires once a day, for another
block each time, and midnight may find the process stopped or still starting, so a
snapshot that fails is not taken again, and `SnapshotReachesTheChain` is about those
that were begun. Nobody has to run the backfill script. `ProposalSync`: the
timer fires again and again (strong, as it needs no slot in the code), awaits end.
`BalancesSnapshot`: a step that can be taken is, since calls end or throw.
`VotingClient`: the indexer publishes, the poll timer fires, the node answers a
poll; the user, the wallet and the relayer do as they like. That the indexer publishes is
what `EventuallyPublished` gives, hence not when it has missed an event. Deadlock is not
checked where the system stops: after a snapshot, when the days are used up, and when the
user's moves are.

**Findings.**
1. `CalledForEachEvent`: `listenForRegistrations` promises a call "for each new
   registration event" (event-listener.ts:84), but it polls the last 1000 blocks
   only (line 108) and skips for good what left them before a poll succeeded, for
   instance while the startup upload or an outage of the RPC lasted. Until the next
   restart the tree then has fewer leaves than there are registrations and every
   submission is refused; `PublishesAllRegistrations` shows no wrong root results.
2. `WaitsForPrevious`: the queue's comment says each transaction waits for the
   previous one to be mined (queue.ts:6-9), but when a send or wait fails the next
   one is sent while the failed one's transaction may be pending, with the same
   nonce. `NoNonceGap`, `SuccessMeansVoted` and `ImplementsVoteRelay` show what this
   cannot break.
3. `RestartHelps`: the error path of startup says "crash so Docker restarts the
   container" (index.ts:439). The cache file is written in place (cache.ts:102): a
   stop in the middle leaves half a file, which every later start chooses as the
   latest cached snapshot, fails to parse, and ends. `StoredUnderItsBlock` shows that
   no wrong balances result. Writing to another name and renaming it would do.
4. `StoredSecretIsRegistered`: `register()` does not ask which network the wallet is
   on and stores the secret after any receipt (useRegistration.ts:189-215); on a
   network without the contract the receipt has a good status and no event, and the
   page shows a stored secret "from a previous registration" (Register.tsx:443).
   `StoredOnRightNetwork` proves that this is the only way.

Observed while modelling, without a promise of the code it would contradict: after a
reload with a stored index, the polling the page starts on mount is stopped when the
wallet reconnects and not started again (useRegistration.ts:237); a poll answered late
for an earlier index shows a later registration as included (line 90); a check answered
late sets the state of another account (line 123); a line of the snapshot that cannot
be written is dropped by a catch meant for decoding (balance-fetcher.ts:221); a daily
job has its tree in memory replaced by that of an older refresh that ends later, before
its root is taken from it (index.ts:223), and the day then has no snapshot on chain
although nothing failed (`overtaken`); the circuit binds only the packed form of a tier's
bounds and limits neither to 128 bits (PrivateVote.circom:121), so that a proof made
without the client library does not establish that the balance is in the tier, as the
circuit's head comment has it (line 12), while the client's proofs do
(`ClientVotesAreEligible`); when `tx.wait()` throws with the registration pending or
mined, the secret is dropped and the account is registered without it
(useRegistration.ts:190, 222); tier 4 ends at 2^128 in the client (tiers.ts:27), at 2^64 in the deployment
(deploy.ts:29) and at 2^128 - 1 in the indexer (config.ts:92), so that no proof for
tier 4 is accepted; an unreachable relayer is shown as a vote with a made-up
transaction (useVoting.ts:154).

## 4. What is proved

Every theorem about a state machine is a consequence of an inductive invariant, and
holds for every value of the constants that satisfies the named assumptions. Each
safety property of a passing run is stated by one.

* **Registry** (first part of `PrivateVotingProofs`; assumption `RegistryAssumption`). The
  invariant joins the type, `OneRegistrationPerAccount`, `SnapshotRecordsAgree` and
  `CountWithinRegistrations`. `SnapshotsAdvance` and `ReadyStaysReady` are action
  properties: each needs the invariant in the step (a block that has no root is not
  listed; the count never passes the number of registrations).
* **Voting** (`PrivateVotingProofs`; also `CircuitAssumption`, `BoothAssumption`,
  `VotingAssumption`). `ImplementsRegistry` shows the composition takes registry
  steps only, so the registry's theorems carry over. `VotingInv` adds that
  known roots are prefixes of the registrations, that the tally is the weighted count and
  that every ballot is a registered account's (`OnlyRegisteredVote`): for every proof the
  circuit accepts, whatever bounds its prover chose, it ties the nullifier to the
  commitment in the prefix. `ClientVotesEligible` is an action property from that
  invariant: the library puts the balance between the bounds of its own tier, and equal
  packed values mean equal bounds (`PackingInjective`), which needs the hypotheses of the
  property that the contract's bounds are in order and below 2^128; and an eligible ballot
  stays one (`EligibleForever`). `VotesBounded` is a counting argument: ballots of a
  proposal inject into commitments. `CountsAsBallotBox` is the refinement of
  `BallotBox` (initial states and every step).
* **Ownership side** (`OwnershipIndexerProofs`). The invariant adds to the type that the
  indices a poll still holds are on chain, that events in memory are in order and
  on chain, and that a submission with as many leaves as there are registrations
  has all of them: increasing indices below n that are n in number are all of
  them. `PublishesCorrectly` follows. This discharges what `PrivateVoting` takes
  for granted in `PublishOwnershipRoot`. `IndexerImplementsRegistry` adds that the
  registry sees no step it does not allow (`TreeAssumption`: the list of
  registrations, no two of an account, has a root), as do
  `BalancesImplementRegistry` and `SyncImplementsRegistry` for the other writers.
* **Relayer** (`RelayerProofs`). The invariant adds what the queue holds
  (`QueueInv`), that a request is sent once (`ChainInv`) and where the nonce at
  hand stands against the wallet's (`NonceInv`): it is the wallet's next one with
  nothing pending whenever it is kept between two requests, which is what the reset
  on failure is needed for. `RelayerImplementsVoteRelay` is the refinement of
  `VoteRelay`: a step of the queue answers one request or none (`OneAnswered`), and
  may then take another, which the promise does not see; mining a vote after "500" or
  a lost connection is its `Count`. That "400" is final needs one more invariant,
  `RefusedInv`: no pending transaction is that of a request answered "400".
* **Balances side** (`BalancesIndexerProofs`; `BalancesAssumption`). The invariant
  says that every pair of block and root at hand, in memory, awaited, sent or stored,
  is one of `BalancesAt`; that a file is whole or `HalfFile`; that who awaits a
  submission has one, and that the histories name blocks. `PublishesTrueBalances` follows, which discharges what
  `PrivateVoting` takes for granted in `PublishBalancesRoot`.
* **Proposal sync** (`ProposalSyncProofs`; `SyncAssumption`, that ids are distinct).
  The invariant says that what a sync has left to do and what it has sent names a
  referendum with the block it has, which, once known, never changes.
* **Client** (`VotingClientProofs`; `ClientAssumption`). The invariant adds that an
  index at hand points at a registration (`IndexInv`), that a secret belongs to one
  call of `register`, which sends its commitment once (`CallsInv`), and that a vote
  answered with success is counted.
  `SecretsOutliveThePage` is an action property: a step that loses a secret whose
  commitment is pending or registered is a reload, `ClearSecret`, the storing of another
  secret, or the end of a call whose wait failed; leaving the page, coming back and
  switching accounts are none of these, nor is a late answer. What is lost by a failed
  wait or a reload is lost for good, as the code keeps no copy before the receipt.
  `StoredOnRightNetwork`
  has the hypothesis `~WalletElsewhere`, and is the complement of finding 4.

* **Merkle trees** (`MerkleTreeProofs`; `DepthAssumption`). A tree *represents* a list
  of leaves (`Represents`) when every node reads as the hash of its two children and
  the lowest level reads as the leaves, then zeros. `insert` and `bulkInsert` keep
  that, though each leaves most nodes alone, and so does the client's construction;
  two trees that represent one list agree in every node, hence in root and proofs
  (`TreesOfLeavesAgree`). `RootBindsLeaves` and `OnlyLeavesHaveProofs` are what lets
  `PrivateVoting` stand a list of leaves for its root and membership for a path. The
  theorems take no tree for granted: they start from `EmptyTree`. Induction over a
  recursive function is by its least counterexample (`UpTo`, from the well-foundedness
  of the naturals), since the library's induction theorems have operator parameters.
* **Snapshot** (`BalancesSnapshotProofs`; `ChainAssumption`, `StorageAssumption`,
  `DepthAssumption`). `SnapshotInv` has a part per phase. `SearchInv`: the ends of
  the window are where the margins added so far put them, no block before it is of
  today once its beginning is settled, and its last block is once its end is.
  `MappedInv`: the accounts mapped so far are all there are up to the last key.
  `WorkerInv`: every partition is done, in the hands of one worker or still to be
  taken. `FileInv`: the file has the accounts that count of the keys processed, which are
  all keys but those still pending with a worker or a partition not taken, and no
  others; a line that was not written is the one exception.
  `TreeInv`: the trees built are of the file's balances. The two assumptions are what
  the code relies on: midnight is within `Reach` = 300 * 2^10 blocks of the estimate,
  where a day has 14400, and the chain is old enough for the window to begin in it; a
  bound of a partition is a shorter string than a storage key, hence never one.

Only model-checked: the liveness properties `EventuallyPublished`, `EventuallyAnswered`,
`RootsGetTheirTree`, `SnapshotReachesTheChain`, `EventuallyRegistered`, `SnapshotEnds`
and `InclusionIsShown`, since fairness and ENABLED are beyond the prover.

## 5. Not modelled, and the plan

Not modelled: reorganisations of the chain; the cryptography; HTTP and formatting;
the display, with the pages that only read (proposals, results, statistics); gas;
`getResults` and the other aggregating views; the health endpoint; the indexer's demo
mode, which builds mock trees and submits nothing; tests and build scripts. The
Groth16 verifier is generated code and is modelled by its promise, and of the
deployment script only the tiers it configures. The relayer's pre-check reads of the
ownership root and of the balances root are one step. Requests are finite in number.
A connection to the node that is lost and never ready again (balance-fetcher.ts:363) is
not modelled: a call of a scan ends or throws. `Depth` is one constant, though the client
fixes 20 and the indexer reads `TREE_DEPTH`.
The pruned-node variant of a snapshot, which takes the finalized head, is the choice
of `head` in `BalancesIndexer`. Several tabs of one browser are not modelled: no code
handles them.

Done, in this order: `VotingRegistry`, `PrivateVoteCircuit`, `VotingBooth`,
`BallotBox`, `PrivateVoting`, `OwnershipIndexer`, `Relayer`, `BalancesIndexer`,
`ProposalSync`, `MerkleTree`, `BalancesSnapshot`, `VotingClient`, then `VoteRelay`; all
with proofs.

Next, in this order:

1. The abstraction `Relay` of `VotingClient` shown to allow no more and no less than
   `VoteRelay` does, so that what the page shows of a vote rests on `Relayer` alone.
2. That `VotingClient`'s registrations and `Relayer`'s votes are steps of
   `PrivateVoting`, as is shown for the two sides of the indexer and the registry.
3. Their composition on small instances: the liveness of a registration becoming a vote.
