--------------------------- MODULE BalancesIndexer ---------------------------
(***************************************************************************)
(* The balances side of the indexer (indexer/src/index.ts with cache.ts,   *)
(* submitter/root-submitter.ts and submitter/s3-uploader.ts): snapshots of *)
(* the balances at a block are fetched, cached on disk, built into a tree, *)
(* and the tree's root is submitted and its leaves uploaded.               *)
(*                                                                         *)
(* The activities share the tree in memory and may overlap: startup, the   *)
(* background refresh startup may leave behind, and a job every day, which *)
(* does not wait for the one of the day before.  An action runs from one   *)
(* await on the network to the next, as the event loop does.  Reads,       *)
(* transactions, receipts and uploads may fail; the process may            *)
(* stop at any await, or while it writes the cache, and Docker starts it   *)
(* again.  The balances at a block are named by the root of their tree:    *)
(* BalancesSnapshot and MerkleTree model how the one gives the other.      *)
(***************************************************************************)
EXTENDS VotingRegistry

CONSTANTS
    BalancesAt,         \* block => the balances of the chain state there
    HalfFile,           \* a cache file whose write was cut off
    TreeBuilderKey,     \* the account of TREE_BUILDER_KEY
    StaleAfter,         \* age in blocks from which a cached snapshot is refreshed
    DailyJobs,          \* names for the daily jobs, bounds those under way at once
    MaxFaults           \* bounds stops and failing reads, writes, transactions, uploads

ASSUME BalancesAssumption ==
    /\ BalancesAt \in [Block -> BalancesRoot]
    /\ HalfFile \notin BalancesRoot \cup {NoRoot}
    /\ TreeBuilderKey \in Account
    /\ StaleAfter \in Nat
    /\ DailyJobs \cap {"startup", "refresh"} = {}
    /\ MaxFaults \in Nat

VARIABLES
    head,               \* the block a snapshot is taken at when asked for now
    running,
    cacheFile,          \* balances-<block>.json
    current,            \* balancesTree, state.snapshotBlock, state.balancesTreeData
    activity,           \* what each activity awaits
    mempool,            \* submissions sent and not mined
    storage,            \* balances-trees/<block>.json in the bucket
    failedUploads,      \* blocks whose upload failed, which is logged
    failedSnapshots,    \* and whose fetch or submission did, likewise
    overtaken,          \* blocks whose tree another replaced before its root was taken
    faults              \* stops and failures so far

processVars  == <<running, current, activity>>
historyVars  == <<failedUploads, failedSnapshots, overtaken>>
balancesIndexerVars ==
    <<head, cacheFile, processVars, mempool, storage, historyVars, faults>>
vars == <<registryVars, balancesIndexerVars>>

Snapshot   == [block : Block, root : BalancesRoot]
NoSnapshot == [block |-> 0, root |-> NoRoot]

SnapshotAt(b) == [block |-> b, root |-> BalancesAt[b]]

(***************************************************************************)
(* An activity awaits the connection and the choice of the block, the      *)
(* fetch of the balances, the submission of the ownership root, the send   *)
(* of its transaction or its receipt, or the upload.  post is the snapshot *)
(* it was called with and submit the one whose root it submits.            *)
(***************************************************************************)
Activities == {"startup", "refresh"} \cup DailyJobs
Awaiting   == {"connect", "fetch", "ownership", "send", "wait", "upload"}
Activity   == [pc     : Awaiting \cup {"idle"},
               post   : Snapshot \cup {NoSnapshot},
               submit : Snapshot \cup {NoSnapshot}]

Idle == [pc |-> "idle", post |-> NoSnapshot, submit |-> NoSnapshot]

BalancesTypeOK ==
    /\ head \in Block
    /\ running \in BOOLEAN
    /\ cacheFile \in [Block -> BalancesRoot \cup {NoRoot, HalfFile}]
    /\ current \in Snapshot \cup {NoSnapshot}
    /\ activity \in [Activities -> Activity]
    /\ mempool \in SUBSET Snapshot
    /\ storage \in [Block -> BalancesRoot \cup {NoRoot}]
    /\ failedUploads \in SUBSET Block
    /\ failedSnapshots \in SUBSET Block
    /\ overtaken \in SUBSET Block
    /\ faults \in 0..MaxFaults
    /\ ~running => activity = [a \in Activities |-> Idle]

Init ==
    /\ RegistryInit
    /\ treeBuilder = TreeBuilderKey
    /\ head \in Block /\ \A b \in Block : head <= b
    /\ running = FALSE
    /\ cacheFile = [b \in Block |-> NoRoot]
    /\ current = NoSnapshot
    /\ activity = [a \in Activities |-> Idle]
    /\ mempool = {}
    /\ storage = [b \in Block |-> NoRoot]
    /\ failedUploads = {} /\ failedSnapshots = {} /\ overtaken = {}
    /\ faults = 0

-----------------------------------------------------------------------------
(* The chains *)

Later(b) == b > head /\ head' = b

NextSnapshotBlock ==
    /\ \E b \in Block : Later(b)
    /\ UNCHANGED <<registryVars, cacheFile, processVars, mempool, storage, historyVars, faults>>

Mine(tx) ==
    /\ tx \in mempool
    /\ mempool' = mempool \ {tx}
    /\ \/ submitBalancesRoot(TreeBuilderKey, tx.root, tx.block)
       \/ /\ blockToBalancesRoot[tx.block] # NoRoot
          /\ UNCHANGED registryVars
    /\ UNCHANGED <<head, cacheFile, processVars, storage, historyVars, faults>>

(* script/backfill-roots.ts submits the root of a tree in the bucket.      *)
Backfill ==
    /\ \E b \in Block :
          /\ storage[b] # NoRoot
          /\ blockToBalancesRoot[b] = NoRoot
          /\ mempool' = mempool \cup {[block |-> b, root |-> storage[b]]}
    /\ UNCHANGED <<registryVars, head, cacheFile, processVars, storage, historyVars, faults>>

-----------------------------------------------------------------------------
(* The process *)

(* hasCachedBalances, listCachedBlocks: a file is there, whole or not.     *)
IsCached(b)      == cacheFile[b] # NoRoot
IsLatestCached(b) == IsCached(b) /\ \A c \in Block : IsCached(c) => c <= b

Go(a, pc, post, submit) ==
    activity' = [activity EXCEPT ![a] = [pc |-> pc, post |-> post, submit |-> submit]]

(* Mutant: what the activities awaited outlives the process.               *)
StopKeepingActivity ==
    /\ running' = FALSE
    /\ current' = NoSnapshot
    /\ UNCHANGED activity

(* Memory is lost; what was sent, stored or cached stays.                  *)
Stop ==
    /\ running' = FALSE
    /\ current' = NoSnapshot
    /\ activity' = [a \in Activities |-> Idle]

Start ==
    /\ ~running
    /\ running' = TRUE
    /\ Go("startup", "connect", NoSnapshot, NoSnapshot)
    /\ UNCHANGED <<registryVars, head, cacheFile, current, mempool, storage, historyVars, faults>>

(* An activity's error: startup's ends the process, others are logged.     *)
Throw(a) ==
    IF a = "startup"
    THEN Stop
    ELSE Go(a, "idle", NoSnapshot, NoSnapshot) /\ UNCHANGED <<running, current>>

(* rebuildBalancesTree with postBalancesTreeActions up to its first await. *)
RebuildAndPost(a, s) ==
    /\ current' = s
    /\ Go(a, "ownership", s, NoSnapshot)
    /\ UNCHANGED running

(* Mutant: a snapshot that was cached is taken to be on chain already.     *)
LoadWithoutPosting(a, b) ==
    IF cacheFile[b] = HalfFile
    THEN Throw(a)
    ELSE /\ current' = [block |-> b, root |-> cacheFile[b]]
         /\ Go(a, "idle", NoSnapshot, NoSnapshot)
         /\ UNCHANGED running

(* loadCachedBalances: a file cut off does not parse.                      *)
LoadAndPost(a, b) ==
    IF cacheFile[b] = HalfFile
    THEN Throw(a)
    ELSE RebuildAndPost(a, [block |-> b, root |-> cacheFile[b]])

Fetch(a, b) ==
    /\ Go(a, "fetch", SnapshotAt(b), NoSnapshot)
    /\ UNCHANGED <<running, current>>

(* The latest cached snapshot is used, and a fetch left running.           *)
UseAndRefresh(latest) ==
    LET s == [block |-> latest, root |-> cacheFile[latest]]
    IN  /\ current' = s
        /\ activity' = [activity EXCEPT
               !["startup"] = [pc |-> "ownership", post |-> s, submit |-> NoSnapshot],
               !["refresh"] = [pc |-> "fetch", post |-> SnapshotAt(head), submit |-> NoSnapshot]]
        /\ UNCHANGED running

(***************************************************************************)
(* The block is known.  A cached snapshot of it is used; startup also      *)
(* makes do with the latest cached one, and leaves a refresh behind when   *)
(* that is old.                                                            *)
(***************************************************************************)
Choose(a) ==
    /\ \/ /\ IsCached(head)
          /\ LoadAndPost(a, head)
       \/ /\ ~IsCached(head)
          /\ a \in DailyJobs \/ \A b \in Block : ~IsCached(b)
          /\ Fetch(a, head)
       \/ /\ ~IsCached(head)
          /\ a = "startup"
          /\ \E latest \in Block :
                /\ IsLatestCached(latest)
                /\ IF head - latest > StaleAfter /\ cacheFile[latest] # HalfFile
                   THEN UseAndRefresh(latest)
                   ELSE LoadAndPost(a, latest)
    /\ UNCHANGED <<registryVars, head, cacheFile, mempool, storage, historyVars, faults>>

Connected(a) == activity[a].pc = "connect" /\ Choose(a)

(***************************************************************************)
(* Midnight: cron starts the job, when startup has got as far as to        *)
(* schedule it.  The block a snapshot is taken at now is another one than  *)
(* the day before, so a job that failed is not run again.                  *)
(***************************************************************************)
DailyJob ==
    /\ running
    /\ activity["startup"].pc \notin {"connect", "fetch"}
    /\ \E b \in Block : Later(b)
    /\ \E job \in DailyJobs : activity[job] = Idle /\ Go(job, "connect", NoSnapshot, NoSnapshot)
    /\ UNCHANGED <<registryVars, cacheFile, running, current, mempool, storage, historyVars, faults>>

(* Mutant: the snapshot is saved under the block that is current.          *)
SaveUnder(a, content) ==
    cacheFile' = [cacheFile EXCEPT ![IF current = NoSnapshot THEN activity[a].post.block
                                                             ELSE current.block] = content]

(* saveCachedBalances writes the file in place.                            *)
Save(a, content) ==
    cacheFile' = [cacheFile EXCEPT ![activity[a].post.block] = content]

Fetched(a) ==
    /\ activity[a].pc = "fetch"
    /\ Save(a, activity[a].post.root)
    /\ RebuildAndPost(a, activity[a].post)
    /\ UNCHANGED <<registryVars, head, mempool, storage, historyVars, faults>>

(* The connection, the fetch or the write of the file fails.               *)
FetchFails(a) ==
    /\ activity[a].pc \in {"connect", "fetch"}
    /\ faults < MaxFaults
    /\ faults' = faults + 1
    /\ Throw(a)
    /\ \/ UNCHANGED cacheFile
       \/ activity[a].pc = "fetch" /\ Save(a, HalfFile)
    /\ failedSnapshots' = IF activity[a].pc = "fetch"
                          THEN failedSnapshots \cup {activity[a].post.block}
                          ELSE failedSnapshots
    /\ UNCHANGED <<registryVars, head, mempool, storage, failedUploads, overtaken>>

Crash ==
    /\ running
    /\ faults < MaxFaults
    /\ faults' = faults + 1
    /\ Stop
    /\ \/ UNCHANGED cacheFile
       \/ \E a \in Activities : activity[a].pc = "fetch" /\ Save(a, HalfFile)
    /\ UNCHANGED <<registryVars, head, mempool, storage, historyVars>>

-----------------------------------------------------------------------------
(* submitRoots and the upload, which every activity ends with *)

(* Mutant: the root in memory is submitted for the block the call names.   *)
TakeRootForCall(a) ==
    /\ activity[a].pc = "ownership"
    /\ Go(a, "send", activity[a].post, [activity[a].post EXCEPT !.root = current.root])
    /\ UNCHANGED <<registryVars, head, cacheFile, running, current, mempool, storage,
                   historyVars, faults>>

(* The ownership submission is over; the tree in memory, which may be of   *)
(* another activity by now, and its block are read at one moment.          *)
TakeRoot(a) ==
    /\ activity[a].pc = "ownership"
    /\ Go(a, "send", activity[a].post, current)
    /\ overtaken' = overtaken \cup ({activity[a].post.block} \ {current.block})
    /\ UNCHANGED <<registryVars, head, cacheFile, running, current, mempool, storage,
                   failedUploads, failedSnapshots, faults>>

Submitted(a) == activity' = [activity EXCEPT ![a].pc = "upload"]

(* Mutant: nothing is uploaded for a block that has a root.                *)
SendOrLeave(a) ==
    /\ activity[a].pc = "send"
    /\ \/ /\ blockToBalancesRoot[activity[a].submit.block] # NoRoot
          /\ Go(a, "idle", NoSnapshot, NoSnapshot)
          /\ UNCHANGED mempool
       \/ /\ blockToBalancesRoot[activity[a].submit.block] = NoRoot
          /\ mempool' = mempool \cup {activity[a].submit}
          /\ activity' = [activity EXCEPT ![a].pc = "wait"]
    /\ UNCHANGED <<registryVars, head, cacheFile, running, current, storage,
                   historyVars, faults>>

(***************************************************************************)
(* The block's root is read and, when there is none, the transaction sent. *)
(* A root recorded between the two makes the send throw, which ends in the *)
(* same way as having read it.                                             *)
(***************************************************************************)
Send(a) ==
    /\ activity[a].pc = "send"
    /\ \/ /\ blockToBalancesRoot[activity[a].submit.block] # NoRoot
          /\ Submitted(a)
          /\ UNCHANGED mempool
       \/ /\ blockToBalancesRoot[activity[a].submit.block] = NoRoot
          /\ mempool' = mempool \cup {activity[a].submit}
          /\ activity' = [activity EXCEPT ![a].pc = "wait"]
    /\ UNCHANGED <<registryVars, head, cacheFile, running, current, storage,
                   historyVars, faults>>

Receipt(a) ==
    /\ activity[a].pc = "wait"
    /\ activity[a].submit \notin mempool
    /\ Submitted(a)
    /\ UNCHANGED <<registryVars, head, cacheFile, running, current, mempool, storage,
                   historyVars, faults>>

(* The read, the send or the receipt fails, the last while the transaction *)
(* may be mined yet: caught, and the upload goes ahead.                    *)
SubmissionFails(a) ==
    /\ activity[a].pc \in {"send", "wait"}
    /\ faults < MaxFaults
    /\ faults' = faults + 1
    /\ Submitted(a)
    /\ failedSnapshots' = failedSnapshots \cup {activity[a].submit.block}
    /\ UNCHANGED <<registryVars, head, cacheFile, running, current, mempool, storage,
                   failedUploads, overtaken>>

(* Mutant: the tree that is current is uploaded under the call's block.    *)
UploadCurrent(a) ==
    /\ activity[a].pc = "upload"
    /\ Go(a, "idle", NoSnapshot, NoSnapshot)
    /\ storage' = [storage EXCEPT ![activity[a].post.block] = current.root]
    /\ UNCHANGED <<registryVars, head, cacheFile, running, current, mempool,
                   historyVars, faults>>

Upload(a) ==
    /\ activity[a].pc = "upload"
    /\ Go(a, "idle", NoSnapshot, NoSnapshot)
    /\ storage' = [storage EXCEPT ![activity[a].post.block] = activity[a].post.root]
    /\ UNCHANGED <<registryVars, head, cacheFile, running, current, mempool,
                   historyVars, faults>>

UploadFails(a) ==
    /\ activity[a].pc = "upload"
    /\ faults < MaxFaults
    /\ faults' = faults + 1
    /\ Go(a, "idle", NoSnapshot, NoSnapshot)
    /\ failedUploads' = failedUploads \cup {activity[a].post.block}
    /\ UNCHANGED <<registryVars, head, cacheFile, running, current, mempool, storage,
                   failedSnapshots, overtaken>>

Step(a) ==
    Connected(a) \/ Fetched(a) \/ TakeRoot(a) \/ Send(a) \/ Receipt(a) \/ Upload(a)

Next ==
    \/ NextSnapshotBlock
    \/ \E tx \in mempool : Mine(tx)
    \/ Backfill
    \/ Start
    \/ DailyJob
    \/ Crash
    \/ \E a \in Activities : Step(a) \/ FetchFails(a) \/ SubmissionFails(a) \/ UploadFails(a)

(***************************************************************************)
(* Docker starts the process, every await ends and the chain executes      *)
(* transactions.  Nothing is assumed of the days: midnight may find the    *)
(* process stopped or still starting.  Nor has anybody to run the backfill *)
(* script.                                                                 *)
(***************************************************************************)
Fairness ==
    /\ WF_vars(Start)
    /\ WF_vars(\E tx \in mempool : Mine(tx))
    /\ \A a \in Activities : WF_vars(Step(a))

Spec == Init /\ [][Next]_vars /\ Fairness

-----------------------------------------------------------------------------
(* Properties *)

(***************************************************************************)
(* Whichever activities overlap, and however late a transaction is         *)
(* executed, a root is only ever recorded for the block whose balances it  *)
(* is the root of.  PrivateVoting takes this for granted in                *)
(* PublishBalancesRoot (submitRoots reads the tree and its block after an  *)
(* await, index.ts:219-224).                                               *)
(***************************************************************************)
PublishesBalancesOfTheBlock ==
    [][\/ UNCHANGED balancesVars
       \/ \E b \in Block : submitBalancesRoot(treeBuilder, BalancesAt[b], b)]_vars

(***************************************************************************)
(* What is stored under a block's name, in the bucket or in the cache, is  *)
(* that block's: a client that downloads balances-trees/<block>.json can   *)
(* prove membership under the block's root.                                *)
(***************************************************************************)
StoredUnderItsBlock ==
    \A b \in Block :
        /\ storage[b] \in {NoRoot, BalancesAt[b]}
        /\ cacheFile[b] \in {NoRoot, HalfFile, BalancesAt[b]}

(* Every later start picks this file, does not parse it, and ends.         *)
CacheIsBroken ==
    \E b \in Block :
        /\ cacheFile[b] = HalfFile
        /\ b = head \/ IsLatestCached(b)

(***************************************************************************)
(* A root on chain is of no use to a voter without its leaves.  They are   *)
(* in the bucket in the end, a stop between the submission and the upload  *)
(* included, unless the upload failed, a later snapshot was taken before   *)
(* the restart or the cache is broken: none of these is ever made good.    *)
(***************************************************************************)
RootsGetTheirTree ==
    \A b \in Block :
        blockToBalancesRoot[b] # NoRoot ~>
            \/ storage[b] # NoRoot
            \/ b \in failedUploads
            \/ \E c \in Block : c > b /\ IsCached(c)
            \/ CacheIsBroken

OnChain(b) == blockToBalancesRoot[b] # NoRoot

(* An activity has the balances at b to fetch, or has the tree built.      *)
Working(as, b) == \E a \in as : activity[a].pc \in {"fetch", "ownership"} /\ activity[a].post.block = b

(***************************************************************************)
(* A snapshot that is taken reaches the chain, whatever overlaps.  It may  *)
(* fail, which is logged, or be overtaken: the tree in memory is another   *)
(* activity's when the root is taken from it (index.ts:219-223).  What a   *)
(* stop interrupts is made good, as the next start takes the latest cached *)
(* snapshot up again, if its file is whole.                                *)
(***************************************************************************)
SnapshotReachesTheChain ==
    \A b \in Block :
        /\ Working(Activities, b) ~>
               OnChain(b) \/ b \in failedSnapshots \/ b \in overtaken \/ ~running
        /\ ~running /\ IsLatestCached(b) /\ cacheFile[b] # HalfFile ~> Working(Activities, b)

(***************************************************************************)
(* What the comment on the error path of startup says: the process ends    *)
(* and Docker starts it again, so that it has a tree sooner or later.      *)
(***************************************************************************)
RestartHelps == []<>(current # NoSnapshot)

=============================================================================
