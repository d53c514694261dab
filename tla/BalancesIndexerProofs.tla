------------------------ MODULE BalancesIndexerProofs ------------------------
(***************************************************************************)
(* Proofs about the balances side of the indexer.  Every snapshot the      *)
(* process holds, whether in memory, in the variables of an activity, in   *)
(* the mempool, in the cache or in the bucket, pairs a block with its own  *)
(* balances; no step takes the two apart.                                  *)
(***************************************************************************)
EXTENDS BalancesIndexer, TLAPS

-----------------------------------------------------------------------------
(* The inductive invariant *)

TrueSnapshot == {SnapshotAt(b) : b \in Block}

(***************************************************************************)
(* What an activity may rely on: the snapshot it was called with exists    *)
(* from the fetch on, the tree in memory exists when it takes its root,    *)
(* and so does the root it submits.                                        *)
(***************************************************************************)
ActivityOK(a) ==
    /\ activity[a].post \in TrueSnapshot \cup {NoSnapshot}
    /\ activity[a].submit \in TrueSnapshot \cup {NoSnapshot}
    /\ activity[a].pc \notin {"idle", "connect"} => activity[a].post \in TrueSnapshot
    /\ activity[a].pc = "ownership" => current \in TrueSnapshot
    /\ activity[a].pc \in {"send", "wait"} => activity[a].submit \in TrueSnapshot

ProcessInv ==
    /\ running \in BOOLEAN
    /\ current \in TrueSnapshot \cup {NoSnapshot}
    /\ activity \in [Activities -> Activity]
    /\ ~running => activity = [a \in Activities |-> Idle]
    /\ \A a \in Activities : ActivityOK(a)

HistoryOK ==
    /\ failedUploads \in SUBSET Block
    /\ failedSnapshots \in SUBSET Block
    /\ overtaken \in SUBSET Block

WorldInv ==
    /\ head \in Block
    /\ cacheFile \in [Block -> BalancesRoot \cup {NoRoot, HalfFile}]
    /\ mempool \in SUBSET TrueSnapshot
    /\ storage \in [Block -> BalancesRoot \cup {NoRoot}]
    /\ HistoryOK
    /\ faults \in 0..MaxFaults
    /\ treeBuilder = TreeBuilderKey
    /\ StoredUnderItsBlock

BalancesInv == ProcessInv /\ WorldInv

LEMMA TrueSnapshotType ==
    /\ TrueSnapshot \subseteq Snapshot
    /\ \A s \in TrueSnapshot : s.block \in Block /\ s.root = BalancesAt[s.block]
    /\ \A b \in Block : SnapshotAt(b) \in TrueSnapshot
BY BalancesAssumption DEF TrueSnapshot, Snapshot, SnapshotAt

LEMMA IdleOK ==
    ASSUME activity' = [a \in Activities |-> Idle]
    PROVE  /\ activity' \in [Activities -> Activity]
           /\ \A a \in Activities : ActivityOK(a)'
<1>1. Idle \in Activity /\ Idle.pc = "idle" /\ Idle.post = NoSnapshot /\ Idle.submit = NoSnapshot
  BY DEF Idle, Activity
<1>2. \A a \in Activities : activity'[a] = Idle
  OBVIOUS
<1>3. QED
  BY <1>1, <1>2 DEF ActivityOK

LEMMA BalancesInvInit == Init => BalancesInv
<1> SUFFICES ASSUME Init
             PROVE  BalancesInv
  OBVIOUS
<1> USE DEF Init, RegistryInit
<1>1. Idle \in Activity /\ Idle.pc = "idle" /\ Idle.post = NoSnapshot /\ Idle.submit = NoSnapshot
  BY DEF Idle, Activity
<1>2. \A a \in Activities : activity[a] = Idle
  OBVIOUS
<1>3. \A a \in Activities : ActivityOK(a)
  BY <1>1, <1>2 DEF ActivityOK
<1>4. ProcessInv
  BY <1>1, <1>3 DEF ProcessInv
<1>5. WorldInv
  <2>1. StoredUnderItsBlock
    BY DEF StoredUnderItsBlock
  <2>2. faults \in 0..MaxFaults
    BY BalancesAssumption
  <2>3. QED
    BY <2>1, <2>2 DEF WorldInv, HistoryOK
<1>6. QED
  BY <1>4, <1>5 DEF BalancesInv

-----------------------------------------------------------------------------
(* What the parts of a step do to the process *)

LEMMA StopKeeps ==
    ASSUME Stop
    PROVE  ProcessInv'
<1>1. running' = FALSE /\ current' = NoSnapshot /\ activity' = [a \in Activities |-> Idle]
  BY DEF Stop
<1>2. QED
  BY <1>1, IdleOK DEF ProcessInv

(* One activity goes on; the others see a tree in memory as before.        *)
LEMMA GoKeeps ==
    ASSUME ProcessInv, running' = TRUE, NEW a \in Activities, NEW next \in Activity,
           activity' = [activity EXCEPT ![a] = next],
           current' \in TrueSnapshot \cup {NoSnapshot},
           current' \in TrueSnapshot \/ current' = current,
           next.post \in TrueSnapshot \cup {NoSnapshot},
           next.submit \in TrueSnapshot \cup {NoSnapshot},
           next.pc \notin {"idle", "connect"} => next.post \in TrueSnapshot,
           next.pc = "ownership" => current' \in TrueSnapshot,
           next.pc \in {"send", "wait"} => next.submit \in TrueSnapshot
    PROVE  ProcessInv'
<1>1. activity' \in [Activities -> Activity]
  BY DEF ProcessInv
<1>2. \A c \in Activities : activity'[c] = IF c = a THEN next ELSE activity[c]
  BY DEF ProcessInv
<1>3. ASSUME NEW c \in Activities
      PROVE  ActivityOK(c)'
  <2>1. CASE c = a
    BY <1>2, <2>1 DEF ActivityOK
  <2>2. CASE c # a
    <3>1. ActivityOK(c) /\ activity'[c] = activity[c]
      BY <1>2, <2>2 DEF ProcessInv
    <3>2. activity[c].pc = "ownership" => current' \in TrueSnapshot
      BY <3>1 DEF ActivityOK
    <3>3. QED
      BY <3>1, <3>2 DEF ActivityOK
  <2>3. QED
    BY <2>1, <2>2
<1>4. QED
  BY <1>1, <1>3 DEF ProcessInv

LEMMA AwakeRuns ==
    ASSUME ProcessInv, NEW a \in Activities, activity[a] # Idle
    PROVE  running = TRUE
BY DEF ProcessInv

LEMMA IdleType == Idle \in Activity /\ Idle.pc = "idle" /\ Idle.post = NoSnapshot
                  /\ Idle.submit = NoSnapshot
BY DEF Idle, Activity

LEMMA GoesIdle ==
    ASSUME ProcessInv, running = TRUE, NEW a \in Activities,
           Go(a, "idle", NoSnapshot, NoSnapshot), UNCHANGED <<running, current>>
    PROVE  ProcessInv'
<1>1. activity' = [activity EXCEPT ![a] = Idle]
  BY DEF Go, Idle
<1>2. current \in TrueSnapshot \cup {NoSnapshot}
  BY DEF ProcessInv
<1> HIDE DEF Idle
<1>3. QED
  BY <1>1, <1>2, IdleType, GoKeeps

LEMMA ThrowKeeps ==
    ASSUME ProcessInv, running = TRUE, NEW a \in Activities, Throw(a)
    PROVE  ProcessInv'
<1>1. CASE a = "startup"
  BY <1>1, StopKeeps DEF Throw
<1>2. CASE a # "startup"
  BY <1>2, GoesIdle DEF Throw
<1>3. QED
  BY <1>1, <1>2

LEMMA RebuildKeeps ==
    ASSUME ProcessInv, running = TRUE, NEW a \in Activities, NEW s \in TrueSnapshot,
           RebuildAndPost(a, s)
    PROVE  ProcessInv'
<1> DEFINE next == [pc |-> "ownership", post |-> s, submit |-> NoSnapshot]
<1>1. activity' = [activity EXCEPT ![a] = next] /\ current' = s /\ running' = TRUE
  BY DEF RebuildAndPost, Go
<1>2. next \in Activity
  BY TrueSnapshotType DEF Activity, Awaiting
<1>3. next.pc = "ownership" /\ next.post = s /\ next.submit = NoSnapshot
  OBVIOUS
<1> HIDE DEF next
<1>4. QED
  BY <1>1, <1>2, <1>3, GoKeeps

(* A file that is there and whole is a true snapshot.                      *)
LEMMA CachedIsTrue ==
    ASSUME WorldInv, NEW b \in Block, IsCached(b), cacheFile[b] # HalfFile
    PROVE  [block |-> b, root |-> cacheFile[b]] \in TrueSnapshot
<1>1. cacheFile[b] = BalancesAt[b]
  BY DEF WorldInv, StoredUnderItsBlock, IsCached
<1>2. QED
  BY <1>1 DEF TrueSnapshot, SnapshotAt

LEMMA LoadKeeps ==
    ASSUME ProcessInv, WorldInv, running = TRUE, NEW a \in Activities, NEW b \in Block,
           IsCached(b), LoadAndPost(a, b)
    PROVE  ProcessInv'
<1>1. CASE cacheFile[b] = HalfFile
  BY <1>1, ThrowKeeps DEF LoadAndPost
<1>2. CASE cacheFile[b] # HalfFile
  BY <1>2, CachedIsTrue, RebuildKeeps DEF LoadAndPost
<1>3. QED
  BY <1>1, <1>2

LEMMA FetchKeeps ==
    ASSUME ProcessInv, running = TRUE, NEW a \in Activities, NEW b \in Block, Fetch(a, b)
    PROVE  ProcessInv'
<1> DEFINE next == [pc |-> "fetch", post |-> SnapshotAt(b), submit |-> NoSnapshot]
<1>1. activity' = [activity EXCEPT ![a] = next] /\ current' = current /\ running' = TRUE
  BY DEF Fetch, Go
<1>2. next \in Activity
  BY TrueSnapshotType DEF Activity, Awaiting
<1>3. next.pc = "fetch" /\ next.post \in TrueSnapshot /\ next.submit = NoSnapshot
  BY TrueSnapshotType
<1>4. current \in TrueSnapshot \cup {NoSnapshot}
  BY DEF ProcessInv
<1> HIDE DEF next
<1>5. QED
  BY <1>1, <1>2, <1>3, <1>4, GoKeeps

LEMMA UseAndRefreshKeeps ==
    ASSUME ProcessInv, WorldInv, running = TRUE, NEW latest \in Block,
           IsCached(latest), cacheFile[latest] # HalfFile, UseAndRefresh(latest)
    PROVE  ProcessInv'
<1> DEFINE s       == [block |-> latest, root |-> cacheFile[latest]]
           startup == [pc |-> "ownership", post |-> s, submit |-> NoSnapshot]
           refresh == [pc |-> "fetch", post |-> SnapshotAt(head), submit |-> NoSnapshot]
<1>1. s \in TrueSnapshot /\ SnapshotAt(head) \in TrueSnapshot
  BY CachedIsTrue, TrueSnapshotType DEF WorldInv
<1>2. /\ current' = s /\ running' = TRUE
      /\ activity' = [activity EXCEPT !["startup"] = startup, !["refresh"] = refresh]
  BY DEF UseAndRefresh
<1>3. startup \in Activity /\ refresh \in Activity
  BY <1>1, TrueSnapshotType DEF Activity, Awaiting
<1>4. activity' \in [Activities -> Activity]
  BY <1>2, <1>3 DEF ProcessInv
<1>5. ASSUME NEW c \in Activities
      PROVE  ActivityOK(c)'
  <2>1. CASE c = "startup"
    <3>1. activity'[c] = startup
      BY <1>2, <2>1 DEF ProcessInv, Activities
    <3>2. QED
      BY <1>1, <1>2, <3>1 DEF ActivityOK
  <2>2. CASE c = "refresh"
    <3>1. activity'[c] = refresh
      BY <1>2, <2>2 DEF ProcessInv, Activities
    <3>2. QED
      BY <1>1, <1>2, <3>1 DEF ActivityOK
  <2>3. CASE c \notin {"startup", "refresh"}
    <3>1. activity'[c] = activity[c] /\ ActivityOK(c)
      BY <1>2, <2>3 DEF ProcessInv
    <3>2. QED
      BY <1>1, <1>2, <3>1 DEF ActivityOK
  <2>4. QED
    BY <2>1, <2>2, <2>3
<1>6. QED
  BY <1>1, <1>2, <1>4, <1>5 DEF ProcessInv

LEMMA ChooseKeeps ==
    ASSUME BalancesInv, running = TRUE, NEW a \in Activities, Choose(a)
    PROVE  BalancesInv'
<1>1. ProcessInv /\ WorldInv
  BY DEF BalancesInv
<1>2. ProcessInv'
  <2>1. head \in Block
    BY <1>1 DEF WorldInv
  <2>2. CASE IsCached(head) /\ LoadAndPost(a, head)
    BY <1>1, <2>1, <2>2, LoadKeeps
  <2>3. CASE Fetch(a, head)
    BY <1>1, <2>1, <2>3, FetchKeeps
  <2>4. ASSUME NEW latest \in Block, IsLatestCached(latest),
               IF head - latest > StaleAfter /\ cacheFile[latest] # HalfFile
               THEN UseAndRefresh(latest)
               ELSE LoadAndPost(a, latest)
        PROVE  ProcessInv'
    <3>1. IsCached(latest)
      BY <2>4 DEF IsLatestCached
    <3>2. CASE UseAndRefresh(latest) /\ cacheFile[latest] # HalfFile
      BY <1>1, <3>1, <3>2, UseAndRefreshKeeps
    <3>3. CASE LoadAndPost(a, latest)
      BY <1>1, <3>1, <3>3, LoadKeeps
    <3>4. QED
      BY <2>4, <3>2, <3>3
  <2>5. QED
    BY <2>2, <2>3, <2>4 DEF Choose
<1>3. WorldInv'
  BY <1>1 DEF WorldInv, HistoryOK, historyVars, StoredUnderItsBlock, Choose, registryVars
<1>4. QED
  BY <1>2, <1>3 DEF BalancesInv

-----------------------------------------------------------------------------
(* The steps *)

LEMMA ChainKeeps ==
    ASSUME BalancesInv, NextSnapshotBlock \/ Backfill \/ \E tx \in mempool : Mine(tx)
    PROVE  BalancesInv'
<1>1. UNCHANGED processVars /\ UNCHANGED <<cacheFile, storage, historyVars, faults>>
  BY DEF NextSnapshotBlock, Backfill, Mine
<1>2. ProcessInv'
  BY <1>1 DEF BalancesInv, ProcessInv, ActivityOK, processVars
<1>3. treeBuilder' = treeBuilder
  BY DEF NextSnapshotBlock, Backfill, Mine, submitBalancesRoot, registryVars
<1>4. StoredUnderItsBlock'
  BY <1>1 DEF BalancesInv, WorldInv, StoredUnderItsBlock
<1>5. head' \in Block
  BY DEF BalancesInv, WorldInv, NextSnapshotBlock, Later, Backfill, Mine
<1>6. mempool' \subseteq TrueSnapshot
  <2>1. CASE Backfill
    <3>1. PICK b \in Block : /\ storage[b] # NoRoot
                             /\ mempool' = mempool \cup {[block |-> b, root |-> storage[b]]}
      BY <2>1 DEF Backfill
    <3>2. storage[b] = BalancesAt[b]
      BY <3>1 DEF BalancesInv, WorldInv, StoredUnderItsBlock
    <3>3. QED
      BY <3>1, <3>2 DEF BalancesInv, WorldInv, TrueSnapshot, SnapshotAt
  <2>2. CASE NextSnapshotBlock
    BY <2>2 DEF BalancesInv, WorldInv, NextSnapshotBlock
  <2>3. CASE \E tx \in mempool : Mine(tx)
    BY <2>3 DEF BalancesInv, WorldInv, Mine
  <2>4. QED
    BY <2>1, <2>2, <2>3
<1>7. QED
  BY <1>1, <1>2, <1>3, <1>4, <1>5, <1>6 DEF BalancesInv, WorldInv, HistoryOK, historyVars

(* Startup and the daily jobs begin alike.                                 *)
LEMMA BeginKeeps ==
    ASSUME BalancesInv, Start \/ DailyJob
    PROVE  BalancesInv'
<1> DEFINE next == [pc |-> "connect", post |-> NoSnapshot, submit |-> NoSnapshot]
<1>1. next \in Activity
  BY DEF Activity, Awaiting
<1>2. running' = TRUE /\ current' = current
  BY DEF Start, DailyJob, BalancesInv, ProcessInv
<1>3. PICK a \in Activities : activity' = [activity EXCEPT ![a] = next]
  BY DEF Start, DailyJob, Go, Activities
<1>4. next.pc = "connect" /\ next.post = NoSnapshot /\ next.submit = NoSnapshot
  OBVIOUS
<1>5. ProcessInv /\ current \in TrueSnapshot \cup {NoSnapshot}
  BY DEF BalancesInv, ProcessInv
<1> HIDE DEF next
<1>6. ProcessInv'
  BY <1>1, <1>2, <1>3, <1>4, <1>5, GoKeeps
<1>7. head' \in Block
  BY DEF BalancesInv, WorldInv, Start, DailyJob, Later
<1>8. WorldInv'
  BY <1>7 DEF BalancesInv, WorldInv, HistoryOK, historyVars, StoredUnderItsBlock, Start, DailyJob,
              registryVars
<1>9. QED
  BY <1>6, <1>8 DEF BalancesInv

(* A file written by an activity that fetches is its block's, or half.     *)
LEMMA SaveKeeps ==
    ASSUME BalancesInv, NEW a \in Activities, activity[a].pc = "fetch",
           NEW content, content \in {activity[a].post.root, HalfFile}, Save(a, content),
           UNCHANGED storage
    PROVE  /\ cacheFile' \in [Block -> BalancesRoot \cup {NoRoot, HalfFile}]
           /\ StoredUnderItsBlock'
<1> DEFINE s == activity[a].post
<1>1. s \in TrueSnapshot
  BY DEF BalancesInv, ProcessInv, ActivityOK
<1>2. s.block \in Block /\ s.root = BalancesAt[s.block] /\ BalancesAt[s.block] \in BalancesRoot
  BY <1>1, TrueSnapshotType, BalancesAssumption
<1>3. cacheFile' = [cacheFile EXCEPT ![s.block] = content]
  BY DEF Save
<1>4. QED
  BY <1>2, <1>3 DEF BalancesInv, WorldInv, StoredUnderItsBlock

LEMMA FetchedKeeps ==
    ASSUME BalancesInv, NEW a \in Activities, Fetched(a)
    PROVE  BalancesInv'
<1>1. activity[a].pc = "fetch" /\ UNCHANGED <<registryVars, head, mempool, storage, historyVars, faults>>
  BY DEF Fetched
<1>2. activity[a].post \in TrueSnapshot /\ running = TRUE
  BY <1>1, IdleType, AwakeRuns DEF BalancesInv, ProcessInv, ActivityOK
<1>3. ProcessInv'
  BY <1>2, RebuildKeeps DEF Fetched, BalancesInv
<1>4. /\ cacheFile' \in [Block -> BalancesRoot \cup {NoRoot, HalfFile}]
      /\ StoredUnderItsBlock'
  BY <1>1, SaveKeeps DEF Fetched
<1>5. QED
  BY <1>1, <1>3, <1>4 DEF BalancesInv, WorldInv, HistoryOK, historyVars, registryVars

(* A fault loses memory, and may leave half a file.                        *)
LEMMA FaultKeeps ==
    ASSUME BalancesInv, Crash \/ \E a \in Activities : FetchFails(a)
    PROVE  BalancesInv'
<1>1. /\ UNCHANGED <<registryVars, head, mempool, storage, failedUploads, overtaken>>
      /\ faults < MaxFaults /\ faults' = faults + 1
  BY DEF Crash, FetchFails, historyVars
<1>2. ProcessInv'
  <2>1. CASE Crash
    BY <2>1, StopKeeps DEF Crash
  <2>2. ASSUME NEW a \in Activities, FetchFails(a)
        PROVE  ProcessInv'
    <3>1. running = TRUE /\ ProcessInv
      BY <2>2, IdleType, AwakeRuns DEF BalancesInv, FetchFails
    <3>2. QED
      BY <2>2, <3>1, ThrowKeeps DEF FetchFails
  <2>3. QED
    BY <2>1, <2>2
<1>3. \/ UNCHANGED cacheFile
      \/ \E a \in Activities : activity[a].pc = "fetch" /\ Save(a, HalfFile)
  BY DEF Crash, FetchFails
<1>4. /\ cacheFile' \in [Block -> BalancesRoot \cup {NoRoot, HalfFile}]
      /\ StoredUnderItsBlock'
  <2>1. CASE UNCHANGED cacheFile
    BY <1>1, <2>1 DEF BalancesInv, WorldInv, StoredUnderItsBlock
  <2>2. ASSUME NEW a \in Activities, activity[a].pc = "fetch", Save(a, HalfFile)
        PROVE  /\ cacheFile' \in [Block -> BalancesRoot \cup {NoRoot, HalfFile}]
               /\ StoredUnderItsBlock'
    BY <1>1, <2>2, SaveKeeps
  <2>3. QED
    BY <1>3, <2>1, <2>2
<1>5. faults' \in 0..MaxFaults
  BY <1>1, BalancesAssumption DEF BalancesInv, WorldInv
<1>6. failedSnapshots' \subseteq Block
  <2>1. CASE Crash
    BY <2>1 DEF Crash, historyVars, BalancesInv, WorldInv, HistoryOK
  <2>2. ASSUME NEW a \in Activities, FetchFails(a)
        PROVE  failedSnapshots' \subseteq Block
    <3>1. activity[a].pc = "fetch" => activity[a].post.block \in Block
      BY TrueSnapshotType DEF BalancesInv, ProcessInv, ActivityOK
    <3>2. QED
      BY <2>2, <3>1 DEF FetchFails, BalancesInv, WorldInv, HistoryOK
  <2>3. QED
    BY <2>1, <2>2
<1>7. QED
  BY <1>1, <1>2, <1>4, <1>5, <1>6 DEF BalancesInv, WorldInv, HistoryOK, registryVars

LEMMA TakeRootKeeps ==
    ASSUME BalancesInv, NEW a \in Activities, TakeRoot(a)
    PROVE  BalancesInv'
<1> DEFINE next == [pc |-> "send", post |-> activity[a].post, submit |-> current]
<1>1. /\ activity[a].pc = "ownership"
      /\ activity' = [activity EXCEPT ![a] = next]
      /\ UNCHANGED <<registryVars, head, cacheFile, running, current, mempool, storage,
                     failedUploads, failedSnapshots, faults>>
      /\ overtaken' \subseteq overtaken \cup {activity[a].post.block}
  BY DEF TakeRoot, Go
<1>2. activity[a].post \in TrueSnapshot /\ current \in TrueSnapshot /\ ProcessInv
  BY <1>1 DEF BalancesInv, ProcessInv, ActivityOK
<1>3. running' = TRUE
  BY <1>1, <1>2, IdleType, AwakeRuns
<1>4. next \in Activity
  BY <1>2, TrueSnapshotType DEF Activity, Awaiting
<1>5. next.pc = "send" /\ next.post \in TrueSnapshot /\ next.submit \in TrueSnapshot
  BY <1>2
<1> HIDE DEF next
<1>6. ProcessInv'
  BY <1>1, <1>2, <1>3, <1>4, <1>5, GoKeeps
<1>7. activity[a].post.block \in Block
  BY <1>2, TrueSnapshotType
<1>8. WorldInv'
  BY <1>1, <1>7 DEF BalancesInv, WorldInv, HistoryOK, StoredUnderItsBlock, registryVars
<1>9. QED
  BY <1>6, <1>8 DEF BalancesInv

(* An activity that only moves on, to the receipt or to the upload.        *)
LEMMA MovesOn ==
    ASSUME ProcessInv, NEW a \in Activities, NEW pc \in {"wait", "upload"},
           activity[a].pc \in {"send", "wait"},
           activity' = [activity EXCEPT ![a].pc = pc], UNCHANGED <<running, current>>
    PROVE  ProcessInv'
<1> DEFINE next == [activity[a] EXCEPT !.pc = pc]
<1>1. activity[a] \in Activity
  BY DEF ProcessInv
<1>2. /\ next \in Activity
      /\ next.pc = pc /\ next.post = activity[a].post /\ next.submit = activity[a].submit
  BY <1>1 DEF Activity, Awaiting
<1>3. activity' = [activity EXCEPT ![a] = next]
  BY DEF ProcessInv
<1>4. running' = TRUE
  BY IdleType, AwakeRuns
<1>5. /\ activity[a].post \in TrueSnapshot /\ activity[a].submit \in TrueSnapshot
      /\ current' \in TrueSnapshot \cup {NoSnapshot}
  BY DEF ProcessInv, ActivityOK
<1> HIDE DEF next
<1>6. QED
  BY <1>2, <1>3, <1>4, <1>5, GoKeeps

LEMMA SubmissionKeeps ==
    ASSUME BalancesInv, NEW a \in Activities, Send(a) \/ Receipt(a) \/ SubmissionFails(a)
    PROVE  BalancesInv'
<1>1. /\ activity[a].pc \in {"send", "wait"}
      /\ UNCHANGED <<registryVars, head, cacheFile, running, current, storage, failedUploads,
                     overtaken>>
      /\ failedSnapshots' \subseteq failedSnapshots \cup {activity[a].submit.block}
      /\ \E pc \in {"wait", "upload"} : activity' = [activity EXCEPT ![a].pc = pc]
  BY DEF Send, Receipt, SubmissionFails, Submitted, historyVars
<1>2. ProcessInv'
  BY <1>1, MovesOn DEF BalancesInv
<1>3. mempool' \subseteq TrueSnapshot
  <2>1. mempool' = mempool \/ (activity[a].pc = "send" /\ mempool' = mempool \cup {activity[a].submit})
    BY DEF Send, Receipt, SubmissionFails
  <2>2. activity[a].pc = "send" => activity[a].submit \in TrueSnapshot
    BY DEF BalancesInv, ProcessInv, ActivityOK
  <2>3. QED
    BY <2>1, <2>2 DEF BalancesInv, WorldInv
<1>4. faults' \in 0..MaxFaults
  BY BalancesAssumption DEF BalancesInv, WorldInv, Send, Receipt, SubmissionFails
<1>5. activity[a].submit.block \in Block
  BY <1>1, TrueSnapshotType DEF BalancesInv, ProcessInv, ActivityOK
<1>6. QED
  BY <1>1, <1>2, <1>3, <1>4, <1>5
     DEF BalancesInv, WorldInv, HistoryOK, StoredUnderItsBlock, registryVars

LEMMA UploadKeeps ==
    ASSUME BalancesInv, NEW a \in Activities, Upload(a) \/ UploadFails(a)
    PROVE  BalancesInv'
<1> DEFINE s == activity[a].post
<1>1. /\ activity[a].pc = "upload"
      /\ Go(a, "idle", NoSnapshot, NoSnapshot)
      /\ UNCHANGED <<registryVars, head, cacheFile, running, current, mempool>>
  BY DEF Upload, UploadFails
<1>2. s \in TrueSnapshot /\ ProcessInv
  BY <1>1 DEF BalancesInv, ProcessInv, ActivityOK
<1>3. s.block \in Block /\ s.root = BalancesAt[s.block] /\ BalancesAt[s.block] \in BalancesRoot
  BY <1>2, TrueSnapshotType, BalancesAssumption
<1>4. running = TRUE
  BY <1>1, <1>2, IdleType, AwakeRuns
<1>5. ProcessInv'
  BY <1>1, <1>2, <1>4, GoesIdle
<1>6. storage' = storage \/ storage' = [storage EXCEPT ![s.block] = s.root]
  BY DEF Upload, UploadFails
<1>7. storage' \in [Block -> BalancesRoot \cup {NoRoot}] /\ StoredUnderItsBlock'
  BY <1>1, <1>3, <1>6 DEF BalancesInv, WorldInv, StoredUnderItsBlock
<1>8. HistoryOK' /\ faults' \in 0..MaxFaults
  BY <1>3, BalancesAssumption
     DEF BalancesInv, WorldInv, HistoryOK, historyVars, Upload, UploadFails
<1>9. QED
  BY <1>1, <1>5, <1>7, <1>8 DEF BalancesInv, WorldInv, registryVars

LEMMA BalancesInvStep == BalancesInv /\ [Next]_vars => BalancesInv'
<1> SUFFICES ASSUME BalancesInv, [Next]_vars
             PROVE  BalancesInv'
  OBVIOUS
<1>1. CASE NextSnapshotBlock \/ Backfill \/ \E tx \in mempool : Mine(tx)
  BY <1>1, ChainKeeps
<1>2. CASE Start \/ DailyJob
  BY <1>2, BeginKeeps
<1>3. ASSUME NEW a \in Activities, Connected(a)
      PROVE  BalancesInv'
  <2>1. running = TRUE
    BY <1>3, IdleType, AwakeRuns DEF Connected, BalancesInv
  <2>2. QED
    BY <1>3, <2>1, ChooseKeeps DEF Connected
<1>4. CASE Crash \/ \E a \in Activities : FetchFails(a)
  BY <1>4, FaultKeeps
<1>5. ASSUME NEW a \in Activities, Step(a) \/ SubmissionFails(a) \/ UploadFails(a)
      PROVE  BalancesInv'
  BY <1>3, <1>5, FetchedKeeps, TakeRootKeeps, SubmissionKeeps, UploadKeeps DEF Step
<1>6. CASE UNCHANGED vars
  BY <1>6 DEF vars, registryVars, balancesIndexerVars, processVars, BalancesInv, ProcessInv,
              ActivityOK, WorldInv, HistoryOK, historyVars, StoredUnderItsBlock
<1>7. QED
  BY <1>1, <1>2, <1>3, <1>4, <1>5, <1>6 DEF Next

THEOREM BalancesInvariant == Spec => []BalancesInv
BY BalancesInvInit, BalancesInvStep, PTL DEF Spec

-----------------------------------------------------------------------------
(* What follows from it *)

(* Every variable of the balances side keeps its type, and a process that  *)
(* has stopped awaits nothing.                                             *)
THEOREM BalancesTypeCorrect == Spec => []BalancesTypeOK
<1>1. BalancesInv => BalancesTypeOK
  BY TrueSnapshotType DEF BalancesInv, ProcessInv, WorldInv, HistoryOK, BalancesTypeOK
<1>2. QED
  BY <1>1, BalancesInvariant, PTL

(* What is under a block's name in the bucket or the cache is that         *)
(* block's, whatever overlaps, stops or fails.                             *)
THEOREM StoredUnderOwnBlock == Spec => []StoredUnderItsBlock
<1>1. BalancesInv => StoredUnderItsBlock
  BY DEF BalancesInv, WorldInv
<1>2. QED
  BY <1>1, BalancesInvariant, PTL

(***************************************************************************)
(* A root is only ever recorded for the block whose balances it is the     *)
(* root of, which is what PrivateVoting has the tree builder do.           *)
(***************************************************************************)
THEOREM PublishesTrueBalances == Spec => PublishesBalancesOfTheBlock
<1>1. ASSUME BalancesInv, [Next]_vars
      PROVE  \/ UNCHANGED balancesVars
             \/ \E b \in Block : submitBalancesRoot(treeBuilder, BalancesAt[b], b)
  <2>1. ASSUME NEW tx \in mempool, Mine(tx)
        PROVE  \/ UNCHANGED balancesVars
               \/ \E b \in Block : submitBalancesRoot(treeBuilder, BalancesAt[b], b)
    <3>1. tx.block \in Block /\ tx.root = BalancesAt[tx.block] /\ treeBuilder = TreeBuilderKey
      BY <1>1, TrueSnapshotType DEF BalancesInv, WorldInv
    <3>2. CASE submitBalancesRoot(TreeBuilderKey, tx.root, tx.block)
      BY <3>1, <3>2
    <3>3. CASE UNCHANGED registryVars
      BY <3>3 DEF registryVars
    <3>4. QED
      BY <2>1, <3>2, <3>3 DEF Mine
  <2>2. CASE UNCHANGED balancesVars
    BY <2>2
  <2>3. QED
    BY <1>1, <2>1, <2>2
       DEF Next, vars, registryVars, NextSnapshotBlock, Backfill, Start, Connected, DailyJob,
           Choose, Crash, Step, Fetched, TakeRoot, Send, Receipt, Upload, FetchFails,
           SubmissionFails, UploadFails
<1>2. QED
  BY <1>1, BalancesInvariant, PTL DEF Spec, PublishesBalancesOfTheBlock

(***************************************************************************)
(* The registry sees steps it allows only, so what is proved of it holds   *)
(* here: a proposal's snapshot only moves towards the proposal's block.    *)
(***************************************************************************)
THEOREM BalancesImplementRegistry == Spec => RegistrySpec
<1>1. Init => RegistryInit
  BY DEF Init
<1>2. ASSUME BalancesInv, [Next]_vars
      PROVE  [RegistryNext]_registryVars
  <2>1. ASSUME NEW tx \in mempool, Mine(tx)
        PROVE  [RegistryNext]_registryVars
    <3>1. tx.block \in Block /\ tx.root \in BalancesRoot /\ TreeBuilderKey \in Account
      BY <1>2, TrueSnapshotType, BalancesAssumption DEF BalancesInv, WorldInv
    <3>2. QED
      BY <2>1, <3>1 DEF Mine, RegistryNext
  <2>2. CASE UNCHANGED registryVars
    BY <2>2
  <2>3. QED
    BY <1>2, <2>1, <2>2
       DEF Next, vars, NextSnapshotBlock, Backfill, Start, Connected, DailyJob, Choose, Crash,
           Step, Fetched, TakeRoot, Send, Receipt, Upload, FetchFails, SubmissionFails,
           UploadFails
<1>3. QED
  BY <1>1, <1>2, BalancesInvariant, PTL DEF Spec, RegistrySpec

=============================================================================
