-------------------------- MODULE BalancesSnapshot ---------------------------
(***************************************************************************)
(* How a snapshot comes about (indexer/src/chain/polkadot-rpc.ts,          *)
(* chain/balance-fetcher.ts, trees/balances-tree.ts): the first block of   *)
(* the day is searched, the account storage of that block is scanned by    *)
(* several workers over partitions of its keys, and a tree is built of the *)
(* accounts that an EVM address can act for.                               *)
(*                                                                         *)
(* A storage key is a number, in the order of the keys; a partition's      *)
(* bounds are never keys, being shorter.  A call to the node is answered,  *)
(* times out, or fails.                                                    *)
(***************************************************************************)
EXTENDS MerkleTree, FiniteSets

CONSTANTS
    Chain,          \* [timestamps, midnight] of the chains looked at
    Margin,         \* INITIAL_MARGIN, 300 blocks
    MaxExpansions,  \* 10
    AccountsAt,     \* block => key => balance, in system.account
    Derived,        \* key => the EVM address an account id ends in 0xEE for, or 0
    OriginalAt,     \* block => address => key, in revive.originalAccount
    MinBalance,     \* MIN_BALANCE
    Bounds,         \* keys between the partitions, ascending
    Concurrency,    \* CONCURRENCY, the number of workers
    PageSize, BatchSize, MaxRetries,
    MaxTimeouts,    \* bounds calls that time out or fail
    MaxUnwritten    \* bounds lines that cannot be written

HeadOf(c)     == Len(c.timestamps)
Estimate(c) == HeadOf(c) - (c.timestamps[HeadOf(c)] - c.midnight) \div 6

(* How far from the estimate the window can be widened: 307200 blocks.     *)
Reach == Margin * Pow2[MaxExpansions]

(***************************************************************************)
(* Blocks are in the order of their timestamps.  The estimate does not     *)
(* fall before the chain's first block, and midnight is within reach of    *)
(* it: a day has 14400 blocks of six seconds.                              *)
(***************************************************************************)
ASSUME ChainAssumption ==
    /\ Margin \in Nat \ {0} /\ MaxExpansions \in Nat
    /\ \A c \in Chain :
          /\ c.timestamps \in Seq(Int) /\ c.timestamps # <<>> /\ c.midnight \in Int
          /\ \A b, d \in 1..HeadOf(c) : b <= d => c.timestamps[b] <= c.timestamps[d]
          /\ c.timestamps[HeadOf(c)] >= c.midnight =>
                /\ Estimate(c) + Margin >= 1
                /\ \A b \in 1..HeadOf(c) :
                      /\ b < Estimate(c) - Reach => c.timestamps[b] < c.midnight
                      /\ b >= Estimate(c) + Reach => c.timestamps[b] >= c.midnight

(* What a block stores; a bound is not a key.                              *)
ASSUME StorageAssumption ==
    /\ \A c \in Chain : \A b \in 1..HeadOf(c) :
          /\ IsFiniteSet(DOMAIN AccountsAt[b]) /\ IsFiniteSet(DOMAIN OriginalAt[b])
          /\ DOMAIN AccountsAt[b] \subseteq Nat \ {0} /\ DOMAIN OriginalAt[b] \subseteq Nat \ {0}
          /\ \A k \in DOMAIN AccountsAt[b] : AccountsAt[b][k] \in Nat /\ Derived[k] \in Nat
          /\ \A i \in 1..Len(Bounds) : Bounds[i] \notin DOMAIN AccountsAt[b]
    /\ MinBalance \in Nat
    /\ Bounds \in Seq(Nat)
    /\ \A i, j \in 1..Len(Bounds) : i < j => Bounds[i] < Bounds[j]
    /\ Concurrency \in Nat \ {0}
    /\ PageSize \in Nat \ {0} /\ BatchSize \in Nat \ {0} /\ MaxRetries \in Nat \ {0}
    /\ MaxTimeouts \in Nat /\ MaxUnwritten \in Nat

VARIABLES
    chain,          \* the chain as finalized when the search starts
    window,         \* [lo, hi, expansions] of the search
    snapshotBlock,  \* 0 until it is found
    mapped,         \* mappedAccounts: key => address, as far as fetched
    lastMapped,     \* lastKey of fetchMappedAccounts
    phase,          \* of getFirstBlockOfToday, fetchAllBalances and the build
    next,           \* the queue: the partitions from this one on are not taken
    worker,
    file,           \* what the lines of the temporary file read into a Map give
    unwritten,      \* accounts whose line could not be written
    timeouts,       \* failed calls so far
    tree

mapVars  == <<mapped, lastMapped>>
scanVars == <<next, worker, file, unwritten>>
vars     == <<chain, window, snapshotBlock, mapVars, phase, scanVars, timeouts, tree>>

Least(S)   == CHOOSE x \in S : \A y \in S : x <= y
Largest(S) == CHOOSE x \in S : \A y \in S : y <= x

(* The n least elements of S.                                              *)
FirstOf(S, n) == {k \in S : Cardinality({j \in S : j <= k}) <= n}

-----------------------------------------------------------------------------
(* The search for the first block of the day; each step ends with a call   *)
(* for a timestamp                                                         *)

currentBlock == HeadOf(chain)
IsToday(b)   == chain.timestamps[b] >= chain.midnight

AtLeast1(b) == IF b < 1 THEN 1 ELSE b
UpToHead(b) == IF b > currentBlock THEN currentBlock ELSE b

StartSearch ==
    /\ phase = "start"
    /\ IF IsToday(currentBlock)
       THEN /\ window' = [lo |-> AtLeast1(Estimate(chain) - Margin),
                          hi |-> UpToHead(Estimate(chain) + Margin), expansions |-> 0]
            /\ phase' = "left"
            /\ UNCHANGED snapshotBlock
       ELSE snapshotBlock' = currentBlock /\ phase' = "mapped" /\ UNCHANGED window
    /\ UNCHANGED <<chain, mapVars, scanVars, timeouts, tree>>

(* The left end moves by growing steps while it is after midnight,         *)
ExpandLeft ==
    /\ phase = "left"
    /\ IF IsToday(window.lo) /\ window.lo > 1 /\ window.expansions < MaxExpansions
       THEN /\ window' = [window EXCEPT !.lo = AtLeast1(@ - Margin * Pow2[window.expansions]),
                                        !.expansions = @ + 1]
            /\ UNCHANGED phase
       ELSE window' = [window EXCEPT !.expansions = 0] /\ phase' = "right"
    /\ UNCHANGED <<chain, snapshotBlock, mapVars, scanVars, timeouts, tree>>

(* and the right end while it is before.                                   *)
ExpandRight ==
    /\ phase = "right"
    /\ IF ~IsToday(window.hi) /\ window.hi < currentBlock /\ window.expansions < MaxExpansions
       THEN /\ window' = [window EXCEPT !.hi = UpToHead(@ + Margin * Pow2[window.expansions]),
                                        !.expansions = @ + 1]
            /\ UNCHANGED phase
       ELSE phase' = "bisect" /\ UNCHANGED window
    /\ UNCHANGED <<chain, snapshotBlock, mapVars, scanVars, timeouts, tree>>

(* Mutant: the middle is dropped with the half after midnight.             *)
BisectPast ==
    LET mid == (window.lo + window.hi) \div 2
    IN  /\ phase = "bisect"
        /\ IF window.lo < window.hi
           THEN /\ window' = IF IsToday(mid) THEN [window EXCEPT !.hi = mid - 1]
                                             ELSE [window EXCEPT !.lo = mid + 1]
                /\ UNCHANGED <<phase, snapshotBlock>>
           ELSE snapshotBlock' = window.lo /\ phase' = "mapped" /\ UNCHANGED window
        /\ UNCHANGED <<chain, mapVars, scanVars, timeouts, tree>>

Bisect ==
    LET mid == (window.lo + window.hi) \div 2
    IN  /\ phase = "bisect"
        /\ IF window.lo < window.hi
           THEN /\ window' = IF IsToday(mid) THEN [window EXCEPT !.hi = mid]
                                             ELSE [window EXCEPT !.lo = mid + 1]
                /\ UNCHANGED <<phase, snapshotBlock>>
           ELSE snapshotBlock' = window.lo /\ phase' = "mapped" /\ UNCHANGED window
        /\ UNCHANGED <<chain, mapVars, scanVars, timeouts, tree>>

-----------------------------------------------------------------------------
(* The scan *)

accounts == AccountsAt[snapshotBlock]
original == OriginalAt[snapshotBlock]

(* state_getKeysPaged: up to PageSize keys after the one given.            *)
PageAfter(keys, last) == FirstOf({k \in keys : k > last}, PageSize)

Partitions == Len(Bounds) + 1
startKey(p)  == IF p = 1 THEN 0 ELSE Bounds[p - 1]
IsPast(k, p) == p < Partitions /\ k >= Bounds[p]

(***************************************************************************)
(* A worker awaits the next page of keys of its partition or the values of *)
(* a batch of them: keys is what is left of the page, more whether another *)
(* page follows.  It has ended when it finds no partition in the queue.    *)
(***************************************************************************)

(* Mutant: every page is fetched from the partition's start.               *)
AwaitFirstKeys(p, last) ==
    [pc |-> "keys", part |-> p, last |-> startKey(p), keys |-> {}, more |-> FALSE, attempt |-> 1]

AwaitKeys(p, last) ==
    [pc |-> "keys", part |-> p, last |-> last, keys |-> {}, more |-> FALSE, attempt |-> 1]
Ended ==
    [pc |-> "ended", part |-> 0, last |-> 0, keys |-> {}, more |-> FALSE, attempt |-> 1]

Worker == 1..Concurrency

TakePartition(w) ==
    IF next > Partitions
    THEN worker' = [worker EXCEPT ![w] = Ended] /\ UNCHANGED next
    ELSE worker' = [worker EXCEPT ![w] = AwaitKeys(next, startKey(next))] /\ next' = next + 1

SnapshotTypeOK ==
    /\ chain \in Chain
    /\ snapshotBlock \in 0..currentBlock
    /\ phase \in {"start", "left", "right", "bisect", "mapped", "scan", "build", "done", "failed"}
    /\ phase \in {"start", "left", "right", "bisect"} => snapshotBlock = 0
    /\ snapshotBlock = 0 => phase \in {"start", "left", "right", "bisect", "failed"}
    /\ window.lo \in 1..currentBlock /\ window.hi \in window.lo..currentBlock
    /\ window.expansions \in 0..MaxExpansions
    /\ snapshotBlock # 0 => \A k \in DOMAIN mapped : k \in {original[a] : a \in DOMAIN original}
    /\ next \in 1..(Partitions + 1)
    /\ \A w \in Worker : worker[w].pc = "values" <=> worker[w].keys # {}
    /\ \A w \in Worker : worker[w].attempt \in 1..MaxRetries
    /\ timeouts \in 0..MaxTimeouts
    /\ tree.nextIndex \in 0..Capacity

Init ==
    /\ chain \in Chain
    /\ window = [lo |-> 1, hi |-> 1, expansions |-> 0]
    /\ snapshotBlock = 0
    /\ mapped = [k \in {} |-> 0]
    /\ lastMapped = 0
    /\ phase = "start"
    /\ next = 1
    /\ worker = [w \in Worker |-> Ended]
    /\ file = [a \in {} |-> 0]
    /\ unwritten = {}
    /\ timeouts = 0
    /\ tree = EmptyTree

(* fetchMappedAccounts, a page at a time; after the last, the workers take *)
(* a partition each.                                                       *)
FetchMapped ==
    LET page == PageAfter(DOMAIN original, lastMapped)
        keys == {original[a] : a \in page}
    IN  /\ phase = "mapped"
        /\ mapped' = [k \in DOMAIN mapped \cup keys |->
                         IF k \in keys THEN Largest({a \in page : original[a] = k}) ELSE mapped[k]]
        /\ lastMapped' = IF page = {} THEN lastMapped ELSE Largest(page)
        /\ IF Cardinality(page) < PageSize
           THEN /\ phase' = "scan"
                /\ worker' = [w \in Worker |-> IF w > Partitions THEN Ended
                                               ELSE AwaitKeys(w, startKey(w))]
                /\ next' = IF Concurrency > Partitions THEN Partitions + 1 ELSE Concurrency + 1
           ELSE UNCHANGED <<phase, worker, next>>
        /\ UNCHANGED <<chain, window, snapshotBlock, file, unwritten, timeouts, tree>>

(* The last attempt of a call of the search or of fetchMappedAccounts.     *)
PreparationFails ==
    /\ phase \in {"start", "left", "right", "bisect", "mapped"}
    /\ timeouts < MaxTimeouts
    /\ timeouts' = timeouts + 1
    /\ phase' = "failed"
    /\ UNCHANGED <<chain, window, snapshotBlock, mapVars, scanVars, tree>>

(* getEvmAddress, 0 for an account no EVM address acts for.                *)
getEvmAddress(k, map) ==
    IF Derived[k] # 0 THEN Derived[k] ELSE IF k \in DOMAIN map THEN map[k] ELSE 0

(* Mutant: a partition ends with the first page it cut nothing off.        *)
IsLastUncut(page, trimmed) == trimmed = page \/ Cardinality(page) < PageSize

(* The page crossed into the next partition or was not full.               *)
IsLast(page, trimmed) == trimmed # page \/ Cardinality(page) < PageSize

Trim(page, p) == {k \in page : ~IsPast(k, p)}

FetchKeys(w) ==
    LET me      == worker[w]
        page    == PageAfter(DOMAIN accounts, me.last)
        trimmed == Trim(page, me.part)
    IN  /\ phase = "scan" /\ me.pc = "keys"
        /\ IF trimmed = {}
           THEN TakePartition(w)
           ELSE /\ worker' = [worker EXCEPT ![w] =
                       [pc |-> "values", part |-> me.part, last |-> Largest(trimmed),
                        keys |-> trimmed, more |-> ~IsLast(page, trimmed), attempt |-> 1]]
                /\ UNCHANGED next
        /\ UNCHANGED <<chain, window, snapshotBlock, mapVars, phase, file, unwritten, timeouts, tree>>

(***************************************************************************)
(* The values of a batch: a line is written for each account with enough   *)
(* balance and an EVM address.  A line that cannot be written is skipped   *)
(* by the catch meant for values that fail to decode.                      *)
(***************************************************************************)
FetchValues(w) ==
    LET me    == worker[w]
        batch == FirstOf(me.keys, BatchSize)
        rest  == me.keys \ batch
        lines == {k \in batch : accounts[k] >= MinBalance /\ getEvmAddress(k, mapped) # 0}
    IN  /\ phase = "scan" /\ me.pc = "values"
        /\ \E lost \in SUBSET lines :
              LET Written(a) == {k \in lines \ lost : getEvmAddress(k, mapped) = a}
              IN  /\ Cardinality(unwritten \cup lost) <= MaxUnwritten
                  /\ unwritten' = unwritten \cup lost
                  /\ file' = [a \in DOMAIN file \cup
                                    {getEvmAddress(k, mapped) : k \in lines \ lost} |->
                                 IF Written(a) = {} THEN file[a]
                                                    ELSE accounts[Largest(Written(a))]]
        /\ IF rest # {}
           THEN worker' = [worker EXCEPT ![w].keys = rest, ![w].attempt = 1] /\ UNCHANGED next
           ELSE IF me.more
                THEN worker' = [worker EXCEPT ![w] = AwaitKeys(me.part, me.last)] /\ UNCHANGED next
                ELSE TakePartition(w)
        /\ UNCHANGED <<chain, window, snapshotBlock, mapVars, phase, timeouts, tree>>

(* Mutant: the attempts are counted from 0.                                *)
CallFailsOnceMore(w) ==
    /\ phase = "scan" /\ worker[w].pc \in {"keys", "values"}
    /\ timeouts < MaxTimeouts
    /\ timeouts' = timeouts + 1
    /\ \/ /\ worker[w].attempt <= MaxRetries
          /\ worker' = [worker EXCEPT ![w].attempt = @ + 1]
          /\ UNCHANGED phase
       \/ phase' = "failed" /\ UNCHANGED worker
    /\ UNCHANGED <<chain, window, snapshotBlock, mapVars, next, file, unwritten, tree>>

(* rpcWithRetry: a call that times out is repeated, unless it was the last *)
(* attempt; that and any other error throws, and no file is kept.          *)
CallFails(w) ==
    /\ phase = "scan" /\ worker[w].pc \in {"keys", "values"}
    /\ timeouts < MaxTimeouts
    /\ timeouts' = timeouts + 1
    /\ \/ /\ worker[w].attempt < MaxRetries
          /\ worker' = [worker EXCEPT ![w].attempt = @ + 1]
          /\ UNCHANGED phase
       \/ phase' = "failed" /\ UNCHANGED worker
    /\ UNCHANGED <<chain, window, snapshotBlock, mapVars, next, file, unwritten, tree>>

(* Promise.all: every worker has ended.                                    *)
ScanEnds ==
    /\ phase = "scan"
    /\ \A w \in Worker : worker[w] = Ended
    /\ phase' = "build"
    /\ UNCHANGED <<chain, window, snapshotBlock, mapVars, scanVars, timeouts, tree>>

(* buildBalancesTree: the leaves in the order of the addresses.  Too many  *)
(* of them throw.                                                          *)
LeavesOf(balances) ==
    [i \in 1..Cardinality(DOMAIN balances) |->
        LET a == CHOOSE x \in DOMAIN balances :
                     Cardinality({y \in DOMAIN balances : y <= x}) = i
        IN  <<"leaf", a, balances[a]>>]

Build ==
    /\ phase = "build"
    /\ IF CanInsert(EmptyTree, Cardinality(DOMAIN file))
       THEN tree' = bulkInsert(EmptyTree, LeavesOf(file)) /\ phase' = "done"
       ELSE phase' = "failed" /\ UNCHANGED tree
    /\ UNCHANGED <<chain, window, snapshotBlock, mapVars, scanVars, timeouts>>

Next ==
    \/ StartSearch \/ ExpandLeft \/ ExpandRight \/ Bisect
    \/ FetchMapped
    \/ PreparationFails
    \/ \E w \in Worker : FetchKeys(w) \/ FetchValues(w) \/ CallFails(w)
    \/ ScanEnds
    \/ Build

Spec == Init /\ [][Next]_vars /\ WF_vars(Next)

-----------------------------------------------------------------------------
(* Properties *)

(***************************************************************************)
(* The search ends at the first block of the day, however unevenly the     *)
(* blocks came and wherever the estimate fell; when there is none yet, at  *)
(* the last block (getFirstBlockOfToday).                                  *)
(***************************************************************************)
SnapshotIsFirstOfToday ==
    snapshotBlock # 0 =>
        LET today == {b \in 1..currentBlock : IsToday(b)}
        IN  snapshotBlock = IF today = {} THEN currentBlock ELSE Least(today)

(* The EVM addresses that act for account k, and the accounts that count   *)
(* for address a.                                                          *)
AddressesOf(k) ==
    IF Derived[k] # 0 THEN {Derived[k]} ELSE {a \in DOMAIN original : original[a] = k}
AccountsFor(a) ==
    {k \in DOMAIN accounts : accounts[k] >= MinBalance /\ a \in AddressesOf(k)}

(***************************************************************************)
(* Pages, partitions and workers together miss no account and add none:    *)
(* every account with enough balance that an address acts for has its      *)
(* address in the snapshot, and every address in it has the balance of an  *)
(* account of its own.  Only lines that could not be written are missing.  *)
(***************************************************************************)
ScanIsComplete ==
    phase \in {"build", "done"} =>
        /\ \A k \in DOMAIN accounts \ unwritten :
              (accounts[k] >= MinBalance /\ AddressesOf(k) # {}) =>
                  \E a \in DOMAIN file : k \in AccountsFor(a)
        /\ \A a \in DOMAIN file : \E k \in AccountsFor(a) \ unwritten : file[a] = accounts[k]

(***************************************************************************)
(* The indexer's root does not depend on how the leaves were inserted, and *)
(* a client that rebuilds the tree from the uploaded leaves gets the same  *)
(* root and the same proofs, each of which leads from its leaf to the root *)
(* on chain.                                                               *)
(***************************************************************************)
TreesAgree ==
    phase = "done" =>
        LET leaves == LeavesOf(file)
            client == fromLeaves(leaves)
        IN  /\ clientRoot(client) = getRoot(tree)
            /\ \A n \in 0..Len(leaves) :
                  getRoot(bulkInsert(insertAll(EmptyTree, SubSeq(leaves, 1, n)),
                                     SubSeq(leaves, n + 1, Len(leaves)))) = getRoot(tree)
            /\ \A i \in 1..Len(leaves) :
                  /\ clientProof(client, i - 1) = getProof(tree, i - 1)
                  /\ RootOfProof(leaves[i], getProof(tree, i - 1)) = getRoot(tree)

(* Every fetch ends, in a tree or in an error.                             *)
SnapshotEnds == <>(phase \in {"done", "failed"})

=============================================================================
