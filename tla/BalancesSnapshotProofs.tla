------------------------ MODULE BalancesSnapshotProofs -----------------------
(***************************************************************************)
(* Proofs about a snapshot: the search ends at the first block of the day, *)
(* the scan misses no account and adds none, and the tree built of it is   *)
(* the client's.  They hold for every chain the assumptions allow, every   *)
(* set of accounts, partitioning of the keys, size of pages and batches,   *)
(* and number of workers.                                                  *)
(***************************************************************************)
EXTENDS BalancesSnapshot, MerkleTreeProofs, FiniteSetTheorems, SequenceTheorems

-----------------------------------------------------------------------------
(* The inductive invariant *)

Searching == {"start", "left", "right", "bisect"}
Scanning  == {"scan", "build", "done"}

WorkerState ==
    [pc : {"keys", "values", "ended"}, part : Nat, last : Nat, keys : SUBSET Nat,
     more : BOOLEAN, attempt : Nat]

(* The types that SnapshotTypeOK leaves out, and what is not yet there.    *)
ShapeInv ==
    /\ window \in [lo : Int, hi : Int, expansions : Int]
    /\ worker \in [Worker -> WorkerState]
    /\ lastMapped \in Nat
    /\ next \in Nat
    /\ IsFiniteSet(DOMAIN file) /\ DOMAIN file \subseteq Nat
    /\ phase \in Searching \cup {"mapped"} =>
           /\ worker = [w \in Worker |-> Ended] /\ next = 1
           /\ file = [a \in {} |-> 0] /\ unwritten = {}
    /\ phase \in Searching => mapped = [k \in {} |-> 0] /\ lastMapped = 0

BeforeMidnight(b) == \A d \in 1..(b - 1) : ~IsToday(d)

(***************************************************************************)
(* While the window is widened, each end is where the margins added so far *)
(* have brought it; from then on no block before the window is of today,   *)
(* and in the end the window's last block is.                              *)
(***************************************************************************)
SearchInv ==
    /\ phase \in {"left", "right", "bisect"} => IsToday(currentBlock)
    /\ phase = "left" =>
           /\ window.lo = AtLeast1(Estimate(chain) - Margin * Pow2[window.expansions])
           /\ window.hi = UpToHead(Estimate(chain) + Margin)
    /\ phase = "right" =>
           /\ BeforeMidnight(window.lo)
           /\ window.hi = UpToHead(Estimate(chain) + Margin * Pow2[window.expansions])
    /\ phase = "bisect" => BeforeMidnight(window.lo) /\ IsToday(window.hi)
    /\ SnapshotIsFirstOfToday

(* Every account mapped by a page so far is there, under its own address.  *)
MappedInv ==
    /\ phase = "mapped" =>
           DOMAIN mapped = {original[a] : a \in {x \in DOMAIN original : x <= lastMapped}}
    /\ phase \in Scanning => DOMAIN mapped = {original[a] : a \in DOMAIN original}
    /\ phase \in Scanning \cup {"mapped"} =>
           \A k \in DOMAIN mapped : mapped[k] \in DOMAIN original /\ original[mapped[k]] = k

PartKeys(p) == {k \in DOMAIN accounts : k > startKey(p) /\ ~IsPast(k, p)}

(* The keys a worker has still to fetch the values of, before it takes the *)
(* next partition.                                                         *)
Remaining(w) ==
    {k \in DOMAIN accounts :
        /\ worker[w].pc # "ended"
        /\ \/ k \in worker[w].keys
           \/ /\ worker[w].pc = "keys" \/ worker[w].more
              /\ k > worker[w].last /\ k \in PartKeys(worker[w].part)}

Waiting == {k \in DOMAIN accounts : \E p \in next..Partitions : k \in PartKeys(p)}

Pending == {k \in DOMAIN accounts : k \in Waiting \/ \E w \in Worker : k \in Remaining(w)}

Processed == DOMAIN accounts \ Pending

(* A worker's position within a partition that is its own.                 *)
Positions ==
    /\ \A w \in Worker : worker[w].pc = "ended" => next > Partitions
    /\ \A w \in Worker : worker[w].pc # "ended" =>
          /\ worker[w].part \in 1..(next - 1)
          /\ worker[w].last >= startKey(worker[w].part)
          /\ worker[w].keys \subseteq PartKeys(worker[w].part)
          /\ \A k \in worker[w].keys : k <= worker[w].last
    /\ \A w, v \in Worker :
          (worker[w].pc # "ended" /\ worker[v].pc # "ended" /\ w # v) =>
              worker[w].part # worker[v].part

WorkerInv ==
    phase \in Scanning =>
        /\ Positions
        /\ phase # "scan" => \A w \in Worker : worker[w].pc = "ended"

Counts(k) == accounts[k] >= MinBalance /\ AddressesOf(k) # {}

(* What the lines written so far come from, and which are there.           *)
FileInv ==
    phase \in Scanning =>
        /\ unwritten \subseteq Processed
        /\ \A k \in Processed \ unwritten :
              Counts(k) => getEvmAddress(k, mapped) \in DOMAIN file
        /\ \A a \in DOMAIN file :
              \E k \in (AccountsFor(a) \cap Processed) \ unwritten : file[a] = accounts[k]

TreeInv ==
    /\ phase # "done" => tree = EmptyTree
    /\ phase = "done" => /\ tree = bulkInsert(EmptyTree, LeavesOf(file))
                         /\ Cardinality(DOMAIN file) <= Capacity

SnapshotInv ==
    /\ SnapshotTypeOK /\ ShapeInv /\ SearchInv /\ MappedInv /\ WorkerInv /\ FileInv /\ TreeInv

-----------------------------------------------------------------------------
(* Finite sets of numbers, and pages of them *)

LEMMA LeastIsLeast ==
  ASSUME NEW S \in SUBSET Nat, S # {}
  PROVE  Least(S) \in S /\ \A y \in S : Least(S) <= y
BY LeastNat DEF Least

LEMMA LargestExists ==
  \A n \in Nat : \A S \in SUBSET Nat :
      IsFiniteSet(S) /\ Cardinality(S) = n + 1 => \E x \in S : \A y \in S : y <= x
<1> DEFINE T == {n \in Nat : \A S \in SUBSET Nat :
                   IsFiniteSet(S) /\ Cardinality(S) = n + 1 => \E x \in S : \A y \in S : y <= x}
<1>1. 0 \in T
  <2> SUFFICES ASSUME NEW S \in SUBSET Nat, IsFiniteSet(S), Cardinality(S) = 1
               PROVE  \E x \in S : \A y \in S : y <= x
    OBVIOUS
  <2>1. PICK x : S = {x}
    BY FS_Singleton
  <2> QED BY <2>1
<1>2. ASSUME NEW n \in Nat, n \in T PROVE n + 1 \in T
  <2> SUFFICES ASSUME NEW S \in SUBSET Nat, IsFiniteSet(S), Cardinality(S) = n + 2
               PROVE  \E x \in S : \A y \in S : y <= x
    OBVIOUS
  <2>1. S # {}
    BY FS_EmptySet
  <2>2. PICK s \in S : TRUE
    BY <2>1
  <2>3. IsFiniteSet(S \ {s}) /\ Cardinality(S \ {s}) = n + 1
    BY FS_RemoveElement
  <2>4. PICK x \in S \ {s} : \A y \in S \ {s} : y <= x
    BY <1>2, <2>3
  <2>5. CASE s <= x
    BY <2>4, <2>5
  <2>6. CASE ~(s <= x)
    BY <2>2, <2>4, <2>6
  <2> QED BY <2>5, <2>6
<1> SUFFICES ASSUME NEW n \in Nat PROVE n \in T
  OBVIOUS
<1>3. 0..n \subseteq T
  <2> HIDE DEF T
  <2> QED BY <1>1, <1>2, UpTo
<1> HIDE DEF T
<1> QED BY <1>3

LEMMA LargestIsLargest ==
  ASSUME NEW S \in SUBSET Nat, IsFiniteSet(S), S # {}
  PROVE  Largest(S) \in S /\ \A y \in S : y <= Largest(S)
<1>1. Cardinality(S) \in Nat /\ Cardinality(S) # 0
  BY FS_CardinalityType, FS_EmptySet
<1>2. Cardinality(S) - 1 \in Nat /\ Cardinality(S) = (Cardinality(S) - 1) + 1
  BY <1>1
<1>3. \E x \in S : \A y \in S : y <= x
  BY <1>2, LargestExists
<1> QED BY <1>3 DEF Largest

(***************************************************************************)
(* A page takes elements from the start of the set, it is not empty unless *)
(* the set is, and one that is not full takes them all.                    *)
(***************************************************************************)
LEMMA PageOfSet ==
  ASSUME NEW S \in SUBSET Nat, IsFiniteSet(S), NEW n \in Nat \ {0}
  PROVE  /\ FirstOf(S, n) \subseteq S
         /\ IsFiniteSet(FirstOf(S, n))
         /\ \A k \in FirstOf(S, n) : \A j \in S : j <= k => j \in FirstOf(S, n)
         /\ S # {} => Least(S) \in FirstOf(S, n)
         /\ Cardinality(FirstOf(S, n)) < n => FirstOf(S, n) = S
<1> DEFINE upTo(k) == {j \in S : j <= k}
           page    == FirstOf(S, n)
<1>1. page = {k \in S : Cardinality(upTo(k)) <= n}
  BY DEF FirstOf
<1>2. \A k : IsFiniteSet(upTo(k)) /\ Cardinality(upTo(k)) \in Nat
  <2> TAKE k
  <2>1. upTo(k) \in SUBSET S
    OBVIOUS
  <2> HIDE DEF upTo
  <2> QED BY <2>1, FS_Subset, FS_CardinalityType
<1> HIDE DEF page
<1>3. page \subseteq S /\ IsFiniteSet(page)
  <2>1. page \in SUBSET S
    BY <1>1
  <2> QED BY <2>1, FS_Subset
<1>4. ASSUME NEW k \in page, NEW j \in S, j <= k PROVE j \in page
  <2>1. upTo(j) \in SUBSET upTo(k)
    <3>1. j \in Nat /\ k \in Nat /\ \A i \in S : i \in Nat
      BY <1>3
    <3>2. \A i \in S : i <= j => i <= k
      BY <1>4, <3>1
    <3> QED BY <3>2
  <2>2. Cardinality(upTo(j)) <= Cardinality(upTo(k))
    <3> HIDE DEF upTo
    <3> QED BY <1>2, <2>1, FS_Subset
  <2>3. Cardinality(upTo(k)) <= n
    BY <1>1
  <2>4. Cardinality(upTo(j)) <= n
    <3> HIDE DEF upTo
    <3> QED BY <1>2, <2>2, <2>3
  <2> QED BY <1>1, <2>4
<1>5. ASSUME S # {} PROVE Least(S) \in page
  <2>1. Least(S) \in S /\ \A y \in S : Least(S) <= y
    BY <1>5, LeastIsLeast
  <2>2. upTo(Least(S)) = {Least(S)}
    <3> DEFINE l == Least(S)
    <3>1. l \in S /\ \A y \in S : l <= y /\ y \in Nat
      BY <2>1
    <3> HIDE DEF l
    <3>2. \A j \in S : j <= l <=> j = l
      BY <3>1
    <3>3. {j \in S : j <= l} = {l}
      BY <3>1, <3>2, Zenon
    <3> QED BY <3>3 DEF l
  <2>3. Cardinality(upTo(Least(S))) = 1
    BY <2>2, FS_Singleton
  <2> QED BY <1>1, <2>1, <2>3
<1>6. ASSUME Cardinality(page) < n PROVE page = S
  <2> SUFFICES ASSUME S \ page # {} PROVE FALSE
    BY <1>3
  <2> DEFINE m == Least(S \ page)
  <2>1. m \in S \ page /\ \A y \in S \ page : m <= y
    <3>1. S \ page \in SUBSET Nat
      OBVIOUS
    <3> QED BY <3>1, LeastIsLeast
  <2> HIDE DEF m
  <2>2. upTo(m) = page \cup {m}
    <3>1. \A j \in S : j \in Nat
      OBVIOUS
    <3>2. \A j \in page : j <= m
      BY <1>3, <1>4, <2>1, <3>1
    <3>3. \A j \in S : j <= m => j \in page \/ j = m
      BY <2>1, <3>1
    <3> QED BY <1>3, <2>1, <3>1, <3>2, <3>3
  <2>3. Cardinality(page \cup {m}) = Cardinality(page) + 1
    BY <1>3, <2>1, FS_AddElement
  <2>4. Cardinality(upTo(m)) <= n
    <3>1. Cardinality(page) \in Nat
      BY <1>3, FS_CardinalityType
    <3>2. Cardinality(upTo(m)) = Cardinality(page) + 1
      BY <2>2, <2>3
    <3> HIDE DEF upTo
    <3> QED BY <1>6, <3>1, <3>2
  <2> QED BY <1>1, <2>1, <2>4
<1> QED BY <1>3, <1>4, <1>5, <1>6 DEF page

(* The values of a function on a finite set are finitely many.             *)
LEMMA FiniteValues ==
  ASSUME NEW f, IsFiniteSet(DOMAIN f)
  PROVE  IsFiniteSet({f[x] : x \in DOMAIN f})
<1> DEFINE T == {f[x] : x \in DOMAIN f}
           g == [x \in DOMAIN f |-> f[x]]
<1>1. g \in Surjection(DOMAIN f, T)
  BY DEF Surjection
<1> HIDE DEF g, T
<1>2. IsFiniteSet(T)
  BY <1>1, FS_Surjection
<1> QED BY <1>2 DEF T

-----------------------------------------------------------------------------
(* The search *)

(* What ChainAssumption says of the chain the search looks at.             *)
LEMMA ChainFacts ==
  ASSUME chain \in Chain
  PROVE  /\ currentBlock \in Nat \ {0}
         /\ Estimate(chain) \in Int
         /\ \A b, d \in 1..currentBlock : b <= d /\ IsToday(b) => IsToday(d)
         /\ IsToday(currentBlock) =>
               /\ Estimate(chain) <= currentBlock /\ Estimate(chain) + Margin >= 1
               /\ \A b \in 1..currentBlock : /\ b < Estimate(chain) - Reach => ~IsToday(b)
                                             /\ b >= Estimate(chain) + Reach => IsToday(b)
<1> DEFINE times == chain.timestamps
           last  == times[Len(times)]
<1>1. times \in Seq(Int) /\ times # <<>> /\ chain.midnight \in Int
  BY ChainAssumption
<1>2. HeadOf(chain) = Len(times) /\ Len(times) \in Nat \ {0} /\ last \in Int
  BY <1>1 DEF HeadOf
<1>3. \A b \in 1..HeadOf(chain) : times[b] \in Int
  BY <1>1 DEF HeadOf
<1>4. Estimate(chain) = Len(times) - (last - chain.midnight) \div 6
  BY DEF Estimate, HeadOf
<1>5. Estimate(chain) \in Int /\ (last >= chain.midnight => Estimate(chain) <= Len(times))
  BY <1>1, <1>2, <1>4
<1>6. ASSUME NEW b \in 1..currentBlock, NEW d \in 1..currentBlock, b <= d, IsToday(b)
      PROVE  IsToday(d)
  <2>1. times[b] <= times[d]
    BY <1>6, ChainAssumption DEF currentBlock
  <2>2. times[b] >= chain.midnight
    BY <1>6 DEF IsToday
  <2>3. times[b] \in Int /\ times[d] \in Int
    BY <1>3 DEF currentBlock
  <2> HIDE DEF times
  <2>4. times[d] >= chain.midnight
    BY <1>1, <2>1, <2>2, <2>3
  <2> QED BY <2>4 DEF IsToday, times
<1>7. ASSUME IsToday(currentBlock)
      PROVE  /\ Estimate(chain) + Margin >= 1
             /\ \A b \in 1..currentBlock :
                   /\ b < Estimate(chain) - Reach => times[b] < chain.midnight
                   /\ b >= Estimate(chain) + Reach => times[b] >= chain.midnight
  <2>1. times[HeadOf(chain)] >= chain.midnight
    BY <1>7 DEF IsToday, currentBlock
  <2> QED BY <2>1, ChainAssumption DEF currentBlock
<1>8. \A b \in 1..currentBlock : times[b] < chain.midnight => ~IsToday(b)
  BY <1>1, <1>3 DEF IsToday, currentBlock
<1>9. \A b \in 1..currentBlock : times[b] >= chain.midnight => IsToday(b)
  BY DEF IsToday
<1>10. ASSUME IsToday(currentBlock) PROVE Estimate(chain) <= currentBlock
  BY <1>2, <1>5, <1>10 DEF IsToday, currentBlock
<1>11. currentBlock \in Nat \ {0}
  BY <1>2 DEF currentBlock
<1> HIDE DEF times
<1> QED BY <1>5, <1>6, <1>7, <1>8, <1>9, <1>10, <1>11

(* The margins double.                                                     *)
LEMMA Margins ==
  /\ \A e \in Nat : Margin * Pow2[e] \in Nat \ {0}
  /\ \A e \in Nat : Margin * Pow2[e + 1] = Margin * Pow2[e] + Margin * Pow2[e]
  /\ Margin * Pow2[0] = Margin
  /\ Margin \in Nat \ {0} /\ MaxExpansions \in Nat
<1>1. Margin \in Nat \ {0} /\ MaxExpansions \in Nat
  BY ChainAssumption
<1>2. \A m, p \in Nat \ {0} : m * p \in Nat \ {0} /\ m * (2 * p) = m * p + m * p /\ m * 1 = m
  OBVIOUS
<1> QED BY <1>1, <1>2, Pow2Equation

(* What the search leaves alone.                                           *)
LEMMA SearchFrame ==
  ASSUME SnapshotInv, phase \in Searching, phase' \in Searching \cup {"mapped"},
         UNCHANGED <<chain, mapVars, scanVars, timeouts, tree>>,
         phase' \in Searching => UNCHANGED snapshotBlock,
         phase' = "mapped" => snapshotBlock' \in 1..currentBlock,
         window' \in [lo : Int, hi : Int, expansions : Int],
         window'.lo \in 1..currentBlock, window'.hi \in window'.lo..currentBlock,
         window'.expansions \in 0..MaxExpansions
  PROVE  SnapshotTypeOK' /\ ShapeInv' /\ MappedInv' /\ WorkerInv' /\ FileInv' /\ TreeInv'
<1> USE DEF Searching, Scanning, SnapshotInv, mapVars, scanVars
<1>1. snapshotBlock = 0 /\ currentBlock' = currentBlock /\ currentBlock \in Nat \ {0}
  BY ChainFacts DEF SnapshotTypeOK, currentBlock
<1>2. mapped = [k \in {} |-> 0] /\ lastMapped = 0
  BY DEF ShapeInv
<1>3. DOMAIN mapped' = {}
  BY <1>2
<1>4. SnapshotTypeOK'
  <2>1. chain' \in Chain /\ snapshotBlock' \in 0..currentBlock'
    BY <1>1 DEF SnapshotTypeOK
  <2>2. /\ phase' \in Searching => snapshotBlock' = 0
        /\ snapshotBlock' = 0 => phase' \in Searching
    BY <1>1
  <2>3. /\ next' \in 1..(Partitions + 1)
        /\ \A w \in Worker : worker'[w].pc = "values" <=> worker'[w].keys # {}
        /\ \A w \in Worker : worker'[w].attempt \in 1..MaxRetries
        /\ timeouts' \in 0..MaxTimeouts
        /\ tree'.nextIndex \in 0..Capacity
    BY DEF SnapshotTypeOK
  <2> QED BY <1>1, <1>3, <2>1, <2>2, <2>3 DEF SnapshotTypeOK
<1>5. ShapeInv'
  BY DEF ShapeInv
<1>6. MappedInv'
  <2>1. CASE phase' = "mapped"
    <3>1. snapshotBlock' \in 1..HeadOf(chain)
      BY <2>1 DEF currentBlock
    <3>2. DOMAIN original' \subseteq Nat \ {0}
      BY <3>1, StorageAssumption DEF original, SnapshotTypeOK
    <3>3. {x \in DOMAIN original' : x <= lastMapped'} = {}
      BY <1>2, <3>2
    <3> QED BY <1>3, <2>1, <3>3 DEF MappedInv
  <2>2. CASE phase' # "mapped"
    BY <2>2 DEF MappedInv
  <2> QED BY <2>1, <2>2
<1>7. WorkerInv' /\ FileInv' /\ TreeInv'
  BY DEF WorkerInv, FileInv, TreeInv
<1> QED BY <1>4, <1>5, <1>6, <1>7

(* No block of today: the last one is taken.                               *)
LEMMA NothingToday ==
  ASSUME chain \in Chain, ~IsToday(currentBlock)
  PROVE  {b \in 1..currentBlock : IsToday(b)} = {}
BY ChainFacts

(* The first block of today is the one with none of today before it.       *)
LEMMA FirstToday ==
  ASSUME chain \in Chain, NEW b \in 1..currentBlock, IsToday(b), BeforeMidnight(b)
  PROVE  /\ {d \in 1..currentBlock : IsToday(d)} # {}
         /\ b = Least({d \in 1..currentBlock : IsToday(d)})
<1> DEFINE today == {d \in 1..currentBlock : IsToday(d)}
<1>1. currentBlock \in Nat
  BY ChainFacts
<1>2. b \in today /\ today \in SUBSET Nat
  BY <1>1
<1>3. \A d \in today : b <= d
  BY <1>1 DEF BeforeMidnight
<1> HIDE DEF today
<1>4. Least(today) \in today /\ Least(today) <= b
  BY <1>2, LeastIsLeast
<1>5. b = Least(today)
  <2>1. b \in Nat /\ Least(today) \in Nat /\ b <= Least(today)
    BY <1>1, <1>2, <1>3, <1>4
  <2> QED BY <1>4, <2>1
<1> QED BY <1>2, <1>5 DEF today

LEMMA StartSearchKeeps == SnapshotInv /\ StartSearch => SnapshotInv'
<1> SUFFICES ASSUME SnapshotInv, StartSearch PROVE SnapshotInv'
  OBVIOUS
<1> DEFINE E == Estimate(chain)
<1>1. chain \in Chain /\ phase = "start" /\ snapshotBlock = 0
  BY DEF SnapshotInv, SnapshotTypeOK, StartSearch
<1>2. /\ currentBlock \in Nat \ {0} /\ E \in Int
      /\ IsToday(currentBlock) => E <= currentBlock /\ E + Margin >= 1
  BY <1>1, ChainFacts
<1>3. Margin \in Nat \ {0} /\ MaxExpansions \in Nat /\ Margin * Pow2[0] = Margin
  BY Margins
<1>4. UNCHANGED <<chain, mapVars, scanVars, timeouts, tree>>
  BY DEF StartSearch
<1> HIDE DEF E
<1>5. CASE IsToday(currentBlock)
  <2>1. /\ window' = [lo |-> AtLeast1(E - Margin), hi |-> UpToHead(E + Margin), expansions |-> 0]
        /\ phase' = "left" /\ UNCHANGED snapshotBlock
    BY <1>5 DEF StartSearch, E
  <2>2. /\ AtLeast1(E - Margin) \in 1..currentBlock
        /\ UpToHead(E + Margin) \in AtLeast1(E - Margin)..currentBlock
    BY <1>2, <1>3, <1>5 DEF AtLeast1, UpToHead
  <2>3. SearchInv'
    <3>1. IsToday(currentBlock)'
      BY <1>4, <1>5 DEF IsToday, currentBlock
    <3>2. AtLeast1(E - Margin * Pow2[0]) = AtLeast1(E - Margin)
      BY <1>3
    <3>3. window'.lo = AtLeast1(E - Margin * Pow2[window'.expansions])
      BY <2>1, <3>2
    <3>4. window'.hi = UpToHead(E + Margin)
      BY <2>1
    <3>5. snapshotBlock' = 0
      BY <1>1, <2>1
    <3> QED BY <1>4, <2>1, <3>1, <3>3, <3>4, <3>5
            DEF SearchInv, SnapshotIsFirstOfToday, AtLeast1, UpToHead, currentBlock, E
  <2>4. /\ window' \in [lo : Int, hi : Int, expansions : Int]
        /\ window'.lo \in 1..currentBlock /\ window'.hi \in window'.lo..currentBlock
        /\ window'.expansions \in 0..MaxExpansions
    BY <1>2, <1>3, <2>1, <2>2
  <2>5. SnapshotTypeOK' /\ ShapeInv' /\ MappedInv' /\ WorkerInv' /\ FileInv' /\ TreeInv'
    BY <1>1, <1>4, <2>1, <2>4, SearchFrame DEF Searching
  <2> QED BY <2>3, <2>5 DEF SnapshotInv
<1>6. CASE ~IsToday(currentBlock)
  <2>1. snapshotBlock' = currentBlock /\ phase' = "mapped" /\ UNCHANGED window
    BY <1>6 DEF StartSearch
  <2>2. /\ window' \in [lo : Int, hi : Int, expansions : Int]
        /\ window'.lo \in 1..currentBlock /\ window'.hi \in window'.lo..currentBlock
        /\ window'.expansions \in 0..MaxExpansions
    BY <2>1 DEF SnapshotInv, SnapshotTypeOK, ShapeInv
  <2>3. SnapshotTypeOK' /\ ShapeInv' /\ MappedInv' /\ WorkerInv' /\ FileInv' /\ TreeInv'
    BY <1>1, <1>2, <1>4, <2>1, <2>2, SearchFrame DEF Searching
  <2>4. {b \in 1..currentBlock : IsToday(b)}' = {}
    BY <1>1, <1>4, <1>6, NothingToday DEF IsToday, currentBlock
  <2>5. SearchInv'
    <3>1. currentBlock' = currentBlock
      BY <1>4 DEF currentBlock
    <3> QED BY <2>1, <2>4, <3>1 DEF SearchInv, SnapshotIsFirstOfToday
  <2> QED BY <2>3, <2>5 DEF SnapshotInv
<1> QED BY <1>5, <1>6

LEMMA ExpandLeftKeeps == SnapshotInv /\ ExpandLeft => SnapshotInv'
<1> SUFFICES ASSUME SnapshotInv, ExpandLeft PROVE SnapshotInv'
  OBVIOUS
<1> DEFINE E  == Estimate(chain)
           e  == window.expansions
           lo == window.lo
<1>1. chain \in Chain /\ phase = "left" /\ snapshotBlock = 0
  BY DEF SnapshotInv, SnapshotTypeOK, ExpandLeft
<1>2. /\ currentBlock \in Nat \ {0} /\ E \in Int /\ IsToday(currentBlock)
      /\ \A b, d \in 1..currentBlock : b <= d /\ IsToday(b) => IsToday(d)
      /\ \A b \in 1..currentBlock : b < E - Reach => ~IsToday(b)
      /\ E + Margin >= 1
  BY <1>1, ChainFacts DEF SnapshotInv, SearchInv
<1>3. /\ window \in [lo : Int, hi : Int, expansions : Int]
      /\ lo \in 1..currentBlock /\ window.hi \in lo..currentBlock /\ e \in 0..MaxExpansions
      /\ lo = AtLeast1(E - Margin * Pow2[e]) /\ window.hi = UpToHead(E + Margin)
  BY <1>1 DEF SnapshotInv, SnapshotTypeOK, ShapeInv, SearchInv
<1>4. /\ MaxExpansions \in Nat /\ Margin * Pow2[0] = Margin /\ Margin * Pow2[e] \in Nat \ {0}
      /\ Margin * Pow2[e + 1] = Margin * Pow2[e] + Margin * Pow2[e]
  BY <1>3, Margins
<1>5. UNCHANGED <<chain, snapshotBlock, mapVars, scanVars, timeouts, tree>>
  BY DEF ExpandLeft
<1>6. /\ IsToday(currentBlock)' /\ currentBlock' = currentBlock
      /\ SnapshotIsFirstOfToday'
  BY <1>1, <1>2, <1>5 DEF IsToday, currentBlock, SnapshotIsFirstOfToday
<1>7. CASE IsToday(lo) /\ lo > 1 /\ e < MaxExpansions
  <2> DEFINE l == AtLeast1(lo - Margin * Pow2[e])
  <2>1. window' = [window EXCEPT !.lo = l, !.expansions = e + 1] /\ phase' = "left"
    BY <1>1, <1>7 DEF ExpandLeft
  <2>2. l = AtLeast1(E - Margin * Pow2[e + 1]) /\ l \in 1..lo
    <3> DEFINE m == Margin * Pow2[e]
               n == Margin * Pow2[e + 1]
    <3>1. m \in Nat \ {0} /\ n = m + m /\ lo = AtLeast1(E - m) /\ lo > 1 /\ lo \in Nat /\ E \in Int
      BY <1>2, <1>3, <1>4, <1>7
    <3> HIDE DEF m, n, lo, E
    <3>2. AtLeast1(lo - m) = AtLeast1(E - n) /\ AtLeast1(lo - m) \in 1..lo
      BY <3>1 DEF AtLeast1
    <3> QED BY <3>2 DEF m, n
  <2> HIDE DEF l
  <2>3. window'.lo = l /\ window'.hi = window.hi /\ window'.expansions = e + 1
    BY <1>3, <2>1
  <2>4. /\ window' \in [lo : Int, hi : Int, expansions : Int]
        /\ window'.lo \in 1..currentBlock /\ window'.hi \in window'.lo..currentBlock
        /\ window'.expansions \in 0..MaxExpansions
    <3>1. e + 1 \in 0..MaxExpansions
      BY <1>3, <1>4, <1>7
    <3>2. window' \in [lo : Int, hi : Int, expansions : Int]
      <4>1. l \in Int /\ e + 1 \in Int
        BY <1>2, <1>3, <2>2, <3>1
      <4>2. window \in [lo : Int, hi : Int, expansions : Int]
        BY <1>3
      <4> HIDE DEF e, lo
      <4> QED BY <2>1, <4>1, <4>2
    <3>3. window'.lo \in 1..currentBlock /\ window'.hi \in window'.lo..currentBlock
      BY <1>2, <1>3, <2>2, <2>3
    <3> QED BY <2>3, <3>1, <3>2, <3>3
  <2>5. SnapshotTypeOK' /\ ShapeInv' /\ MappedInv' /\ WorkerInv' /\ FileInv' /\ TreeInv'
    BY <1>1, <1>5, <2>1, <2>4, SearchFrame DEF Searching
  <2>6. SearchInv'
    <3>1. /\ window'.lo = AtLeast1(E - Margin * Pow2[window'.expansions])
          /\ window'.hi = UpToHead(E + Margin)
      BY <1>3, <2>2, <2>3
    <3>2. UpToHead(E + Margin)' = UpToHead(E + Margin) /\ E' = E
      BY <1>5, <1>6 DEF UpToHead
    <3> QED BY <1>6, <2>1, <3>1, <3>2 DEF SearchInv, AtLeast1
  <2> QED BY <2>5, <2>6 DEF SnapshotInv
<1>8. CASE ~(IsToday(lo) /\ lo > 1 /\ e < MaxExpansions)
  <2>1. window' = [window EXCEPT !.expansions = 0] /\ phase' = "right"
    BY <1>8 DEF ExpandLeft
  <2>2. window'.lo = lo /\ window'.hi = window.hi /\ window'.expansions = 0
    BY <1>3, <2>1
  <2>3. /\ window' \in [lo : Int, hi : Int, expansions : Int]
        /\ window'.lo \in 1..currentBlock /\ window'.hi \in window'.lo..currentBlock
        /\ window'.expansions \in 0..MaxExpansions
    BY <1>2, <1>3, <1>4, <2>1, <2>2
  <2>4. SnapshotTypeOK' /\ ShapeInv' /\ MappedInv' /\ WorkerInv' /\ FileInv' /\ TreeInv'
    BY <1>1, <1>5, <2>1, <2>3, SearchFrame DEF Searching
  <2>5. BeforeMidnight(lo)
    <3> SUFFICES ASSUME NEW b \in 1..(lo - 1) PROVE ~IsToday(b)
      BY DEF BeforeMidnight
    <3>1. b \in 1..currentBlock /\ b <= lo /\ b < lo
      BY <1>2, <1>3
    <3>2. CASE ~IsToday(lo)
      BY <1>2, <1>3, <3>1, <3>2
    <3>3. CASE lo <= 1
      BY <1>2, <1>3, <3>1, <3>3
    <3>4. CASE lo > 1 /\ e >= MaxExpansions
      <4>1. e = MaxExpansions
        BY <1>3, <1>4, <3>4
      <4>2. lo = E - Reach
        <5>1. lo = AtLeast1(E - Reach) /\ lo > 1
          BY <1>3, <3>4, <4>1 DEF Reach
        <5> HIDE DEF lo, E
        <5> QED BY <5>1 DEF AtLeast1
      <4> QED BY <1>2, <3>1, <4>2
    <3> QED BY <1>2, <1>3, <1>4, <1>8, <3>2, <3>3, <3>4
  <2>6. SearchInv'
    <3>1. window'.hi = UpToHead(E + Margin * Pow2[window'.expansions])
      BY <1>3, <1>4, <2>2
    <3>2. \A x : UpToHead(x)' = UpToHead(x)
      BY <1>6 DEF UpToHead
    <3>3. BeforeMidnight(window.lo)'
      BY <1>5, <2>2, <2>5 DEF BeforeMidnight, IsToday
    <3> QED BY <1>5, <1>6, <2>1, <3>1, <3>2, <3>3 DEF SearchInv, UpToHead, currentBlock
  <2> QED BY <2>4, <2>6 DEF SnapshotInv
<1> QED BY <1>7, <1>8

LEMMA ExpandRightKeeps == SnapshotInv /\ ExpandRight => SnapshotInv'
<1> SUFFICES ASSUME SnapshotInv, ExpandRight PROVE SnapshotInv'
  OBVIOUS
<1> DEFINE E  == Estimate(chain)
           e  == window.expansions
           hi == window.hi
<1>1. chain \in Chain /\ phase = "right" /\ snapshotBlock = 0
  BY DEF SnapshotInv, SnapshotTypeOK, ExpandRight
<1>2. /\ currentBlock \in Nat \ {0} /\ E \in Int /\ IsToday(currentBlock)
      /\ \A b \in 1..currentBlock : b >= E + Reach => IsToday(b)
  BY <1>1, ChainFacts DEF SnapshotInv, SearchInv
<1>3. /\ window \in [lo : Int, hi : Int, expansions : Int]
      /\ window.lo \in 1..currentBlock /\ hi \in window.lo..currentBlock /\ e \in 0..MaxExpansions
      /\ hi = UpToHead(E + Margin * Pow2[e]) /\ BeforeMidnight(window.lo)
  BY <1>1 DEF SnapshotInv, SnapshotTypeOK, ShapeInv, SearchInv
<1>4. /\ MaxExpansions \in Nat /\ Margin * Pow2[e] \in Nat \ {0}
      /\ Margin * Pow2[e + 1] = Margin * Pow2[e] + Margin * Pow2[e]
  BY <1>3, Margins
<1>5. UNCHANGED <<chain, snapshotBlock, mapVars, scanVars, timeouts, tree>>
  BY DEF ExpandRight
<1>6. /\ IsToday(currentBlock)' /\ currentBlock' = currentBlock
      /\ SnapshotIsFirstOfToday'
  BY <1>1, <1>2, <1>5 DEF IsToday, currentBlock, SnapshotIsFirstOfToday
<1>7. CASE ~IsToday(hi) /\ hi < currentBlock /\ e < MaxExpansions
  <2> DEFINE h == UpToHead(hi + Margin * Pow2[e])
  <2>1. window' = [window EXCEPT !.hi = h, !.expansions = e + 1] /\ phase' = "right"
    BY <1>1, <1>7 DEF ExpandRight
  <2>2. h = UpToHead(E + Margin * Pow2[e + 1]) /\ h \in hi..currentBlock
    <3> DEFINE m == Margin * Pow2[e]
               n == Margin * Pow2[e + 1]
    <3>1. /\ m \in Nat \ {0} /\ n = m + m /\ hi = UpToHead(E + m) /\ hi < currentBlock
          /\ hi \in Int /\ E \in Int /\ currentBlock \in Nat
      BY <1>2, <1>3, <1>4, <1>7
    <3> HIDE DEF m, n, hi, E
    <3>2. UpToHead(hi + m) = UpToHead(E + n) /\ UpToHead(hi + m) \in hi..currentBlock
      BY <3>1 DEF UpToHead
    <3> QED BY <3>2 DEF m, n
  <2> HIDE DEF h
  <2>3. window'.lo = window.lo /\ window'.hi = h /\ window'.expansions = e + 1
    BY <1>3, <2>1
  <2>4. /\ window' \in [lo : Int, hi : Int, expansions : Int]
        /\ window'.lo \in 1..currentBlock /\ window'.hi \in window'.lo..currentBlock
        /\ window'.expansions \in 0..MaxExpansions
    <3>1. e + 1 \in 0..MaxExpansions
      BY <1>3, <1>4, <1>7
    <3>2. window' \in [lo : Int, hi : Int, expansions : Int]
      <4>1. h \in Int /\ e + 1 \in Int
        BY <1>2, <1>3, <2>2, <3>1
      <4>2. window \in [lo : Int, hi : Int, expansions : Int]
        BY <1>3
      <4> HIDE DEF e, hi
      <4> QED BY <2>1, <4>1, <4>2
    <3>3. window'.lo \in 1..currentBlock /\ window'.hi \in window'.lo..currentBlock
      BY <1>2, <1>3, <2>2, <2>3
    <3> QED BY <2>3, <3>1, <3>2, <3>3
  <2>5. SnapshotTypeOK' /\ ShapeInv' /\ MappedInv' /\ WorkerInv' /\ FileInv' /\ TreeInv'
    BY <1>1, <1>5, <2>1, <2>4, SearchFrame DEF Searching
  <2>6. SearchInv'
    <3>1. window'.hi = UpToHead(E + Margin * Pow2[window'.expansions])
      BY <2>2, <2>3
    <3>2. \A x : UpToHead(x)' = UpToHead(x)
      BY <1>6 DEF UpToHead
    <3>3. BeforeMidnight(window.lo)'
      BY <1>3, <1>5, <2>3 DEF BeforeMidnight, IsToday
    <3> QED BY <1>5, <1>6, <2>1, <3>1, <3>2, <3>3 DEF SearchInv, UpToHead, currentBlock
  <2> QED BY <2>5, <2>6 DEF SnapshotInv
<1>8. CASE ~(~IsToday(hi) /\ hi < currentBlock /\ e < MaxExpansions)
  <2>1. UNCHANGED window /\ phase' = "bisect"
    BY <1>8 DEF ExpandRight
  <2>2. SnapshotTypeOK' /\ ShapeInv' /\ MappedInv' /\ WorkerInv' /\ FileInv' /\ TreeInv'
    BY <1>1, <1>3, <1>5, <2>1, SearchFrame DEF Searching
  <2>3. IsToday(hi)
    <3>1. CASE hi >= currentBlock
      BY <1>2, <1>3, <3>1
    <3>2. CASE hi < currentBlock /\ e >= MaxExpansions
      <4>1. e = MaxExpansions
        BY <1>3, <1>4, <3>2
      <4>2. hi = E + Reach
        <5>1. hi = UpToHead(E + Reach) /\ hi < currentBlock
          BY <1>3, <3>2, <4>1 DEF Reach
        <5>2. currentBlock \in Int
          BY <1>2
        <5> HIDE DEF hi, E
        <5> QED BY <5>1, <5>2 DEF UpToHead
      <4> QED BY <1>2, <1>3, <4>2
    <3> QED BY <1>2, <1>3, <1>4, <1>8, <3>1, <3>2
  <2>4. SearchInv'
    <3>1. IsToday(window.hi)' /\ BeforeMidnight(window.lo)'
      BY <1>3, <1>5, <2>1, <2>3 DEF BeforeMidnight, IsToday
    <3> QED BY <1>6, <2>1, <3>1 DEF SearchInv
  <2> QED BY <2>2, <2>4 DEF SnapshotInv
<1> QED BY <1>7, <1>8

LEMMA BisectKeeps == SnapshotInv /\ Bisect => SnapshotInv'
<1> SUFFICES ASSUME SnapshotInv, Bisect PROVE SnapshotInv'
  OBVIOUS
<1> DEFINE lo  == window.lo
           hi  == window.hi
           mid == (lo + hi) \div 2
<1>1. chain \in Chain /\ phase = "bisect" /\ snapshotBlock = 0
  BY DEF SnapshotInv, SnapshotTypeOK, Bisect
<1>2. /\ currentBlock \in Nat \ {0} /\ IsToday(currentBlock)
      /\ \A b, d \in 1..currentBlock : b <= d /\ IsToday(b) => IsToday(d)
  BY <1>1, ChainFacts DEF SnapshotInv, SearchInv
<1>3. /\ window \in [lo : Int, hi : Int, expansions : Int]
      /\ lo \in 1..currentBlock /\ hi \in lo..currentBlock
      /\ window.expansions \in 0..MaxExpansions
      /\ BeforeMidnight(lo) /\ IsToday(hi)
  BY <1>1 DEF SnapshotInv, SnapshotTypeOK, ShapeInv, SearchInv
<1>4. UNCHANGED <<chain, mapVars, scanVars, timeouts, tree>>
  BY DEF Bisect
<1>5. currentBlock' = currentBlock /\ \A b : IsToday(b)' = IsToday(b)
  BY <1>4 DEF IsToday, currentBlock
<1>6. CASE lo < hi
  <2>1. /\ window' = IF IsToday(mid) THEN [window EXCEPT !.hi = mid] ELSE [window EXCEPT !.lo = mid + 1]
        /\ UNCHANGED <<phase, snapshotBlock>>
    BY <1>6 DEF Bisect
  <2>2. mid \in lo..(hi - 1)
    BY <1>2, <1>3, <1>6
  <2>3. BeforeMidnight(window'.lo) /\ IsToday(window'.hi)
    <3>1. CASE IsToday(mid)
      BY <1>3, <2>1, <3>1
    <3>2. CASE ~IsToday(mid)
      <4>1. window'.lo = mid + 1 /\ window'.hi = hi
        BY <1>3, <2>1, <3>2
      <4>2. ASSUME NEW b \in 1..mid PROVE ~IsToday(b)
        <5>1. b \in 1..currentBlock /\ mid \in 1..currentBlock /\ b <= mid
          <6> HIDE DEF mid
          <6> QED BY <1>2, <1>3, <2>2
        <5> QED BY <1>2, <3>2, <5>1
      <4>3. (mid + 1) - 1 = mid
        <5>1. mid \in Int
          BY <1>3, <2>2
        <5> HIDE DEF mid
        <5> QED BY <5>1
      <4> HIDE DEF mid
      <4> QED BY <1>3, <4>1, <4>2, <4>3 DEF BeforeMidnight
    <3> QED BY <3>1, <3>2
  <2>4. /\ window' \in [lo : Int, hi : Int, expansions : Int]
        /\ window'.lo \in 1..currentBlock /\ window'.hi \in window'.lo..currentBlock
        /\ window'.expansions \in 0..MaxExpansions
    <3> HIDE DEF mid
    <3>1. CASE IsToday(mid)
      BY <1>2, <1>3, <2>1, <2>2, <3>1
    <3>2. CASE ~IsToday(mid)
      BY <1>2, <1>3, <2>1, <2>2, <3>2
    <3> QED BY <3>1, <3>2
  <2>5. SnapshotTypeOK' /\ ShapeInv' /\ MappedInv' /\ WorkerInv' /\ FileInv' /\ TreeInv'
    BY <1>1, <1>4, <2>1, <2>4, SearchFrame DEF Searching
  <2>6. SearchInv'
    <3>1. IsToday(window.hi)' /\ BeforeMidnight(window.lo)' /\ IsToday(currentBlock)'
      BY <1>2, <1>5, <2>3 DEF BeforeMidnight
    <3>2. SnapshotIsFirstOfToday'
      BY <1>1, <2>1 DEF SnapshotIsFirstOfToday
    <3> QED BY <1>1, <2>1, <3>1, <3>2 DEF SearchInv
  <2> QED BY <2>5, <2>6 DEF SnapshotInv
<1>7. CASE ~(lo < hi)
  <2>1. snapshotBlock' = lo /\ phase' = "mapped" /\ UNCHANGED window
    BY <1>7 DEF Bisect
  <2>2. lo = hi
    BY <1>2, <1>3, <1>7
  <2>3. SnapshotTypeOK' /\ ShapeInv' /\ MappedInv' /\ WorkerInv' /\ FileInv' /\ TreeInv'
    BY <1>1, <1>2, <1>3, <1>4, <2>1, SearchFrame DEF Searching
  <2>4. /\ {d \in 1..currentBlock : IsToday(d)} # {}
        /\ lo = Least({d \in 1..currentBlock : IsToday(d)})
    BY <1>1, <1>3, <2>2, FirstToday
  <2>5. SnapshotIsFirstOfToday'
    BY <1>5, <2>1, <2>4 DEF SnapshotIsFirstOfToday
  <2>6. SearchInv'
    BY <2>1, <2>5 DEF SearchInv
  <2> QED BY <2>3, <2>6 DEF SnapshotInv
<1> QED BY <1>6, <1>7

-----------------------------------------------------------------------------
(* What a block stores, and the partitions of its keys *)

LEMMA StorageFacts ==
  ASSUME SnapshotTypeOK, snapshotBlock # 0
  PROVE  /\ IsFiniteSet(DOMAIN accounts) /\ DOMAIN accounts \subseteq Nat \ {0}
         /\ IsFiniteSet(DOMAIN original) /\ DOMAIN original \subseteq Nat \ {0}
         /\ \A k \in DOMAIN accounts : accounts[k] \in Nat /\ Derived[k] \in Nat
         /\ \A i \in 1..Len(Bounds) : Bounds[i] \notin DOMAIN accounts
<1>1. chain \in Chain /\ snapshotBlock \in 1..HeadOf(chain)
  <2>1. currentBlock \in Nat
    BY ChainFacts DEF SnapshotTypeOK
  <2> QED BY <2>1 DEF SnapshotTypeOK, currentBlock
<1> QED BY <1>1, StorageAssumption DEF accounts, original

LEMMA Limits ==
  /\ MinBalance \in Nat
  /\ Concurrency \in Nat \ {0} /\ PageSize \in Nat \ {0} /\ BatchSize \in Nat \ {0}
  /\ MaxRetries \in Nat \ {0} /\ MaxTimeouts \in Nat
BY StorageAssumption

LEMMA PartitionFacts ==
  /\ Partitions \in Nat \ {0} /\ Partitions = Len(Bounds) + 1
  /\ \A i \in 1..(Partitions - 1) : Bounds[i] \in Nat
  /\ \A i, j \in 1..(Partitions - 1) : i <= j => Bounds[i] <= Bounds[j]
  /\ \A p \in 1..Partitions : startKey(p) \in Nat
<1>1. Bounds \in Seq(Nat) /\ \A i, j \in 1..Len(Bounds) : i < j => Bounds[i] < Bounds[j]
  BY StorageAssumption
<1>2. Partitions = Len(Bounds) + 1 /\ Len(Bounds) \in Nat /\ Partitions - 1 = Len(Bounds)
  BY <1>1 DEF Partitions
<1>3. \A i \in 1..(Partitions - 1) : Bounds[i] \in Nat
  BY <1>1, <1>2
<1>4. ASSUME NEW i \in 1..(Partitions - 1), NEW j \in 1..(Partitions - 1), i <= j
      PROVE  Bounds[i] <= Bounds[j]
  <2>1. i = j \/ i < j
    BY <1>4
  <2> QED BY <1>1, <1>2, <1>3, <2>1
<1>5. \A p \in 1..Partitions : startKey(p) \in Nat
  BY <1>2, <1>3 DEF startKey
<1> QED BY <1>2, <1>3, <1>4, <1>5

(* The partitions cover the keys.                                          *)
LEMMA EveryKeyHasAPartition ==
  ASSUME SnapshotTypeOK, snapshotBlock # 0, NEW k \in DOMAIN accounts
  PROVE  \E p \in 1..Partitions : k \in PartKeys(p)
<1> DEFINE S == {p \in 1..Partitions : ~IsPast(k, p)}
           p == Least(S)
<1>1. k \in Nat \ {0} /\ \A i \in 1..Len(Bounds) : Bounds[i] # k
  BY StorageFacts
<1>2. Partitions \in S /\ S \in SUBSET Nat
  BY PartitionFacts DEF IsPast
<1>3. p \in S /\ \A q \in S : p <= q
  <2> HIDE DEF S
  <2> QED BY <1>2, LeastIsLeast
<1> HIDE DEF p
<1>4. CASE p = 1
  BY <1>1, <1>3, <1>4 DEF PartKeys, startKey
<1>5. CASE p # 1
  <2>1. p - 1 \in 1..Partitions /\ p - 1 \in 1..Len(Bounds) /\ p - 1 \notin S
    BY <1>3, <1>5, PartitionFacts
  <2>2. k >= Bounds[p - 1]
    BY <2>1 DEF IsPast
  <2>3. k > startKey(p)
    BY <1>1, <1>5, <2>1, <2>2, PartitionFacts DEF startKey
  <2> QED BY <1>3, <2>3 DEF PartKeys
<1> QED BY <1>4, <1>5

(* No key is in two of them.                                               *)
LEMMA PartitionsAreDisjoint ==
  ASSUME SnapshotTypeOK, snapshotBlock # 0, NEW k, NEW p \in 1..Partitions, NEW q \in 1..Partitions,
         k \in PartKeys(p), k \in PartKeys(q)
  PROVE  p = q
<1>1. k \in Nat
  BY StorageFacts DEF PartKeys
<1>2. ASSUME NEW i \in 1..Partitions, NEW j \in 1..Partitions, i < j,
             k \in PartKeys(i), k \in PartKeys(j)
      PROVE  FALSE
  <2>1. i \in 1..(Partitions - 1) /\ j - 1 \in 1..(Partitions - 1) /\ i <= j - 1
    BY <1>2, PartitionFacts
  <2>2. Bounds[i] <= Bounds[j - 1] /\ Bounds[i] \in Nat /\ Bounds[j - 1] \in Nat
    BY <2>1, PartitionFacts
  <2>3. ~(k >= Bounds[i])
    BY <1>2, <2>1, PartitionFacts DEF PartKeys, IsPast
  <2>4. k > Bounds[j - 1]
    BY <1>2, <2>1 DEF PartKeys, startKey
  <2> QED BY <1>1, <2>2, <2>3, <2>4
<1>3. p < q \/ q < p \/ p = q
  BY PartitionFacts
<1> QED BY <1>2, <1>3

LEMMA WorkerStates ==
  /\ Ended \in WorkerState /\ Ended.pc = "ended" /\ Ended.keys = {} /\ Ended.attempt = 1
  /\ \A p, last \in Nat :
        /\ AwaitKeys(p, last) \in WorkerState
        /\ AwaitKeys(p, last).pc = "keys" /\ AwaitKeys(p, last).part = p
        /\ AwaitKeys(p, last).last = last /\ AwaitKeys(p, last).keys = {}
        /\ AwaitKeys(p, last).more = FALSE /\ AwaitKeys(p, last).attempt = 1
BY DEF Ended, AwaitKeys, WorkerState

-----------------------------------------------------------------------------
(* The mapped accounts *)

(* A page of mapped accounts, as far as the map goes.                      *)
LEMMA MappedPage ==
  ASSUME SnapshotInv, FetchMapped
  PROVE  /\ lastMapped' \in Nat
         /\ DOMAIN mapped' \subseteq {original[a] : a \in DOMAIN original}
         /\ \A k \in DOMAIN mapped' : mapped'[k] \in DOMAIN original /\ original[mapped'[k]] = k
         /\ phase' \in {"mapped", "scan"}
         /\ phase' = "mapped" =>
               /\ DOMAIN mapped' = {original[a] : a \in {x \in DOMAIN original : x <= lastMapped'}}
               /\ UNCHANGED <<phase, worker, next>>
         /\ phase' = "scan" =>
               /\ DOMAIN mapped' = {original[a] : a \in DOMAIN original}
               /\ worker' = [w \in Worker |-> IF w > Partitions THEN Ended
                                               ELSE AwaitKeys(w, startKey(w))]
               /\ next' = IF Concurrency > Partitions THEN Partitions + 1 ELSE Concurrency + 1
<1> DEFINE S    == {a \in DOMAIN original : a > lastMapped}
           page == FirstOf(S, PageSize)
           keys == {original[a] : a \in page}
           From(k) == {a \in page : original[a] = k}
<1>1. phase = "mapped" /\ snapshotBlock # 0 /\ SnapshotTypeOK /\ lastMapped \in Nat
  BY DEF SnapshotInv, SnapshotTypeOK, ShapeInv, FetchMapped
<1>2. IsFiniteSet(DOMAIN original) /\ DOMAIN original \subseteq Nat \ {0}
  BY <1>1, StorageFacts
<1>3. S \in SUBSET Nat /\ IsFiniteSet(S)
  <2>1. S \in SUBSET DOMAIN original
    OBVIOUS
  <2> QED BY <1>2, <2>1, FS_Subset
<1>4. PageSize \in Nat \ {0}
  BY Limits
<1>5. /\ mapped' = [k \in DOMAIN mapped \cup keys |-> IF k \in keys THEN Largest(From(k)) ELSE mapped[k]]
      /\ lastMapped' = IF page = {} THEN lastMapped ELSE Largest(page)
      /\ IF Cardinality(page) < PageSize
         THEN /\ phase' = "scan"
              /\ worker' = [w \in Worker |-> IF w > Partitions THEN Ended
                                               ELSE AwaitKeys(w, startKey(w))]
              /\ next' = IF Concurrency > Partitions THEN Partitions + 1 ELSE Concurrency + 1
         ELSE UNCHANGED <<phase, worker, next>>
  BY DEF FetchMapped, PageAfter
<1> HIDE DEF S
<1>6. /\ page \subseteq S /\ IsFiniteSet(page)
      /\ \A k \in page : \A j \in S : j <= k => j \in page
      /\ Cardinality(page) < PageSize => page = S
  BY <1>3, <1>4, PageOfSet
<1> HIDE DEF page
<1>7. page \subseteq DOMAIN original /\ page \in SUBSET Nat /\ \A a \in page : a > lastMapped
  BY <1>3, <1>6 DEF S
<1>8. page # {} => Largest(page) \in page /\ \A a \in page : a <= Largest(page)
  BY <1>6, <1>7, LargestIsLargest
<1>9. lastMapped' \in Nat
  BY <1>1, <1>5, <1>7, <1>8
<1>10. ASSUME NEW k \in keys PROVE Largest(From(k)) \in page /\ original[Largest(From(k))] = k
  <2>1. From(k) \in SUBSET page /\ From(k) # {}
    OBVIOUS
  <2>2. IsFiniteSet(From(k)) /\ From(k) \in SUBSET Nat
    <3> HIDE DEF From
    <3> QED BY <1>6, <1>7, <2>1, FS_Subset
  <2>3. Largest(From(k)) \in From(k)
    <3> HIDE DEF From
    <3> QED BY <2>1, <2>2, LargestIsLargest
  <2> QED BY <2>3
<1>11. /\ DOMAIN mapped = {original[a] : a \in {x \in DOMAIN original : x <= lastMapped}}
       /\ \A k \in DOMAIN mapped : mapped[k] \in DOMAIN original /\ original[mapped[k]] = k
  BY <1>1 DEF SnapshotInv, MappedInv
<1>12. DOMAIN mapped' = {original[a] : a \in {x \in DOMAIN original : x <= lastMapped}} \cup keys
  BY <1>5, <1>11
<1>13. ASSUME NEW k \in DOMAIN mapped'
       PROVE  mapped'[k] \in DOMAIN original /\ original[mapped'[k]] = k
  <2>1. CASE k \in keys
    <3>1. mapped'[k] = Largest(From(k))
      <4> HIDE DEF keys, From
      <4> QED BY <1>5, <2>1
    <3> QED BY <1>7, <1>10, <2>1, <3>1
  <2>2. CASE k \notin keys
    <3> HIDE DEF keys, From
    <3>1. k \in DOMAIN mapped /\ mapped'[k] = mapped[k]
      BY <1>5, <2>2
    <3> QED BY <1>11, <3>1
  <2> QED BY <2>1, <2>2
<1>14. ASSUME Cardinality(page) < PageSize
       PROVE  DOMAIN mapped' = {original[a] : a \in DOMAIN original}
  <2>1. page = {a \in DOMAIN original : a > lastMapped}
    BY <1>6, <1>14 DEF S
  <2>2. \A a \in DOMAIN original : a <= lastMapped \/ a > lastMapped
    BY <1>1, <1>2
  <2>3. \A a \in DOMAIN original : a <= lastMapped \/ a \in page
    BY <2>1, <2>2
  <2> QED BY <1>7, <1>12, <2>3
<1>15. ASSUME ~(Cardinality(page) < PageSize)
       PROVE  DOMAIN mapped' = {original[a] : a \in {x \in DOMAIN original : x <= lastMapped'}}
  <2>1. page # {}
    BY <1>4, <1>15, FS_EmptySet
  <2>2. lastMapped' \in page /\ \A a \in page : a <= lastMapped'
    BY <1>5, <1>8, <2>1
  <2>3. ASSUME NEW a \in DOMAIN original
        PROVE  a <= lastMapped' <=> (a <= lastMapped \/ a \in page)
    <3>1. a \in Nat /\ lastMapped \in Nat /\ lastMapped' \in Nat /\ lastMapped' > lastMapped
      BY <1>1, <1>2, <1>7, <1>9, <2>2
    <3>2. CASE a \in page
      BY <2>2, <3>2
    <3>3. CASE a \notin page /\ a > lastMapped
      <4>1. a \in S
        BY <3>3 DEF S
      <4> QED BY <1>6, <2>2, <3>1, <3>3, <4>1
    <3>4. CASE a <= lastMapped
      BY <3>1, <3>4
    <3> QED BY <3>1, <3>2, <3>3, <3>4
  <2> QED BY <1>7, <1>12, <2>3
<1>16. DOMAIN mapped' \subseteq {original[a] : a \in DOMAIN original}
  BY <1>7, <1>12
<1>17. phase' = "scan" => Cardinality(page) < PageSize
  BY <1>1, <1>5
<1>18. phase' = "mapped" => ~(Cardinality(page) < PageSize)
  BY <1>5
<1>19. phase' \in {"mapped", "scan"}
  BY <1>1, <1>5
<1> HIDE DEF keys, From
<1> QED BY <1>5, <1>9, <1>13, <1>14, <1>15, <1>16, <1>17, <1>18, <1>19

LEMMA FetchMappedKeeps == SnapshotInv /\ FetchMapped => SnapshotInv'
<1> SUFFICES ASSUME SnapshotInv, FetchMapped PROVE SnapshotInv'
  OBVIOUS
<1> USE DEF Searching, Scanning
<1>1. /\ phase = "mapped" /\ snapshotBlock # 0 /\ SnapshotTypeOK
      /\ UNCHANGED <<chain, window, snapshotBlock, file, unwritten, timeouts, tree>>
  BY DEF SnapshotInv, SnapshotTypeOK, FetchMapped
<1>2. /\ original' = original /\ accounts' = accounts /\ currentBlock' = currentBlock
      /\ \A b : IsToday(b)' = IsToday(b)
  BY <1>1 DEF original, accounts, currentBlock, IsToday
<1>3. /\ worker = [w \in Worker |-> Ended] /\ next = 1
      /\ file = [a \in {} |-> 0] /\ unwritten = {}
  BY <1>1 DEF SnapshotInv, ShapeInv
<1>4. /\ Concurrency \in Nat \ {0} /\ MaxRetries \in Nat \ {0} /\ Worker = 1..Concurrency
      /\ Partitions \in Nat \ {0} /\ \A p \in 1..Partitions : startKey(p) \in Nat
  BY Limits, PartitionFacts DEF Worker
<1>5. ASSUME phase' = "scan"
      PROVE  /\ next' \in 1..(Partitions + 1)
             /\ worker' \in [Worker -> WorkerState]
             /\ \A w \in Worker : w <= Partitions =>
                   /\ worker'[w] = AwaitKeys(w, startKey(w))
                   /\ worker'[w].pc = "keys" /\ worker'[w].part = w
                   /\ worker'[w].last = startKey(w) /\ worker'[w].keys = {}
                   /\ worker'[w].attempt = 1 /\ w \in 1..(next' - 1)
             /\ \A w \in Worker : w > Partitions =>
                   /\ worker'[w] = Ended /\ next' = Partitions + 1
             /\ \A p \in 1..Partitions : p \in next'..Partitions \/ p \in Worker
  <2>1. /\ worker' = [w \in Worker |-> IF w > Partitions THEN Ended ELSE AwaitKeys(w, startKey(w))]
        /\ next' = IF Concurrency > Partitions THEN Partitions + 1 ELSE Concurrency + 1
    BY <1>5, MappedPage
  <2>2. ASSUME NEW w \in Worker, w <= Partitions
        PROVE  /\ worker'[w] = AwaitKeys(w, startKey(w)) /\ w \in Nat /\ startKey(w) \in Nat
               /\ w \in 1..(next' - 1)
    BY <1>4, <2>1, <2>2
  <2>3. ASSUME NEW w \in Worker, w > Partitions
        PROVE  worker'[w] = Ended /\ next' = Partitions + 1
    BY <1>4, <2>1, <2>3
  <2>4. \A w \in Worker : worker'[w] \in WorkerState
    BY <1>4, <2>2, <2>3, WorkerStates
  <2>5. worker' \in [Worker -> WorkerState]
    BY <2>1, <2>4
  <2>6. next' \in 1..(Partitions + 1)
    BY <1>4, <2>1
  <2>7. \A p \in 1..Partitions : p \in next'..Partitions \/ p \in Worker
    BY <1>4, <2>1
  <2>8. ASSUME NEW w \in Worker, w <= Partitions
        PROVE  /\ worker'[w].pc = "keys" /\ worker'[w].part = w
               /\ worker'[w].last = startKey(w) /\ worker'[w].keys = {}
               /\ worker'[w].attempt = 1
    BY <2>2, <2>8, WorkerStates
  <2> QED BY <2>2, <2>3, <2>5, <2>6, <2>7, <2>8
<1>6. phase' = "mapped" => UNCHANGED <<phase, worker, next>>
  BY MappedPage
<1>7. phase' \in {"mapped", "scan"}
  BY MappedPage
<1>8. SnapshotTypeOK'
  <2>1. /\ next' \in 1..(Partitions + 1)
        /\ \A w \in Worker : worker'[w].pc = "values" <=> worker'[w].keys # {}
        /\ \A w \in Worker : worker'[w].attempt \in 1..MaxRetries
    <3>1. CASE phase' = "mapped"
      BY <1>1, <1>6, <3>1 DEF SnapshotTypeOK
    <3>2. CASE phase' = "scan"
      <4>1. \A w \in Worker : w <= Partitions \/ w > Partitions
        BY <1>4
      <4>2. ASSUME NEW w \in Worker
            PROVE  /\ worker'[w].pc \in {"keys", "ended"} /\ worker'[w].keys = {}
                   /\ worker'[w].attempt = 1
        <5>1. CASE w <= Partitions
          BY <1>5, <3>2, <5>1
        <5>2. CASE w > Partitions
          <6>1. worker'[w] = Ended
            BY <1>5, <3>2, <5>2
          <6> QED BY <6>1, WorkerStates
        <5> QED BY <4>1, <5>1, <5>2
      <4> QED BY <1>4, <1>5, <3>2, <4>2
    <3> QED BY <1>7, <3>1, <3>2
  <2>2. \A k \in DOMAIN mapped' : k \in {original[a] : a \in DOMAIN original}
    BY MappedPage
  <2> QED BY <1>1, <1>2, <1>7, <2>1, <2>2 DEF SnapshotTypeOK
<1>9. ShapeInv'
  <2>1. lastMapped' \in Nat
    BY MappedPage
  <2>2. worker' \in [Worker -> WorkerState] /\ next' \in Nat
    BY <1>4, <1>5, <1>6, <1>7 DEF SnapshotInv, ShapeInv
  <2>3. phase' = "mapped" => worker' = [w \in Worker |-> Ended] /\ next' = 1
    BY <1>3, <1>6
  <2> QED BY <1>1, <1>3, <1>7, <2>1, <2>2, <2>3 DEF SnapshotInv, ShapeInv
<1>10. SearchInv'
  <2>1. SnapshotIsFirstOfToday'
    BY <1>1, <1>2 DEF SnapshotInv, SearchInv, SnapshotIsFirstOfToday
  <2> QED BY <1>7, <2>1 DEF SearchInv
<1>11. MappedInv'
  <2>1. /\ phase' = "mapped" =>
              DOMAIN mapped' = {original[a] : a \in {x \in DOMAIN original : x <= lastMapped'}}
        /\ phase' = "scan" => DOMAIN mapped' = {original[a] : a \in DOMAIN original}
        /\ \A k \in DOMAIN mapped' : mapped'[k] \in DOMAIN original /\ original[mapped'[k]] = k
    BY MappedPage
  <2> QED BY <1>2, <1>7, <2>1 DEF MappedInv
<1>12. ASSUME phase' = "scan" PROVE WorkerInv'
  <2>1. \A w \in Worker : w \in Int /\ (w <= Partitions \/ w > Partitions)
    BY <1>4
  <2>2. ASSUME NEW w \in Worker, worker'[w].pc = "ended" PROVE next' > Partitions
    <3>1. w > Partitions
      BY <1>5, <1>12, <2>1, <2>2
    <3>2. next' = Partitions + 1
      BY <1>5, <1>12, <3>1
    <3> QED BY <1>4, <3>2
  <2>3. \A w \in Worker : worker'[w].pc # "ended" =>
           /\ w <= Partitions
           /\ worker'[w].part = w /\ w \in 1..(next' - 1)
           /\ worker'[w].last = startKey(w) /\ worker'[w].keys = {}
    BY <1>5, <1>12, <2>1, WorkerStates
  <2>4. ASSUME NEW w \in Worker, worker'[w].pc # "ended"
        PROVE  /\ worker'[w].part \in 1..(next' - 1)
               /\ worker'[w].last >= startKey(worker'[w].part)
               /\ worker'[w].keys = {}
    BY <1>4, <2>1, <2>3, <2>4
  <2>5. \A w, v \in Worker :
           (worker'[w].pc # "ended" /\ worker'[v].pc # "ended" /\ w # v) =>
               worker'[w].part # worker'[v].part
    BY <2>3
  <2>6. \A p : startKey(p)' = startKey(p)
    BY DEF startKey
  <2> QED BY <1>12, <2>2, <2>4, <2>5, <2>6 DEF WorkerInv, Positions, startKey
<1>13. ASSUME phase' = "scan" PROVE Processed' = {}
  <2> SUFFICES ASSUME NEW k \in DOMAIN accounts' PROVE k \in Pending'
    BY DEF Processed
  <2>1. PICK p \in 1..Partitions : k \in PartKeys(p)
    BY <1>1, <1>2, EveryKeyHasAPartition
  <2>2. k \in PartKeys(p)'
    BY <1>2, <2>1 DEF PartKeys
  <2>3. CASE p \in next'..Partitions
    BY <2>2, <2>3 DEF Waiting, Pending
  <2>4. CASE p \in Worker
    <3>1. worker'[p].pc = "keys" /\ worker'[p].part = p /\ worker'[p].last = startKey(p)
      BY <1>4, <1>5, <1>13, <2>4
    <3>2. k > worker'[p].last
      BY <2>1, <3>1 DEF PartKeys
    <3>3. k \in Remaining(p)'
      BY <2>2, <3>1, <3>2 DEF Remaining
    <3> QED BY <2>4, <3>3 DEF Pending
  <2> QED BY <1>5, <1>13, <2>3, <2>4
<1>14. WorkerInv' /\ FileInv'
  <2>1. CASE phase' = "mapped"
    BY <2>1 DEF WorkerInv, FileInv
  <2>2. CASE phase' = "scan"
    BY <1>1, <1>3, <1>12, <1>13, <2>2 DEF FileInv
  <2> QED BY <1>7, <2>1, <2>2
<1>15. TreeInv'
  BY <1>1, <1>7 DEF SnapshotInv, TreeInv
<1> QED BY <1>8, <1>9, <1>10, <1>11, <1>14, <1>15 DEF SnapshotInv

LEMMA PreparationFailsKeeps == SnapshotInv /\ PreparationFails => SnapshotInv'
<1> SUFFICES ASSUME SnapshotInv, PreparationFails PROVE SnapshotInv'
  OBVIOUS
<1> USE DEF Searching, Scanning
<1>1. /\ phase \in Searching \cup {"mapped"} /\ phase' = "failed"
      /\ UNCHANGED <<chain, window, snapshotBlock, mapVars, scanVars, tree>>
      /\ timeouts < MaxTimeouts /\ timeouts' = timeouts + 1
  BY DEF PreparationFails
<1>2. currentBlock' = currentBlock /\ original' = original /\ \A b : IsToday(b)' = IsToday(b)
  BY <1>1 DEF currentBlock, original, IsToday
<1>3. SnapshotTypeOK'
  <2>1. timeouts' \in 0..MaxTimeouts
    BY <1>1, Limits DEF SnapshotInv, SnapshotTypeOK
  <2> QED BY <1>1, <1>2, <2>1 DEF SnapshotInv, SnapshotTypeOK, mapVars, scanVars
<1>4. ShapeInv'
  BY <1>1 DEF SnapshotInv, ShapeInv, mapVars, scanVars
<1>5. SearchInv'
  BY <1>1, <1>2 DEF SnapshotInv, SearchInv, SnapshotIsFirstOfToday
<1>6. MappedInv' /\ WorkerInv' /\ FileInv' /\ TreeInv'
  BY <1>1 DEF SnapshotInv, MappedInv, WorkerInv, FileInv, TreeInv
<1> QED BY <1>3, <1>4, <1>5, <1>6 DEF SnapshotInv

-----------------------------------------------------------------------------
(* The scan: what a worker's step does to the keys still to come *)

(* What the types that hold during the scan say of the workers.            *)
LEMMA ScanFacts ==
  ASSUME SnapshotInv, phase = "scan"
  PROVE  /\ snapshotBlock # 0 /\ SnapshotTypeOK /\ chain \in Chain /\ Positions
         /\ worker \in [Worker -> WorkerState]
         /\ next \in 1..(Partitions + 1) /\ Partitions \in Nat \ {0}
         /\ \A w \in Worker : worker[w].pc = "values" <=> worker[w].keys # {}
         /\ \A w \in Worker : worker[w].attempt \in 1..MaxRetries
         /\ \A w \in Worker : worker[w].pc # "ended" => worker[w].part \in 1..Partitions
<1>1. /\ SnapshotTypeOK /\ Positions /\ worker \in [Worker -> WorkerState]
      /\ next \in 1..(Partitions + 1) /\ Partitions \in Nat \ {0}
  BY PartitionFacts DEF SnapshotInv, SnapshotTypeOK, ShapeInv, WorkerInv, Scanning
<1>2. \A w \in Worker : worker[w].pc # "ended" => worker[w].part \in 1..Partitions
  BY <1>1 DEF Positions
<1> QED BY <1>1, <1>2 DEF SnapshotTypeOK

(* The keys a worker has to fetch are its own.                             *)
LEMMA RemainingIsOwn ==
  ASSUME SnapshotInv, phase = "scan", NEW w \in Worker, NEW k \in Remaining(w)
  PROVE  /\ worker[w].pc # "ended" /\ k \in PartKeys(worker[w].part) /\ k \in DOMAIN accounts
         /\ k \notin Waiting
         /\ \A v \in Worker : v # w => k \notin Remaining(v)
<1>1. \A v \in Worker : \A j \in Remaining(v) :
         worker[v].pc # "ended" /\ j \in PartKeys(worker[v].part) /\ worker[v].part \in 1..Partitions
  BY ScanFacts DEF Remaining, Positions
<1>2. ASSUME NEW p \in next..Partitions PROVE k \notin PartKeys(p)
  <2>1. p \in 1..Partitions /\ worker[w].part \in 1..(next - 1) /\ p # worker[w].part
    BY <1>1, <1>2, ScanFacts DEF Positions
  <2> QED BY <1>1, <2>1, ScanFacts, PartitionsAreDisjoint
<1>3. ASSUME NEW v \in Worker, v # w PROVE k \notin Remaining(v)
  <2> SUFFICES ASSUME k \in Remaining(v) PROVE FALSE
    OBVIOUS
  <2>1. worker[v].part # worker[w].part
    BY <1>1, <1>3, ScanFacts DEF Positions
  <2> QED BY <1>1, <2>1, ScanFacts, PartitionsAreDisjoint
<1> QED BY <1>1, <1>2, <1>3 DEF Waiting, Remaining

(* A step of one worker that takes a batch off the keys to come.           *)
LEMMA PendingAfter ==
  ASSUME SnapshotInv, phase = "scan", UNCHANGED snapshotBlock,
         NEW w \in Worker, NEW r, worker' = [worker EXCEPT ![w] = r],
         NEW batch \in SUBSET Remaining(w),
         \A k \in DOMAIN accounts :
            (k \in Waiting' \/ k \in Remaining(w)') <=> (k \in Waiting \/ k \in Remaining(w) \ batch)
  PROVE  Processed' = Processed \cup batch
<1>1. accounts' = accounts /\ \A p : PartKeys(p)' = PartKeys(p)
  BY DEF accounts, PartKeys, startKey, IsPast
<1>2. \A v \in Worker : v # w => Remaining(v)' = Remaining(v)
  <2>1. \A v \in Worker : v # w => worker'[v] = worker[v]
    BY ScanFacts
  <2> QED BY <1>1, <2>1 DEF Remaining
<1>3. \A k \in batch : /\ k \in DOMAIN accounts /\ k \notin Waiting
                       /\ \A v \in Worker : v # w => k \notin Remaining(v)
  BY RemainingIsOwn
<1>4. ASSUME NEW k \in DOMAIN accounts
      PROVE  k \in Pending' <=> (k \in Pending /\ k \notin batch)
  <2>1. k \in Pending' <=> (k \in Waiting' \/ k \in Remaining(w)' \/
                              \E v \in Worker : v # w /\ k \in Remaining(v))
    BY <1>1, <1>2 DEF Pending
  <2>2. k \in Pending <=> (k \in Waiting \/ k \in Remaining(w) \/
                              \E v \in Worker : v # w /\ k \in Remaining(v))
    BY DEF Pending
  <2> QED BY <1>3, <2>1, <2>2
<1> QED BY <1>1, <1>3, <1>4 DEF Processed

(* A worker moves on within its partition.                                 *)
LEMMA StaysInPartition ==
  ASSUME SnapshotInv, phase = "scan", UNCHANGED <<snapshotBlock, next>>,
         NEW w \in Worker, worker[w].pc # "ended",
         NEW r \in WorkerState, worker' = [worker EXCEPT ![w] = r],
         r.pc \in {"keys", "values"}, r.part = worker[w].part, r.last >= worker[w].last,
         r.keys \subseteq PartKeys(r.part), \A k \in r.keys : k <= r.last
  PROVE  Positions' /\ worker' \in [Worker -> WorkerState] /\ worker'[w] = r
<1>1. \A p : PartKeys(p)' = PartKeys(p)
  BY DEF accounts, PartKeys, startKey, IsPast
<1>2. /\ worker' \in [Worker -> WorkerState] /\ worker'[w] = r
      /\ \A v \in Worker : v # w => worker'[v] = worker[v]
  BY ScanFacts
<1>3. worker[w].part \in 1..(next - 1) /\ worker[w].part \in 1..Partitions
      /\ worker[w].last >= startKey(worker[w].part)
  BY ScanFacts DEF Positions
<1>4. r.last >= startKey(r.part)
  <2>1. startKey(r.part) \in Nat
    BY <1>3, PartitionFacts
  <2>2. r.last \in Nat /\ worker[w].last \in Nat
    BY ScanFacts DEF WorkerState
  <2> QED BY <1>3, <2>1, <2>2
<1>5. \A v \in Worker : worker'[v].pc = "ended" => next' > Partitions
  BY <1>2, ScanFacts DEF Positions
<1>6. ASSUME NEW v \in Worker, worker'[v].pc # "ended"
      PROVE  /\ worker'[v].part = worker[v].part /\ worker[v].pc # "ended"
             /\ worker'[v].part \in 1..(next' - 1)
             /\ worker'[v].last >= startKey(worker'[v].part)
             /\ worker'[v].keys \subseteq PartKeys(worker'[v].part)
             /\ \A k \in worker'[v].keys : k <= worker'[v].last
  <2>1. CASE v = w
    BY <1>2, <1>3, <1>4, <2>1
  <2>2. CASE v # w
    BY <1>2, <1>6, <2>2, ScanFacts DEF Positions
  <2> QED BY <2>1, <2>2
<1>7. \A u, v \in Worker :
         (worker'[u].pc # "ended" /\ worker'[v].pc # "ended" /\ u # v) =>
             worker'[u].part # worker'[v].part
  BY <1>6, ScanFacts DEF Positions
<1> QED BY <1>1, <1>2, <1>5, <1>6, <1>7 DEF Positions, startKey

(* A worker that is done with its partition takes the next, or ends.       *)
LEMMA TakesPartition ==
  ASSUME SnapshotInv, phase = "scan", UNCHANGED snapshotBlock,
         NEW w \in Worker, worker[w].pc # "ended", TakePartition(w)
  PROVE  /\ Positions' /\ worker' \in [Worker -> WorkerState] /\ next' \in 1..(Partitions + 1)
         /\ worker' = [worker EXCEPT ![w] = worker'[w]]
         /\ worker'[w].pc # "values" /\ worker'[w].keys = {} /\ worker'[w].attempt = 1
         /\ \A k \in DOMAIN accounts : (k \in Waiting' \/ k \in Remaining(w)') <=> k \in Waiting
<1>1. accounts' = accounts /\ \A p : PartKeys(p)' = PartKeys(p) /\ startKey(p)' = startKey(p)
  BY DEF accounts, PartKeys, startKey, IsPast
<1>2. next \in 1..(Partitions + 1) /\ Partitions \in Nat /\ worker \in [Worker -> WorkerState]
  BY ScanFacts
<1>3. CASE next > Partitions
  <2>1. worker' = [worker EXCEPT ![w] = Ended] /\ next' = next
    BY <1>3 DEF TakePartition
  <2>2. /\ worker'[w] = Ended /\ \A v \in Worker : v # w => worker'[v] = worker[v]
        /\ worker' \in [Worker -> WorkerState]
    BY <1>2, <2>1, WorkerStates
  <2>3. worker'[w].pc = "ended" /\ worker'[w].keys = {} /\ worker'[w].attempt = 1
    BY <2>2, WorkerStates
  <2>4. \A v \in Worker : worker'[v].pc # "ended" => v # w /\ worker'[v] = worker[v]
    BY <2>2, <2>3
  <2>5. Positions'
    <3>1. ASSUME NEW v \in Worker, worker'[v].pc # "ended"
          PROVE  /\ worker'[v].part \in 1..(next' - 1)
                 /\ worker'[v].last >= startKey(worker'[v].part)
                 /\ worker'[v].keys \subseteq PartKeys(worker'[v].part)
                 /\ \A k \in worker'[v].keys : k <= worker'[v].last
      BY <2>1, <2>4, <3>1, ScanFacts DEF Positions
    <3>2. \A u, v \in Worker :
             (worker'[u].pc # "ended" /\ worker'[v].pc # "ended" /\ u # v) =>
                 worker'[u].part # worker'[v].part
      BY <2>4, ScanFacts DEF Positions
    <3> QED BY <1>1, <1>3, <2>1, <3>1, <3>2 DEF Positions, startKey
  <2>6. Waiting' = Waiting
    BY <1>1, <2>1 DEF Waiting
  <2>7. Remaining(w)' = {}
    BY <2>3 DEF Remaining
  <2>8. worker' = [worker EXCEPT ![w] = worker'[w]] /\ next' \in 1..(Partitions + 1)
    BY <1>2, <2>1, <2>2
  <2> QED BY <2>2, <2>3, <2>5, <2>6, <2>7, <2>8
<1>4. CASE ~(next > Partitions)
  <2> DEFINE r == AwaitKeys(next, startKey(next))
  <2>1. worker' = [worker EXCEPT ![w] = r] /\ next' = next + 1
    BY <1>4 DEF TakePartition
  <2>2. next \in 1..Partitions /\ next \in Nat /\ startKey(next) \in Nat
    BY <1>2, <1>4, PartitionFacts
  <2>3. /\ r \in WorkerState /\ r.pc = "keys" /\ r.part = next /\ r.last = startKey(next)
        /\ r.keys = {} /\ r.more = FALSE /\ r.attempt = 1
    BY <2>2, WorkerStates
  <2> HIDE DEF r
  <2>4. /\ worker'[w] = r /\ \A v \in Worker : v # w => worker'[v] = worker[v]
        /\ worker' \in [Worker -> WorkerState]
    BY <1>2, <2>1, <2>3
  <2>5. Positions'
    <3>1. ASSUME NEW v \in Worker, worker'[v].pc = "ended" PROVE next' > Partitions
      <4>1. v # w /\ worker[v].pc = "ended"
        BY <2>3, <2>4, <3>1
      <4> QED BY <1>4, <4>1, ScanFacts DEF Positions
    <3>2. ASSUME NEW v \in Worker, worker'[v].pc # "ended"
          PROVE  /\ worker'[v].part \in 1..(next' - 1)
                 /\ v # w => worker[v].pc # "ended" /\ worker'[v].part \in 1..(next - 1)
                 /\ worker'[v].last >= startKey(worker'[v].part)
                 /\ worker'[v].keys \subseteq PartKeys(worker'[v].part)
                 /\ \A k \in worker'[v].keys : k <= worker'[v].last
      <4>1. CASE v = w
        BY <2>1, <2>2, <2>3, <2>4, <4>1
      <4>2. CASE v # w
        <5>1. worker'[v] = worker[v]
          BY <2>4, <4>2
        <5>2. /\ worker[v].part \in 1..(next - 1)
              /\ worker[v].last >= startKey(worker[v].part)
              /\ worker[v].keys \subseteq PartKeys(worker[v].part)
              /\ \A k \in worker[v].keys : k <= worker[v].last
          BY <3>2, <5>1, ScanFacts DEF Positions
        <5>3. 1..(next - 1) \subseteq 1..(next' - 1)
          BY <2>1, <2>2
        <5> QED BY <3>2, <5>1, <5>2, <5>3
      <4> QED BY <4>1, <4>2
    <3>3. ASSUME NEW u \in Worker, NEW v \in Worker, worker'[u].pc # "ended",
                 worker'[v].pc # "ended", u # v
          PROVE  worker'[u].part # worker'[v].part
      <4>1. CASE u = w
        BY <2>2, <2>3, <2>4, <3>2, <3>3, <4>1
      <4>2. CASE v = w
        BY <2>2, <2>3, <2>4, <3>2, <3>3, <4>2
      <4>3. CASE u # w /\ v # w
        BY <2>4, <3>2, <3>3, <4>3, ScanFacts DEF Positions
      <4> QED BY <4>1, <4>2, <4>3
    <3> QED BY <1>1, <3>1, <3>2, <3>3 DEF Positions, startKey
  <2>6. ASSUME NEW k \in DOMAIN accounts
        PROVE  (k \in Waiting' \/ k \in Remaining(w)') <=> k \in Waiting
    <3>1. k \in Remaining(w)' <=> k \in PartKeys(next)
      <4>1. k \in Remaining(w)' <=> (k > r.last /\ k \in PartKeys(r.part))
        BY <1>1, <2>3, <2>4 DEF Remaining
      <4>2. k \in PartKeys(next) => k > startKey(next)
        BY DEF PartKeys
      <4> QED BY <2>3, <4>1, <4>2
    <3>2. k \in Waiting' <=> \E p \in (next + 1)..Partitions : k \in PartKeys(p)
      BY <1>1, <2>1 DEF Waiting
    <3>3. k \in Waiting <=> \E p \in next..Partitions : k \in PartKeys(p)
      BY DEF Waiting
    <3>4. \A p : p \in next..Partitions <=> (p = next \/ p \in (next + 1)..Partitions)
      BY <1>2, <2>2
    <3> QED BY <3>1, <3>2, <3>3, <3>4
  <2>7. worker' = [worker EXCEPT ![w] = worker'[w]] /\ next' \in 1..(Partitions + 1)
    BY <1>2, <2>1, <2>2, <2>4
  <2> QED BY <2>3, <2>4, <2>5, <2>6, <2>7
<1> QED BY <1>3, <1>4

-----------------------------------------------------------------------------
(* The scan: its steps *)

(* What a worker's step leaves alone.                                      *)
LEMMA ScanFrame ==
  ASSUME SnapshotInv, phase = "scan", phase' \in {"scan", "failed"},
         UNCHANGED <<chain, window, snapshotBlock, mapVars, tree>>,
         timeouts' \in 0..MaxTimeouts, next' \in 1..(Partitions + 1),
         worker' \in [Worker -> WorkerState],
         \A w \in Worker : worker'[w].pc = "values" <=> worker'[w].keys # {},
         \A w \in Worker : worker'[w].attempt \in 1..MaxRetries,
         IsFiniteSet(DOMAIN file'), DOMAIN file' \subseteq Nat,
         phase' = "scan" => Positions',
         phase' = "scan" => FileInv'
  PROVE  SnapshotInv'
<1> USE DEF Searching, Scanning
<1>1. /\ currentBlock' = currentBlock /\ original' = original /\ \A b : IsToday(b)' = IsToday(b)
      /\ mapped' = mapped /\ lastMapped' = lastMapped
  BY DEF currentBlock, original, IsToday, mapVars
<1>2. SnapshotTypeOK'
  BY <1>1 DEF SnapshotInv, SnapshotTypeOK
<1>3. ShapeInv'
  BY <1>1, PartitionFacts DEF SnapshotInv, ShapeInv
<1>4. SearchInv'
  BY <1>1 DEF SnapshotInv, SearchInv, SnapshotIsFirstOfToday
<1>5. MappedInv'
  BY <1>1 DEF SnapshotInv, MappedInv
<1>6. WorkerInv' /\ FileInv'
  BY DEF WorkerInv, FileInv
<1>7. TreeInv'
  BY DEF SnapshotInv, TreeInv
<1> QED BY <1>2, <1>3, <1>4, <1>5, <1>6, <1>7 DEF SnapshotInv

(* The lines written stay right when nothing is processed or written.      *)
LEMMA FileStays ==
  ASSUME FileInv, phase = "scan", phase' \in Scanning,
         UNCHANGED <<snapshotBlock, mapVars, file, unwritten>>, Processed' = Processed
  PROVE  FileInv'
<1>1. /\ accounts' = accounts /\ original' = original /\ mapped' = mapped
      /\ file' = file /\ unwritten' = unwritten
  BY DEF accounts, original, mapVars
<1>2. /\ \A k : Counts(k)' = Counts(k)
      /\ \A a : AccountsFor(a)' = AccountsFor(a)
  BY <1>1 DEF Counts, AccountsFor, AddressesOf
<1> QED BY <1>1, <1>2 DEF FileInv, Scanning

(* A page of keys, cut at the end of the partition.                        *)
LEMMA KeysPage ==
  ASSUME SnapshotInv, phase = "scan", NEW w \in Worker, worker[w].pc = "keys"
  PROVE  LET me      == worker[w]
             page    == PageAfter(DOMAIN accounts, me.last)
             trimmed == Trim(page, me.part)
         IN  /\ IsFiniteSet(trimmed) /\ trimmed \subseteq PartKeys(me.part)
             /\ \A k \in trimmed : k \in Nat /\ k > me.last
             /\ trimmed = {} => Remaining(w) = {}
             /\ \A k \in Remaining(w) \ trimmed :
                   /\ ~IsLast(page, trimmed)
                   /\ \A j \in trimmed : j < k
<1> DEFINE me      == worker[w]
           S       == {k \in DOMAIN accounts : k > me.last}
           page    == FirstOf(S, PageSize)
           trimmed == Trim(page, me.part)
<1>1. page = PageAfter(DOMAIN accounts, me.last)
  BY DEF PageAfter
<1>2. DOMAIN accounts \subseteq Nat \ {0} /\ IsFiniteSet(DOMAIN accounts)
  BY ScanFacts, StorageFacts
<1>3. /\ me.part \in 1..Partitions /\ me.last \in Nat /\ me.last >= startKey(me.part)
      /\ startKey(me.part) \in Nat /\ me.keys = {}
      /\ \A i \in 1..(Partitions - 1) : Bounds[i] \in Nat
      /\ Partitions \in Nat
  BY ScanFacts, PartitionFacts DEF Positions, WorkerState
<1>4. S \in SUBSET Nat /\ IsFiniteSet(S)
  <2>1. S \in SUBSET DOMAIN accounts
    OBVIOUS
  <2> QED BY <1>2, <2>1, FS_Subset
<1>5. \A k : k \in Remaining(w) <=> (k \in S /\ ~IsPast(k, me.part))
  <2>1. \A k \in DOMAIN accounts : k > me.last => k > startKey(me.part)
    BY <1>2, <1>3
  <2> QED BY <1>3, <2>1 DEF Remaining, PartKeys
<1> HIDE DEF S
<1>6. /\ page \subseteq S /\ IsFiniteSet(page)
      /\ \A k \in page : \A j \in S : j <= k => j \in page
      /\ S # {} => Least(S) \in page
      /\ Cardinality(page) < PageSize => page = S
  BY <1>4, Limits, PageOfSet
<1> HIDE DEF page
<1>7. \A k : k \in trimmed <=> (k \in page /\ ~IsPast(k, me.part))
  BY DEF Trim
<1> HIDE DEF trimmed
<1>8. IsFiniteSet(trimmed)
  <2>1. trimmed \in SUBSET page
    BY <1>7
  <2> QED BY <1>6, <2>1, FS_Subset
<1>9. ASSUME NEW k \in trimmed PROVE k \in PartKeys(me.part) /\ k \in Nat /\ k > me.last
  <2>1. k \in S /\ ~IsPast(k, me.part)
    BY <1>6, <1>7
  <2>2. k \in DOMAIN accounts /\ k > me.last /\ k \in Nat
    BY <1>2, <2>1 DEF S
  <2>3. k > startKey(me.part)
    <3> HIDE DEF me
    <3> QED BY <1>3, <2>2
  <2> QED BY <2>1, <2>2, <2>3 DEF PartKeys
<1>10. ASSUME NEW k, NEW j, k \in Nat, j \in Nat, IsPast(j, me.part), j <= k
       PROVE  IsPast(k, me.part)
  <2>1. me.part < Partitions /\ j >= Bounds[me.part]
    BY <1>10 DEF IsPast
  <2>2. Bounds[me.part] \in Nat
    BY <1>3, <2>1
  <2>3. k >= Bounds[me.part]
    BY <1>10, <2>1, <2>2
  <2> QED BY <2>1, <2>3 DEF IsPast
<1>11. ASSUME trimmed = {} PROVE Remaining(w) = {}
  <2> SUFFICES ASSUME NEW k \in Remaining(w) PROVE FALSE
    OBVIOUS
  <2>1. k \in S /\ ~IsPast(k, me.part)
    BY <1>5
  <2>2. Least(S) \in page /\ Least(S) \in Nat /\ Least(S) <= k
    BY <1>4, <1>6, <2>1, LeastIsLeast
  <2>3. IsPast(Least(S), me.part)
    BY <1>7, <1>11, <2>2
  <2> QED BY <1>4, <1>10, <2>1, <2>2, <2>3
<1>12. ASSUME NEW k \in Remaining(w), k \notin trimmed
       PROVE  /\ ~IsLast(page, trimmed)
              /\ \A j \in trimmed : j < k
  <2>1. k \in S /\ ~IsPast(k, me.part) /\ k \notin page /\ k \in Nat
    BY <1>4, <1>5, <1>7, <1>12
  <2>2. ASSUME NEW j \in page PROVE j \in Nat /\ j < k
    <3>1. j \in Nat
      BY <1>4, <1>6
    <3>2. ~(k <= j)
      BY <1>6, <2>1
    <3> QED BY <2>1, <3>1, <3>2
  <2>3. ASSUME NEW j \in page PROVE ~IsPast(j, me.part)
    <3>1. j \in Nat /\ j <= k
      BY <2>1, <2>2
    <3> QED BY <1>10, <2>1, <3>1
  <2>4. trimmed = page
    BY <1>7, <2>3
  <2>5. ~(Cardinality(page) < PageSize)
    BY <1>6, <2>1
  <2> QED BY <2>2, <2>4, <2>5 DEF IsLast
<1>13. trimmed \subseteq PartKeys(me.part)
  BY <1>9
<1> QED BY <1>1, <1>8, <1>9, <1>11, <1>12, <1>13 DEF trimmed

LEMMA FetchKeysKeeps ==
  ASSUME SnapshotInv, NEW w \in Worker, FetchKeys(w)
  PROVE  SnapshotInv'
<1> DEFINE me      == worker[w]
           page    == PageAfter(DOMAIN accounts, me.last)
           trimmed == Trim(page, me.part)
<1>1. /\ phase = "scan" /\ phase' = "scan" /\ me.pc = "keys"
      /\ UNCHANGED <<chain, window, snapshotBlock, mapVars, file, unwritten, timeouts, tree>>
  BY DEF FetchKeys
<1>2. /\ IsFiniteSet(trimmed) /\ trimmed \subseteq PartKeys(me.part)
      /\ \A k \in trimmed : k \in Nat /\ k > me.last
      /\ trimmed = {} => Remaining(w) = {}
      /\ \A k \in Remaining(w) \ trimmed : ~IsLast(page, trimmed) /\ \A j \in trimmed : j < k
  BY <1>1, KeysPage
<1>3. /\ worker \in [Worker -> WorkerState] /\ me.keys = {} /\ me.last \in Nat /\ me.part \in Nat
      /\ \A v \in Worker : worker[v].pc = "values" <=> worker[v].keys # {}
      /\ \A v \in Worker : worker[v].attempt \in 1..MaxRetries
      /\ next \in 1..(Partitions + 1)
      /\ timeouts \in 0..MaxTimeouts /\ IsFiniteSet(DOMAIN file) /\ DOMAIN file \subseteq Nat
      /\ MaxRetries \in Nat \ {0}
  BY <1>1, ScanFacts, Limits DEF SnapshotInv, SnapshotTypeOK, ShapeInv, WorkerState
<1>4. IF trimmed = {}
      THEN TakePartition(w)
      ELSE /\ worker' = [worker EXCEPT ![w] =
                  [pc |-> "values", part |-> me.part, last |-> Largest(trimmed),
                   keys |-> trimmed, more |-> ~IsLast(page, trimmed), attempt |-> 1]]
           /\ UNCHANGED next
  BY DEF FetchKeys
<1>5. FileInv /\ phase' \in Scanning
  BY <1>1 DEF SnapshotInv, Scanning
<1> HIDE DEF page, trimmed
<1>6. CASE trimmed = {}
  <2>1. TakePartition(w) /\ Remaining(w) = {}
    BY <1>2, <1>4, <1>6
  <2>2. /\ Positions' /\ worker' \in [Worker -> WorkerState] /\ next' \in 1..(Partitions + 1)
        /\ worker' = [worker EXCEPT ![w] = worker'[w]]
        /\ worker'[w].pc # "values" /\ worker'[w].keys = {} /\ worker'[w].attempt = 1
        /\ \A k \in DOMAIN accounts : (k \in Waiting' \/ k \in Remaining(w)') <=> k \in Waiting
    BY <1>1, <2>1, TakesPartition
  <2>3. \A v \in Worker : v # w => worker'[v] = worker[v]
    BY <1>3, <2>2
  <2>4. Processed' = Processed \cup {}
    BY <1>1, <2>1, <2>2, PendingAfter
  <2>5. FileInv'
    BY <1>1, <1>5, <2>4, FileStays
  <2>6. \A v \in Worker : /\ worker'[v].pc = "values" <=> worker'[v].keys # {}
                          /\ worker'[v].attempt \in 1..MaxRetries
    BY <1>3, <2>2, <2>3
  <2> QED BY <1>1, <1>3, <2>2, <2>5, <2>6, ScanFrame
<1>7. CASE trimmed # {}
  <2> DEFINE r == [pc |-> "values", part |-> me.part, last |-> Largest(trimmed),
                   keys |-> trimmed, more |-> ~IsLast(page, trimmed), attempt |-> 1]
  <2>1. worker' = [worker EXCEPT ![w] = r] /\ next' = next
    BY <1>4, <1>7
  <2>2. Largest(trimmed) \in trimmed /\ \A k \in trimmed : k <= Largest(trimmed)
    BY <1>2, <1>7, LargestIsLargest
  <2>3. /\ r \in WorkerState /\ r.pc = "values" /\ r.part = me.part /\ r.last = Largest(trimmed)
        /\ r.keys = trimmed /\ r.more = ~IsLast(page, trimmed) /\ r.attempt = 1
    BY <1>2, <1>3, <2>2 DEF WorkerState, IsLast
  <2> HIDE DEF r
  <2>4. r.last >= me.last /\ r.keys \subseteq PartKeys(r.part) /\ \A k \in r.keys : k <= r.last
    BY <1>2, <1>3, <2>2, <2>3
  <2>5. Positions' /\ worker' \in [Worker -> WorkerState] /\ worker'[w] = r
    BY <1>1, <2>1, <2>3, <2>4, StaysInPartition
  <2>6. ASSUME NEW k \in DOMAIN accounts
        PROVE  k \in Remaining(w)' <=> k \in Remaining(w)
    <3>1. accounts' = accounts /\ \A p : PartKeys(p)' = PartKeys(p)
      BY <1>1 DEF accounts, PartKeys, startKey, IsPast
    <3>2. k \in Remaining(w)' <=>
            (k \in trimmed \/ (r.more /\ k > r.last /\ k \in PartKeys(me.part)))
      BY <2>3, <2>5, <3>1 DEF Remaining
    <3>3. k \in Remaining(w) <=> k > me.last /\ k \in PartKeys(me.part)
      BY <1>1, <1>3 DEF Remaining
    <3>4. k \in Nat
      BY <1>1, ScanFacts, StorageFacts
    <3>5. k > r.last => k > me.last
      BY <1>2, <1>3, <2>2, <2>3, <3>4
    <3>6. k \in Remaining(w) /\ k \notin trimmed => r.more /\ k > r.last
      BY <1>2, <2>2, <2>3, <3>4
    <3> QED BY <1>2, <3>2, <3>3, <3>5, <3>6
  <2>7. Waiting' = Waiting
    BY <1>1, <2>1 DEF Waiting, accounts, PartKeys, startKey, IsPast
  <2>8. Processed' = Processed \cup {}
    BY <1>1, <2>1, <2>6, <2>7, PendingAfter
  <2>9. FileInv'
    BY <1>1, <1>5, <2>8, FileStays
  <2>10. \A v \in Worker : /\ worker'[v].pc = "values" <=> worker'[v].keys # {}
                           /\ worker'[v].attempt \in 1..MaxRetries
    BY <1>3, <1>7, <2>1, <2>3, <2>5
  <2> QED BY <1>1, <1>3, <2>1, <2>5, <2>9, <2>10, ScanFrame
<1> QED BY <1>6, <1>7

(* Every account that counts has an EVM address in the end, and it is one  *)
(* that acts for it.                                                       *)
LEMMA AddressOfAccount ==
  ASSUME SnapshotInv, phase \in Scanning, NEW k \in DOMAIN accounts
  PROVE  /\ AddressesOf(k) # {} => getEvmAddress(k, mapped) # 0
         /\ getEvmAddress(k, mapped) # 0 => getEvmAddress(k, mapped) \in AddressesOf(k)
         /\ getEvmAddress(k, mapped) \in Nat
<1>1. snapshotBlock # 0 /\ SnapshotTypeOK
  BY DEF SnapshotInv, SnapshotTypeOK, Scanning
<1>2. Derived[k] \in Nat /\ DOMAIN original \subseteq Nat \ {0}
  BY <1>1, StorageFacts
<1>3. /\ DOMAIN mapped = {original[a] : a \in DOMAIN original}
      /\ \A j \in DOMAIN mapped : mapped[j] \in DOMAIN original /\ original[mapped[j]] = j
  BY DEF SnapshotInv, MappedInv
<1>4. CASE Derived[k] # 0
  BY <1>2, <1>4 DEF getEvmAddress, AddressesOf
<1>5. CASE Derived[k] = 0 /\ k \in DOMAIN mapped
  BY <1>2, <1>3, <1>5 DEF getEvmAddress, AddressesOf
<1>6. CASE Derived[k] = 0 /\ k \notin DOMAIN mapped
  <2>1. AddressesOf(k) = {}
    BY <1>3, <1>6 DEF AddressesOf
  <2>2. getEvmAddress(k, mapped) = 0
    BY <1>6 DEF getEvmAddress
  <2> QED BY <2>1, <2>2
<1> QED BY <1>4, <1>5, <1>6

(* The lines of a batch.                                                   *)
LEMMA LinesWritten ==
  ASSUME SnapshotInv, phase = "scan", phase' = "scan",
         UNCHANGED <<snapshotBlock, mapVars>>,
         NEW w \in Worker, NEW batch \in SUBSET Remaining(w),
         Processed' = Processed \cup batch,
         NEW lost,
         LET lines == {k \in batch : accounts[k] >= MinBalance /\ getEvmAddress(k, mapped) # 0}
             Written(a) == {k \in lines \ lost : getEvmAddress(k, mapped) = a}
         IN  /\ lost \in SUBSET lines
             /\ unwritten' = unwritten \cup lost
             /\ file' = [a \in DOMAIN file \cup {getEvmAddress(k, mapped) : k \in lines \ lost} |->
                            IF Written(a) = {} THEN file[a] ELSE accounts[Largest(Written(a))]]
  PROVE  FileInv' /\ IsFiniteSet(DOMAIN file') /\ DOMAIN file' \subseteq Nat
<1> DEFINE evm(k) == getEvmAddress(k, mapped)
           lines == {k \in batch : accounts[k] >= MinBalance /\ evm(k) # 0}
           Written(a) == {k \in lines \ lost : evm(k) = a}
           added == {evm(k) : k \in lines \ lost}
<1>1. /\ accounts' = accounts /\ original' = original /\ mapped' = mapped
      /\ \A k : getEvmAddress(k, mapped)' = evm(k)
  BY DEF accounts, original, mapVars, getEvmAddress
<1>2. /\ \A k : Counts(k)' = Counts(k)
      /\ \A a : AccountsFor(a)' = AccountsFor(a)
  BY <1>1 DEF Counts, AccountsFor, AddressesOf
<1>3. /\ lost \subseteq lines /\ unwritten' = unwritten \cup lost
      /\ file' = [a \in DOMAIN file \cup added |->
                     IF Written(a) = {} THEN file[a] ELSE accounts[Largest(Written(a))]]
  OBVIOUS
<1>4. \A k \in batch : k \in DOMAIN accounts /\ k \notin Processed
  BY RemainingIsOwn DEF Processed, Pending
<1>5. /\ unwritten \subseteq Processed
      /\ \A k \in Processed \ unwritten : Counts(k) => evm(k) \in DOMAIN file
      /\ \A a \in DOMAIN file :
            \E k \in (AccountsFor(a) \cap Processed) \ unwritten : file[a] = accounts[k]
      /\ IsFiniteSet(DOMAIN file) /\ DOMAIN file \subseteq Nat
  BY DEF SnapshotInv, FileInv, ShapeInv, Scanning
<1>6. \A k \in DOMAIN accounts :
         /\ AddressesOf(k) # {} => evm(k) # 0
         /\ evm(k) # 0 => evm(k) \in AddressesOf(k)
         /\ evm(k) \in Nat
  BY AddressOfAccount DEF Scanning
<1>7. DOMAIN accounts \subseteq Nat \ {0} /\ IsFiniteSet(DOMAIN accounts)
  BY ScanFacts, StorageFacts
<1>8. lines \subseteq batch /\ \A k \in lines : accounts[k] >= MinBalance /\ evm(k) # 0
  OBVIOUS
<1>9. added \subseteq Nat /\ IsFiniteSet(added)
  <2>1. added \subseteq Nat
    BY <1>4, <1>6
  <2> DEFINE f == [k \in lines \ lost |-> evm(k)]
  <2>2. DOMAIN f \in SUBSET DOMAIN accounts
    BY <1>4
  <2>3. IsFiniteSet(DOMAIN f)
    <3> HIDE DEF f
    <3> QED BY <1>7, <2>2, FS_Subset
  <2>4. added = {f[k] : k \in DOMAIN f}
    OBVIOUS
  <2> HIDE DEF f, added
  <2> QED BY <2>1, <2>3, <2>4, FiniteValues
<1>10. ASSUME NEW a, Written(a) # {}
       PROVE  Largest(Written(a)) \in lines \ lost /\ evm(Largest(Written(a))) = a
  <2>1. Written(a) \in SUBSET DOMAIN accounts
    BY <1>4
  <2>2. Written(a) \in SUBSET Nat /\ IsFiniteSet(Written(a))
    <3> HIDE DEF Written
    <3> QED BY <1>7, <2>1, FS_Subset
  <2>3. Largest(Written(a)) \in Written(a)
    <3> HIDE DEF Written
    <3> QED BY <1>10, <2>2, LargestIsLargest
  <2> QED BY <2>3
<1>11. \A a \in added : Written(a) # {}
  OBVIOUS
<1>12. \A k \in lines \ lost : evm(k) \in added
  OBVIOUS
<1> HIDE DEF added, Written, lines, evm
<1>13. IsFiniteSet(DOMAIN file') /\ DOMAIN file' \subseteq Nat
  <2>1. DOMAIN file' = DOMAIN file \cup added
    BY <1>3
  <2> QED BY <1>5, <1>9, <2>1, FS_Union
<1>14. unwritten' \subseteq Processed'
  BY <1>3, <1>5, <1>8
<1>15. ASSUME NEW k \in Processed' \ unwritten', Counts(k) PROVE evm(k) \in DOMAIN file'
  <2>1. CASE k \in Processed
    BY <1>3, <1>5, <1>15, <2>1
  <2>2. CASE k \in batch
    <3>1. accounts[k] >= MinBalance /\ evm(k) # 0
      BY <1>4, <1>6, <1>15, <2>2 DEF Counts
    <3>2. k \in lines \ lost
      BY <1>3, <1>15, <2>2, <3>1 DEF lines
    <3> QED BY <1>3, <1>12, <3>2
  <2> QED BY <1>15, <2>1, <2>2
<1>16. ASSUME NEW a \in DOMAIN file'
       PROVE  \E k \in (AccountsFor(a) \cap Processed') \ unwritten' : file'[a] = accounts[k]
  <2>1. CASE Written(a) = {}
    <3>1. a \in DOMAIN file /\ file'[a] = file[a]
      BY <1>3, <1>11, <1>16, <2>1
    <3>2. PICK k \in (AccountsFor(a) \cap Processed) \ unwritten : file[a] = accounts[k]
      BY <1>5, <3>1
    <3>3. k \in Processed' /\ k \notin unwritten'
      BY <1>3, <1>4, <1>8, <3>2
    <3> QED BY <3>1, <3>2, <3>3
  <2>2. CASE Written(a) # {}
    <3> DEFINE k == Largest(Written(a))
    <3>1. k \in lines \ lost /\ evm(k) = a /\ file'[a] = accounts[k]
      BY <1>3, <1>10, <1>16, <2>2
    <3> HIDE DEF k
    <3>2. k \in batch /\ k \in DOMAIN accounts /\ accounts[k] >= MinBalance /\ a \in AddressesOf(k)
      BY <1>4, <1>6, <1>8, <3>1
    <3>3. k \in AccountsFor(a)
      BY <3>2 DEF AccountsFor
    <3>4. k \in Processed' /\ k \notin unwritten'
      BY <1>3, <1>4, <1>5, <3>1, <3>2
    <3> QED BY <3>1, <3>3, <3>4
  <2> QED BY <2>1, <2>2
<1>17. FileInv'
  <2>1. \A k \in Processed' \ unwritten' : Counts(k)' => getEvmAddress(k, mapped)' \in DOMAIN file'
    BY <1>1, <1>2, <1>15
  <2>2. \A a \in DOMAIN file' :
           \E k \in (AccountsFor(a)' \cap Processed') \ unwritten' : file'[a] = accounts'[k]
    BY <1>1, <1>2, <1>16
  <2> QED BY <1>14, <2>1, <2>2 DEF FileInv
<1> QED BY <1>13, <1>17

LEMMA FetchValuesKeeps ==
  ASSUME SnapshotInv, NEW w \in Worker, FetchValues(w)
  PROVE  SnapshotInv'
<1> DEFINE me    == worker[w]
           batch == FirstOf(me.keys, BatchSize)
           rest  == me.keys \ batch
           lines == {k \in batch : accounts[k] >= MinBalance /\ getEvmAddress(k, mapped) # 0}
<1>1. /\ phase = "scan" /\ phase' = "scan" /\ me.pc = "values"
      /\ UNCHANGED <<chain, window, snapshotBlock, mapVars, timeouts, tree>>
  BY DEF FetchValues
<1>2. /\ worker \in [Worker -> WorkerState] /\ me \in WorkerState
      /\ me.last \in Nat /\ me.part \in 1..Partitions /\ me.part \in Nat
      /\ me.last >= startKey(me.part)
      /\ me.keys \subseteq PartKeys(me.part) /\ \A k \in me.keys : k <= me.last
      /\ me.keys # {}
      /\ \A v \in Worker : worker[v].pc = "values" <=> worker[v].keys # {}
      /\ \A v \in Worker : worker[v].attempt \in 1..MaxRetries
      /\ next \in 1..(Partitions + 1) /\ Partitions \in Nat
      /\ timeouts \in 0..MaxTimeouts /\ MaxRetries \in Nat \ {0}
  BY <1>1, ScanFacts, Limits DEF SnapshotInv, SnapshotTypeOK, Positions, WorkerState
<1>3. DOMAIN accounts \subseteq Nat \ {0} /\ IsFiniteSet(DOMAIN accounts)
  BY <1>1, ScanFacts, StorageFacts
<1>4. me.keys \in SUBSET DOMAIN accounts
  BY <1>2 DEF PartKeys
<1>5. me.keys \in SUBSET Nat /\ IsFiniteSet(me.keys)
  BY <1>3, <1>4, FS_Subset
<1>6. batch \subseteq me.keys
  BY <1>5, Limits, PageOfSet
<1>7. PICK lost \in SUBSET lines :
         LET Written(a) == {k \in lines \ lost : getEvmAddress(k, mapped) = a}
         IN  /\ unwritten' = unwritten \cup lost
             /\ file' = [a \in DOMAIN file \cup {getEvmAddress(k, mapped) : k \in lines \ lost} |->
                            IF Written(a) = {} THEN file[a] ELSE accounts[Largest(Written(a))]]
  BY DEF FetchValues
<1>8. IF rest # {}
      THEN worker' = [worker EXCEPT ![w].keys = rest, ![w].attempt = 1] /\ UNCHANGED next
      ELSE IF me.more
           THEN worker' = [worker EXCEPT ![w] = AwaitKeys(me.part, me.last)] /\ UNCHANGED next
           ELSE TakePartition(w)
  BY DEF FetchValues
<1> HIDE DEF batch
<1>9. /\ accounts' = accounts /\ \A p : PartKeys(p)' = PartKeys(p)
      /\ \A k \in DOMAIN accounts :
            k \in Remaining(w) <=> (k \in me.keys \/ (me.more /\ k > me.last /\ k \in PartKeys(me.part)))
  BY <1>1 DEF accounts, PartKeys, startKey, IsPast, Remaining
<1>10. batch \in SUBSET Remaining(w)
  BY <1>4, <1>6, <1>9
<1>11. \A k \in DOMAIN accounts : k \in batch => ~(k > me.last)
  BY <1>2, <1>3, <1>6
<1>12. /\ Positions' /\ worker' \in [Worker -> WorkerState] /\ next' \in 1..(Partitions + 1)
       /\ \A v \in Worker : /\ worker'[v].pc = "values" <=> worker'[v].keys # {}
                            /\ worker'[v].attempt \in 1..MaxRetries
       /\ worker' = [worker EXCEPT ![w] = worker'[w]]
       /\ \A k \in DOMAIN accounts :
             (k \in Waiting' \/ k \in Remaining(w)') <=> (k \in Waiting \/ k \in Remaining(w) \ batch)
  <2>1. CASE rest # {}
    <3> DEFINE r == [me EXCEPT !.keys = rest, !.attempt = 1]
    <3>1. worker' = [worker EXCEPT ![w] = r] /\ next' = next
      BY <1>2, <1>8, <2>1
    <3>2. /\ r \in WorkerState /\ r.pc = "values" /\ r.part = me.part /\ r.last = me.last
          /\ r.keys = rest /\ r.more = me.more /\ r.attempt = 1
      BY <1>1, <1>2, <1>5 DEF WorkerState
    <3> HIDE DEF r
    <3>3. /\ r.last >= me.last /\ r.keys \subseteq PartKeys(r.part) /\ \A k \in r.keys : k <= r.last
          /\ r.keys # {}
      BY <1>2, <2>1, <3>2
    <3>4. Positions' /\ worker' \in [Worker -> WorkerState] /\ worker'[w] = r
      BY <1>1, <3>1, <3>2, <3>3, StaysInPartition
    <3>5. \A v \in Worker : v # w => worker'[v] = worker[v]
      BY <1>2, <3>1
    <3>6. Waiting' = Waiting
      BY <1>9, <3>1 DEF Waiting
    <3>7. ASSUME NEW k \in DOMAIN accounts
          PROVE  k \in Remaining(w)' <=> k \in Remaining(w) \ batch
      <4>1. k \in Remaining(w)' <=>
              (k \in rest \/ (me.more /\ k > me.last /\ k \in PartKeys(me.part)))
        BY <1>9, <3>2, <3>4 DEF Remaining
      <4> QED BY <1>9, <1>11, <4>1
    <3>8. \A v \in Worker : /\ worker'[v].pc = "values" <=> worker'[v].keys # {}
                            /\ worker'[v].attempt \in 1..MaxRetries
      BY <1>2, <3>2, <3>3, <3>4, <3>5
    <3> QED BY <1>2, <3>1, <3>4, <3>6, <3>7, <3>8
  <2>2. CASE rest = {} /\ me.more
    <3> DEFINE r == AwaitKeys(me.part, me.last)
    <3>1. worker' = [worker EXCEPT ![w] = r] /\ next' = next
      BY <1>8, <2>2
    <3>2. /\ r \in WorkerState /\ r.pc = "keys" /\ r.part = me.part /\ r.last = me.last
          /\ r.keys = {} /\ r.more = FALSE /\ r.attempt = 1
      BY <1>2, WorkerStates
    <3> HIDE DEF r
    <3>3. r.last >= me.last /\ r.keys \subseteq PartKeys(r.part) /\ \A k \in r.keys : k <= r.last
      BY <1>2, <3>2
    <3>4. Positions' /\ worker' \in [Worker -> WorkerState] /\ worker'[w] = r
      BY <1>1, <3>1, <3>2, <3>3, StaysInPartition
    <3>5. \A v \in Worker : v # w => worker'[v] = worker[v]
      BY <1>2, <3>1
    <3>6. Waiting' = Waiting
      BY <1>9, <3>1 DEF Waiting
    <3>7. ASSUME NEW k \in DOMAIN accounts
          PROVE  k \in Remaining(w)' <=> k \in Remaining(w) \ batch
      <4>1. k \in Remaining(w)' <=> (k > me.last /\ k \in PartKeys(me.part))
        BY <1>9, <3>2, <3>4 DEF Remaining
      <4> QED BY <1>9, <1>11, <2>2, <4>1
    <3>8. \A v \in Worker : /\ worker'[v].pc = "values" <=> worker'[v].keys # {}
                            /\ worker'[v].attempt \in 1..MaxRetries
      BY <1>2, <3>2, <3>4, <3>5
    <3> QED BY <1>2, <3>1, <3>4, <3>6, <3>7, <3>8
  <2>3. CASE rest = {} /\ ~me.more
    <3>1. TakePartition(w) /\ me.pc # "ended"
      BY <1>1, <1>8, <2>3
    <3>2. /\ Positions' /\ worker' \in [Worker -> WorkerState] /\ next' \in 1..(Partitions + 1)
          /\ worker' = [worker EXCEPT ![w] = worker'[w]]
          /\ worker'[w].pc # "values" /\ worker'[w].keys = {} /\ worker'[w].attempt = 1
          /\ \A k \in DOMAIN accounts : (k \in Waiting' \/ k \in Remaining(w)') <=> k \in Waiting
      BY <1>1, <3>1, TakesPartition
    <3>3. \A v \in Worker : v # w => worker'[v] = worker[v]
      BY <1>2, <3>2
    <3>4. \A k \in DOMAIN accounts : k \notin Remaining(w) \ batch
      BY <1>9, <2>3
    <3>5. \A v \in Worker : /\ worker'[v].pc = "values" <=> worker'[v].keys # {}
                            /\ worker'[v].attempt \in 1..MaxRetries
      BY <1>2, <3>2, <3>3
    <3> QED BY <3>2, <3>4, <3>5
  <2> QED BY <2>1, <2>2, <2>3
<1>13. Processed' = Processed \cup batch
  BY <1>1, <1>10, <1>12, PendingAfter
<1>14. FileInv' /\ IsFiniteSet(DOMAIN file') /\ DOMAIN file' \subseteq Nat
  BY <1>1, <1>7, <1>10, <1>13, LinesWritten
<1> QED BY <1>1, <1>2, <1>12, <1>14, ScanFrame

LEMMA CallFailsKeeps ==
  ASSUME SnapshotInv, NEW w \in Worker, CallFails(w)
  PROVE  SnapshotInv'
<1>1. /\ phase = "scan" /\ worker[w].pc # "ended" /\ timeouts < MaxTimeouts
      /\ timeouts' = timeouts + 1
      /\ UNCHANGED <<chain, window, snapshotBlock, mapVars, next, file, unwritten, tree>>
  BY DEF CallFails
<1>2. /\ worker \in [Worker -> WorkerState] /\ worker[w].attempt \in 1..MaxRetries
      /\ next \in 1..(Partitions + 1) /\ timeouts \in 0..MaxTimeouts
      /\ \A v \in Worker : worker[v].pc = "values" <=> worker[v].keys # {}
      /\ \A v \in Worker : worker[v].attempt \in 1..MaxRetries
      /\ IsFiniteSet(DOMAIN file) /\ DOMAIN file \subseteq Nat
      /\ MaxRetries \in Nat /\ MaxTimeouts \in Nat /\ FileInv
  BY <1>1, ScanFacts, Limits DEF SnapshotInv, SnapshotTypeOK, ShapeInv
<1>3. timeouts' \in 0..MaxTimeouts
  BY <1>1, <1>2
<1>4. CASE /\ worker[w].attempt < MaxRetries
           /\ worker' = [worker EXCEPT ![w].attempt = @ + 1]
           /\ phase' = "scan"
  <2> DEFINE r == [worker[w] EXCEPT !.attempt = @ + 1]
  <2>1. worker' = [worker EXCEPT ![w] = r]
    BY <1>2, <1>4
  <2>2. /\ r \in WorkerState /\ r.pc = worker[w].pc /\ r.part = worker[w].part
        /\ r.last = worker[w].last /\ r.keys = worker[w].keys /\ r.more = worker[w].more
        /\ r.attempt \in 1..MaxRetries /\ r.last \in Nat /\ r.pc \in {"keys", "values"}
    BY <1>1, <1>2, <1>4 DEF WorkerState
  <2> HIDE DEF r
  <2>3. /\ r.last >= worker[w].last /\ r.keys \subseteq PartKeys(r.part)
        /\ \A k \in r.keys : k <= r.last
    BY <1>1, <2>2, ScanFacts DEF Positions
  <2>4. Positions' /\ worker' \in [Worker -> WorkerState] /\ worker'[w] = r
    BY <1>1, <2>1, <2>2, <2>3, StaysInPartition
  <2>5. \A v \in Worker : v # w => worker'[v] = worker[v]
    BY <1>2, <2>1
  <2>6. accounts' = accounts /\ \A p : PartKeys(p)' = PartKeys(p)
    BY <1>1 DEF accounts, PartKeys, startKey, IsPast
  <2>7. Waiting' = Waiting /\ Remaining(w)' = Remaining(w)
    BY <1>1, <2>2, <2>4, <2>6 DEF Waiting, Remaining
  <2>8. Processed' = Processed \cup {}
    BY <1>1, <2>1, <2>7, PendingAfter
  <2>9. FileInv'
    BY <1>1, <1>2, <1>4, <2>8, FileStays DEF Scanning
  <2>10. \A v \in Worker : /\ worker'[v].pc = "values" <=> worker'[v].keys # {}
                           /\ worker'[v].attempt \in 1..MaxRetries
    BY <1>2, <2>2, <2>4, <2>5
  <2> QED BY <1>1, <1>2, <1>3, <1>4, <2>4, <2>9, <2>10, ScanFrame
<1>5. CASE phase' = "failed" /\ UNCHANGED worker
  BY <1>1, <1>2, <1>3, <1>5, ScanFrame
<1> QED BY <1>1, <1>4, <1>5 DEF CallFails

LEMMA ScanEndsKeeps == SnapshotInv /\ ScanEnds => SnapshotInv'
<1> SUFFICES ASSUME SnapshotInv, ScanEnds PROVE SnapshotInv'
  OBVIOUS
<1> USE DEF Searching, Scanning
<1>1. /\ phase = "scan" /\ phase' = "build" /\ \A w \in Worker : worker[w] = Ended
      /\ UNCHANGED <<chain, window, snapshotBlock, mapVars, scanVars, timeouts, tree>>
  BY DEF ScanEnds
<1>2. /\ mapped' = mapped /\ lastMapped' = lastMapped /\ next' = next /\ worker' = worker
      /\ file' = file /\ unwritten' = unwritten
  BY <1>1 DEF mapVars, scanVars
<1>3. /\ currentBlock' = currentBlock /\ original' = original /\ accounts' = accounts
      /\ \A b : IsToday(b)' = IsToday(b)
  BY <1>1 DEF currentBlock, original, accounts, IsToday
<1>4. SnapshotTypeOK' /\ ShapeInv'
  BY <1>1, <1>2, <1>3 DEF SnapshotInv, SnapshotTypeOK, ShapeInv
<1>5. SearchInv' /\ MappedInv'
  BY <1>1, <1>2, <1>3 DEF SnapshotInv, SearchInv, SnapshotIsFirstOfToday, MappedInv
<1>6. WorkerInv'
  <2>1. Positions'
    BY <1>1, <1>2, <1>3 DEF SnapshotInv, WorkerInv, Positions, PartKeys, startKey, IsPast
  <2> QED BY <1>1, <1>2, <2>1, WorkerStates DEF WorkerInv
<1>7. FileInv'
  <2>1. Processed' = Processed
    BY <1>2, <1>3 DEF Processed, Pending, Waiting, Remaining, PartKeys, startKey, IsPast
  <2> QED BY <1>1, <1>2, <2>1, FileStays DEF SnapshotInv
<1>8. TreeInv'
  BY <1>1 DEF SnapshotInv, TreeInv
<1> QED BY <1>4, <1>5, <1>6, <1>7, <1>8 DEF SnapshotInv

(* The leaves are a list.                                                  *)
LEMMA LeavesAreAList ==
  ASSUME NEW balances, IsFiniteSet(DOMAIN balances)
  PROVE  /\ Len(LeavesOf(balances)) = Cardinality(DOMAIN balances)
         /\ Cardinality(DOMAIN balances) \in Nat
         /\ \E S : LeavesOf(balances) \in Seq(S)
<1> DEFINE n == Cardinality(DOMAIN balances)
           a(i) == CHOOSE x \in DOMAIN balances :
                       Cardinality({y \in DOMAIN balances : y <= x}) = i
           leaf(i) == <<"leaf", a(i), balances[a(i)]>>
           leaves == [i \in 1..n |-> leaf(i)]
<1>1. LeavesOf(balances) = leaves
  BY DEF LeavesOf
<1>2. n \in Nat
  BY FS_CardinalityType
<1> HIDE DEF n, leaf
<1>3. leaves \in Seq({leaf(i) : i \in 1..n}) /\ Len(leaves) = n
  BY <1>2
<1> HIDE DEF leaves
<1>4. \E S : leaves \in Seq(S)
  BY <1>3
<1> QED BY <1>1, <1>2, <1>3, <1>4 DEF n

LEMMA BuildKeeps == SnapshotInv /\ Build => SnapshotInv'
<1> SUFFICES ASSUME SnapshotInv, Build PROVE SnapshotInv'
  OBVIOUS
<1> USE DEF Searching, Scanning
<1>1. /\ phase = "build" /\ phase' \in {"done", "failed"}
      /\ UNCHANGED <<chain, window, snapshotBlock, mapVars, scanVars, timeouts>>
  BY DEF Build
<1>2. /\ mapped' = mapped /\ lastMapped' = lastMapped /\ next' = next /\ worker' = worker
      /\ file' = file /\ unwritten' = unwritten
  BY <1>1 DEF mapVars, scanVars
<1>3. /\ currentBlock' = currentBlock /\ original' = original /\ accounts' = accounts
      /\ \A b : IsToday(b)' = IsToday(b)
  BY <1>1 DEF currentBlock, original, accounts, IsToday
<1>4. tree = EmptyTree /\ tree.nextIndex = 0 /\ IsFiniteSet(DOMAIN file)
  BY <1>1 DEF SnapshotInv, TreeInv, EmptyTree, ShapeInv
<1>5. TreeInv' /\ tree'.nextIndex \in 0..Capacity
  <2>1. Capacity \in Nat
    <3>1. Depth \in Nat
      BY DepthAssumption
    <3> QED BY <3>1, Pow2Equation DEF Capacity
  <2>2. CASE CanInsert(EmptyTree, Cardinality(DOMAIN file))
    <3>1. tree' = bulkInsert(EmptyTree, LeavesOf(file)) /\ phase' = "done"
      BY <2>2 DEF Build
    <3>2. /\ Len(LeavesOf(file)) = Cardinality(DOMAIN file)
          /\ Cardinality(DOMAIN file) \in Nat
      BY <1>4, LeavesAreAList
    <3>3. Cardinality(DOMAIN file) <= Capacity
      BY <2>1, <2>2, <3>2 DEF CanInsert, EmptyTree
    <3>4. tree'.nextIndex = Cardinality(DOMAIN file)
      <4>1. tree'.nextIndex = EmptyTree.nextIndex + Len(LeavesOf(file))
        BY <3>1 DEF bulkInsert
      <4>2. EmptyTree.nextIndex = 0
        BY DEF EmptyTree
      <4> QED BY <3>2, <4>1, <4>2
    <3> QED BY <1>2, <2>1, <3>1, <3>2, <3>3, <3>4 DEF TreeInv
  <2>3. CASE ~CanInsert(EmptyTree, Cardinality(DOMAIN file))
    <3>1. phase' = "failed" /\ tree' = tree
      BY <2>3 DEF Build
    <3> QED BY <1>4, <2>1, <3>1 DEF TreeInv
  <2> QED BY <2>2, <2>3
<1>6. SnapshotTypeOK' /\ ShapeInv'
  BY <1>1, <1>2, <1>3, <1>5 DEF SnapshotInv, SnapshotTypeOK, ShapeInv
<1>7. SearchInv' /\ MappedInv'
  BY <1>1, <1>2, <1>3 DEF SnapshotInv, SearchInv, SnapshotIsFirstOfToday, MappedInv
<1>8. WorkerInv'
  <2>1. phase' = "done" => Positions'
    BY <1>1, <1>2, <1>3 DEF SnapshotInv, WorkerInv, Positions, PartKeys, startKey, IsPast
  <2> QED BY <1>1, <1>2, <2>1 DEF SnapshotInv, WorkerInv
<1>9. FileInv'
  <2>1. Processed' = Processed
    BY <1>2, <1>3 DEF Processed, Pending, Waiting, Remaining, PartKeys, startKey, IsPast
  <2>2. /\ \A k : Counts(k)' = Counts(k) /\ getEvmAddress(k, mapped)' = getEvmAddress(k, mapped)
        /\ \A a : AccountsFor(a)' = AccountsFor(a)
    BY <1>2, <1>3 DEF Counts, AccountsFor, AddressesOf, getEvmAddress
  <2> QED BY <1>1, <1>2, <1>3, <2>1, <2>2 DEF SnapshotInv, FileInv
<1> QED BY <1>5, <1>6, <1>7, <1>8, <1>9 DEF SnapshotInv

-----------------------------------------------------------------------------
(* Theorems *)

LEMMA SnapshotInitially == Init => SnapshotInv
<1> SUFFICES ASSUME Init PROVE SnapshotInv
  OBVIOUS
<1> USE DEF Init, Searching, Scanning
<1>1. currentBlock \in Nat \ {0} /\ MaxExpansions \in Nat
  BY ChainFacts, ChainAssumption
<1>2. Capacity \in Nat
  <2>1. Depth \in Nat
    BY DepthAssumption
  <2> QED BY <2>1, Pow2Equation DEF Capacity
<1>3. \A w \in Worker : /\ worker[w] = Ended /\ worker[w].pc = "ended" /\ worker[w].keys = {}
                        /\ worker[w].attempt = 1
  BY WorkerStates
<1>4. SnapshotTypeOK
  <2>1. tree.nextIndex = 0
    BY DEF EmptyTree
  <2>2. next \in 1..(Partitions + 1)
    BY PartitionFacts
  <2> QED BY <1>1, <1>2, <1>3, <2>1, <2>2, Limits DEF SnapshotTypeOK
<1>5. ShapeInv
  <2>1. worker \in [Worker -> WorkerState]
    BY WorkerStates
  <2>2. DOMAIN file = {}
    OBVIOUS
  <2> QED BY <2>1, <2>2, FS_EmptySet DEF ShapeInv
<1>6. SearchInv /\ MappedInv /\ WorkerInv /\ FileInv /\ TreeInv
  BY DEF SearchInv, SnapshotIsFirstOfToday, MappedInv, WorkerInv, FileInv, TreeInv
<1> QED BY <1>4, <1>5, <1>6 DEF SnapshotInv

LEMMA SnapshotStep == SnapshotInv /\ [Next]_vars => SnapshotInv'
<1>1. ASSUME SnapshotInv, UNCHANGED vars PROVE SnapshotInv'
  <2>1. /\ UNCHANGED <<chain, window, snapshotBlock, phase, next, worker, file, unwritten, timeouts, tree>>
        /\ mapped' = mapped /\ lastMapped' = lastMapped
    BY <1>1 DEF vars, mapVars, scanVars
  <2>2. /\ currentBlock' = currentBlock /\ original' = original /\ accounts' = accounts
        /\ \A b : IsToday(b)' = IsToday(b)
    BY <2>1 DEF currentBlock, original, accounts, IsToday
  <2>3. SnapshotTypeOK' /\ ShapeInv'
    BY <1>1, <2>1, <2>2 DEF SnapshotInv, SnapshotTypeOK, ShapeInv
  <2>4. SearchInv'
    <3>1. \A b : /\ BeforeMidnight(b)' = BeforeMidnight(b)
                 /\ AtLeast1(b)' = AtLeast1(b) /\ UpToHead(b)' = UpToHead(b)
      BY <2>1, <2>2 DEF BeforeMidnight, AtLeast1, UpToHead
    <3>2. SnapshotIsFirstOfToday'
      BY <1>1, <2>1, <2>2 DEF SnapshotInv, SearchInv, SnapshotIsFirstOfToday
    <3> QED BY <1>1, <2>1, <2>2, <3>1, <3>2 DEF SnapshotInv, SearchInv
  <2>5. MappedInv'
    BY <1>1, <2>1, <2>2 DEF SnapshotInv, MappedInv
  <2>6. WorkerInv'
    BY <1>1, <2>1, <2>2 DEF SnapshotInv, WorkerInv, Positions, PartKeys, startKey, IsPast
  <2>7. FileInv'
    <3>1. Processed' = Processed
      BY <2>1, <2>2 DEF Processed, Pending, Waiting, Remaining, PartKeys, startKey, IsPast
    <3>2. /\ \A k : Counts(k)' = Counts(k) /\ getEvmAddress(k, mapped)' = getEvmAddress(k, mapped)
          /\ \A a : AccountsFor(a)' = AccountsFor(a)
      BY <2>1, <2>2 DEF Counts, AccountsFor, AddressesOf, getEvmAddress
    <3> QED BY <1>1, <2>1, <2>2, <3>1, <3>2 DEF SnapshotInv, FileInv
  <2>8. TreeInv'
    BY <1>1, <2>1 DEF SnapshotInv, TreeInv
  <2> QED BY <2>3, <2>4, <2>5, <2>6, <2>7, <2>8 DEF SnapshotInv
<1>2. ASSUME SnapshotInv, Next PROVE SnapshotInv'
  BY <1>2, StartSearchKeeps, ExpandLeftKeeps, ExpandRightKeeps, BisectKeeps, FetchMappedKeeps,
     PreparationFailsKeeps, FetchKeysKeeps, FetchValuesKeeps, CallFailsKeeps, ScanEndsKeeps,
     BuildKeeps DEF Next
<1> QED BY <1>1, <1>2

(* The invariant holds throughout.                                         *)
THEOREM SnapshotInvariant == Spec => []SnapshotInv
BY SnapshotInitially, SnapshotStep, PTL DEF Spec

(***************************************************************************)
(* Types: a snapshot block and a mapped account only ever come from the    *)
(* chain, a worker has keys exactly while it awaits their values, no call  *)
(* is attempted more often than MaxRetries allows, and the tree never      *)
(* holds more than its capacity.                                           *)
(***************************************************************************)
THEOREM SnapshotTypes == Spec => []SnapshotTypeOK
<1>1. SnapshotInv => SnapshotTypeOK
  BY DEF SnapshotInv
<1> QED BY <1>1, SnapshotInvariant, PTL

(***************************************************************************)
(* getFirstBlockOfToday finds the first block of the day on every chain    *)
(* that meets ChainAssumption.                                             *)
(***************************************************************************)
THEOREM SearchFindsFirstOfToday == Spec => []SnapshotIsFirstOfToday
<1>1. SnapshotInv => SnapshotIsFirstOfToday
  BY DEF SnapshotInv, SearchInv
<1> QED BY <1>1, SnapshotInvariant, PTL

(***************************************************************************)
(* fetchAllBalances misses no account and adds none, for every storage,    *)
(* partitioning, size of pages and batches, and number of workers.         *)
(***************************************************************************)
THEOREM ScanMissesNothing == Spec => []ScanIsComplete
<1>1. SnapshotInv => ScanIsComplete
  <2> SUFFICES ASSUME SnapshotInv, phase \in {"build", "done"} PROVE ScanIsComplete
    BY DEF ScanIsComplete
  <2>1. phase \in Scanning /\ phase # "scan"
    BY DEF Scanning
  <2>2. /\ Positions /\ \A w \in Worker : worker[w].pc = "ended"
    BY <2>1 DEF SnapshotInv, WorkerInv
  <2>3. next > Partitions
    <3>1. 1 \in Worker
      BY Limits DEF Worker
    <3> QED BY <2>2, <3>1 DEF Positions
  <2>4. Processed = DOMAIN accounts
    <3>1. next \in Nat /\ Partitions \in Nat
      BY PartitionFacts DEF SnapshotInv, ShapeInv
    <3>2. next..Partitions = {}
      BY <2>3, <3>1
    <3> QED BY <2>2, <3>2 DEF Processed, Pending, Waiting, Remaining
  <2>5. /\ \A k \in Processed \ unwritten :
              Counts(k) => getEvmAddress(k, mapped) \in DOMAIN file
        /\ \A a \in DOMAIN file :
              \E k \in (AccountsFor(a) \cap Processed) \ unwritten : file[a] = accounts[k]
    BY <2>1 DEF SnapshotInv, FileInv
  <2>6. ASSUME NEW k \in DOMAIN accounts \ unwritten,
               accounts[k] >= MinBalance, AddressesOf(k) # {}
        PROVE  \E a \in DOMAIN file : k \in AccountsFor(a)
    <3> DEFINE a == getEvmAddress(k, mapped)
    <3>1. a \in DOMAIN file
      BY <2>4, <2>5, <2>6 DEF Counts
    <3>2. a \in AddressesOf(k)
      BY <2>1, <2>6, AddressOfAccount
    <3>3. k \in AccountsFor(a)
      BY <2>6, <3>2 DEF AccountsFor
    <3> QED BY <3>1, <3>3
  <2>7. \A a \in DOMAIN file : \E k \in AccountsFor(a) \ unwritten : file[a] = accounts[k]
    BY <2>5
  <2> QED BY <2>6, <2>7 DEF ScanIsComplete
<1> QED BY <1>1, SnapshotInvariant, PTL

(***************************************************************************)
(* The tree built of a snapshot is the client's: same root, same proofs,   *)
(* whatever the balances and the depth, and in whichever way the leaves    *)
(* are inserted.                                                           *)
(***************************************************************************)
THEOREM SnapshotTreesAgree == Spec => []TreesAgree
<1>1. SnapshotInv => TreesAgree
  <2> SUFFICES ASSUME SnapshotInv, phase = "done" PROVE TreesAgree
    BY DEF TreesAgree
  <2> DEFINE leaves == LeavesOf(file)
  <2>1. tree = bulkInsert(EmptyTree, leaves) /\ Cardinality(DOMAIN file) <= Capacity
    BY DEF SnapshotInv, TreeInv
  <2>2. IsFiniteSet(DOMAIN file)
    BY DEF SnapshotInv, ShapeInv
  <2>3. Len(leaves) <= Capacity /\ \E S : leaves \in Seq(S)
    BY <2>1, <2>2, LeavesAreAList
  <2> HIDE DEF leaves
  <2>4. PICK S : leaves \in Seq(S)
    BY <2>3
  <2>5. <<>> \in Seq(S) /\ <<>> \o leaves = leaves /\ Len(leaves) \in Nat
    BY <2>4
  <2>6. Represents(tree, leaves)
    BY <2>1, <2>4, <2>5, EmptyTreeRepresents, BulkInsertRepresents
  <2>7. ASSUME NEW n \in 0..Len(leaves)
        PROVE  Represents(bulkInsert(insertAll(EmptyTree, SubSeq(leaves, 1, n)),
                                     SubSeq(leaves, n + 1, Len(leaves))), leaves)
    <3> DEFINE front == SubSeq(leaves, 1, n)
               back  == SubSeq(leaves, n + 1, Len(leaves))
    <3>1. front \in Seq(S) /\ back \in Seq(S) /\ front \o back = leaves
      <4>1. front \in Seq(S) /\ back \in Seq(S)
        BY <2>4, <2>5
      <4>2. SubSeq(leaves, 1, n) \o SubSeq(leaves, n + 1, Len(leaves)) = SubSeq(leaves, 1, Len(leaves))
        <5>1. 1 \in 1..(Len(leaves) + 1) /\ n \in (1 - 1)..Len(leaves) /\ Len(leaves) \in n..Len(leaves)
          BY <2>5
        <5> QED BY <2>4, <5>1, ConcatAdjacentSubSeq
      <4>3. SubSeq(leaves, 1, Len(leaves)) = leaves
        BY <2>4, SubSeqFull
      <4> QED BY <4>1, <4>2, <4>3
    <3> HIDE DEF front, back
    <3>2. <<>> \o front = front
      BY <3>1
    <3>3. Represents(insertAll(EmptyTree, front), front)
      BY <2>5, <3>1, <3>2, EmptyTreeRepresents, InsertAllRepresents
    <3>4. Represents(bulkInsert(insertAll(EmptyTree, front), back), leaves)
      BY <3>1, <3>3, BulkInsertRepresents
    <3> QED BY <3>4 DEF front, back
  <2>8. /\ clientRoot(fromLeaves(leaves)) = getRoot(tree)
        /\ \A other : Represents(other, leaves) => getRoot(other) = getRoot(tree)
        /\ \A i \in 1..Len(leaves) :
              /\ clientProof(fromLeaves(leaves), i - 1) = getProof(tree, i - 1)
              /\ RootOfProof(leaves[i], getProof(tree, i - 1)) = getRoot(tree)
    BY <2>3, <2>4, <2>6, TreesOfLeavesAgree
  <2> QED BY <2>7, <2>8 DEF TreesAgree, leaves
<1> QED BY <1>1, SnapshotInvariant, PTL
=============================================================================
