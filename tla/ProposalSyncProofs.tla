------------------------- MODULE ProposalSyncProofs --------------------------
(***************************************************************************)
(* Proofs about the proposal sync.  What a sync still has to register, and *)
(* what it has sent, are referenda with the block they were created at;    *)
(* a block once known never changes, so neither does that.                 *)
(***************************************************************************)
EXTENDS ProposalSync, TLAPS

-----------------------------------------------------------------------------
(* The inductive invariant *)

(* A referendum with its block, as an answer of Subscan lists it.          *)
Known(ref) ==
    /\ ref \in Referendum
    /\ ref.block # 0
    /\ ref.block >= MinProposalBlock
    /\ ref.referendum <= Len(referenda)
    /\ referenda[ref.referendum] = ref.block

(* The referenda of a list that the loop does not skip are known ones.     *)
ListKnown(list) ==
    /\ list \in Seq(Referendum)
    /\ \A k \in 1..Len(list) : Eligible(list[k]) => Known(list[k])

(* A slot at work has one of them at hand.                                 *)
SyncKnown(s) ==
    /\ ListKnown(sync[s].todo)
    /\ sync[s].todo # <<>> => Eligible(Head(sync[s].todo))

SyncInv ==
    /\ SyncTypeOK
    /\ proposalBlock \in [ProposalId -> Block \cup {0}]
    /\ \A tx \in mempool : Known(tx)
    /\ \A s \in Slot : SyncKnown(s)
    /\ RegisteredAtItsBlock

LEMMA IdleKnown ==
    ASSUME NEW s \in Slot, sync[s].todo = <<>>
    PROVE  SyncKnown(s)
<1>1. ListKnown(<<>>)
  BY DEF ListKnown
<1>2. QED
  BY <1>1 DEF SyncKnown

LEMMA SyncInvInit == Init => SyncInv
<1> SUFFICES ASSUME Init
             PROVE  SyncInv
  OBVIOUS
<1> USE SyncAssumption, RegistryAssumption DEF Init, RegistryInit
<1>1. Idle \in Sync /\ Idle.pc = "idle" /\ Idle.todo = <<>>
  BY DEF Idle, Sync
<1>2. SyncTypeOK
  BY <1>1 DEF SyncTypeOK
<1>3. \A s \in Slot : SyncKnown(s)
  <2>1. \A s \in Slot : sync[s].todo = <<>>
    BY <1>1
  <2>2. QED
    BY <2>1, IdleKnown
<1>4. RegisteredAtItsBlock
  BY DEF RegisteredAtItsBlock
<1>5. proposalBlock \in [ProposalId -> Block \cup {0}]
  <2>1. proposalBlock = [p \in ProposalId |-> 0]
    OBVIOUS
  <2>2. QED
    BY ONLY <2>1
<1>6. mempool = {}
  OBVIOUS
<1> HIDE DEF Init, RegistryInit
<1>7. QED
  BY <1>2, <1>3, <1>4, <1>5, <1>6 DEF SyncInv

-----------------------------------------------------------------------------
(* Referenda *)

(* A referendum known stays known as long as no block that is set changes. *)
LEMMA KnownStays ==
    ASSUME Len(referenda') \in Nat, Len(referenda) <= Len(referenda'),
           Len(referenda) \in Nat,
           \A i \in 1..Len(referenda) : referenda[i] # 0 => referenda'[i] = referenda[i],
           NEW ref, Known(ref)
    PROVE  Known(ref)'
<1>1. ref.referendum \in 1..Len(referenda)
  BY SyncAssumption DEF Known, Referendum
<1>2. referenda'[ref.referendum] = ref.block
  BY <1>1 DEF Known
<1>3. ref.referendum <= Len(referenda')
  BY <1>1
<1>4. QED
  BY <1>2, <1>3 DEF Known

(* The invariant survives what only adds to the referenda.                 *)
LEMMA ReferendaGrow ==
    ASSUME SyncInv,
           referenda' \in Seq(Block \cup {0}), Len(referenda') <= MaxReferenda,
           Len(referenda) <= Len(referenda'),
           \A i \in 1..Len(referenda) : referenda[i] # 0 => referenda'[i] = referenda[i],
           UNCHANGED <<registryVars, sync, mempool, failures>>
    PROVE  SyncInv'
<1> USE DEF SyncInv, SyncTypeOK, registryVars
<1>1. /\ Len(referenda) \in Nat /\ Len(referenda') \in Nat
      /\ UNCHANGED <<proposalBlock, sync, mempool, failures>>
  OBVIOUS
<1>2. \A ref : Known(ref) => Known(ref)'
  BY <1>1, KnownStays
<1>3. \A tx \in mempool' : Known(tx)'
  BY <1>1, <1>2
<1>4. ASSUME NEW s \in Slot
      PROVE  SyncKnown(s)'
  BY <1>1, <1>2 DEF SyncKnown, ListKnown
<1>5. RegisteredAtItsBlock'
  <2> SUFFICES ASSUME NEW i \in 1..MaxReferenda, proposalBlock[ProposalIdOf[i]] # 0
               PROVE  /\ i <= Len(referenda')
                      /\ proposalBlock[ProposalIdOf[i]] = referenda'[i]
                      /\ proposalBlock[ProposalIdOf[i]] >= MinProposalBlock
    BY <1>1 DEF RegisteredAtItsBlock
  <2>1. /\ i <= Len(referenda)
        /\ proposalBlock[ProposalIdOf[i]] = referenda[i]
        /\ proposalBlock[ProposalIdOf[i]] >= MinProposalBlock
    BY DEF RegisteredAtItsBlock
  <2>2. i \in 1..Len(referenda)
    BY <2>1, <1>1, SyncAssumption
  <2>3. QED
    BY <2>1, <2>2, <1>1, SyncAssumption
<1>6. SyncTypeOK'
  BY <1>1
<1>7. QED
  BY <1>1, <1>3, <1>4, <1>5, <1>6

LEMMA CreateKeeps ==
    ASSUME SyncInv, Create
    PROVE  SyncInv'
<1> PICK b \in Block \cup {0} : referenda' = Append(referenda, b)
  BY DEF Create
<1>1. /\ referenda \in Seq(Block \cup {0})
      /\ Len(referenda) < MaxReferenda
      /\ UNCHANGED <<registryVars, sync, mempool, failures>>
  BY DEF Create, SyncInv, SyncTypeOK
<1>2. /\ referenda' \in Seq(Block \cup {0})
      /\ Len(referenda') = Len(referenda) + 1
      /\ \A i \in 1..Len(referenda) : referenda'[i] = referenda[i]
  BY <1>1
<1>3. Len(referenda') <= MaxReferenda /\ Len(referenda) <= Len(referenda')
  BY <1>1, <1>2, SyncAssumption
<1>4. QED
  BY <1>1, <1>2, <1>3, ReferendaGrow

LEMMA LearnBlockKeeps ==
    ASSUME SyncInv, LearnBlock
    PROVE  SyncInv'
<1> PICK n \in 1..Len(referenda), b \in Block :
        referenda[n] = 0 /\ referenda' = [referenda EXCEPT ![n] = b]
  BY DEF LearnBlock
<1>1. /\ referenda \in Seq(Block \cup {0})
      /\ Len(referenda) <= MaxReferenda
      /\ UNCHANGED <<registryVars, sync, mempool, failures>>
  BY DEF LearnBlock, SyncInv, SyncTypeOK
<1>2. /\ referenda' \in Seq(Block \cup {0})
      /\ Len(referenda') = Len(referenda)
      /\ \A i \in 1..Len(referenda) : referenda[i] # 0 => referenda'[i] = referenda[i]
  BY <1>1
<1>3. QED
  BY <1>1, <1>2, ReferendaGrow

-----------------------------------------------------------------------------
(* The sync *)

(* What is left of a list after some of it is known as well.               *)
LEMMA RestKnown ==
    ASSUME NEW list, ListKnown(list), NEW k \in 1..Len(list), Eligible(list[k])
    PROVE  /\ SubSeq(list, k, Len(list)) # <<>>
           /\ ListKnown(SubSeq(list, k, Len(list)))
           /\ Eligible(Head(SubSeq(list, k, Len(list))))
<1> DEFINE rest == SubSeq(list, k, Len(list))
<1>1. list \in Seq(Referendum) /\ Len(list) \in Nat
  BY DEF ListKnown
<1>2. /\ rest \in Seq(Referendum)
      /\ Len(rest) = Len(list) - k + 1
      /\ \A j \in 1..Len(rest) : rest[j] = list[k + j - 1] /\ k + j - 1 \in 1..Len(list)
  BY <1>1
<1> HIDE DEF rest
<1>3. rest # <<>> /\ Head(rest) = list[k]
  BY <1>1, <1>2
<1>4. ListKnown(rest)
  BY <1>2 DEF ListKnown
<1>5. QED
  BY <1>3, <1>4 DEF rest

(* Going on with a list that is known keeps what a slot must satisfy.      *)
LEMMA GotoKeeps ==
    ASSUME SyncInv, NEW s \in Slot, NEW list, ListKnown(list), Goto(s, list),
           UNCHANGED referenda
    PROVE  /\ sync' \in [Slot -> Sync]
           /\ \A t \in Slot : sync'[t].pc = "idle" <=> sync'[t].todo = <<>>
           /\ \A t \in Slot : SyncKnown(t)'
<1> PICK k \in 1..(Len(list) + 1) :
        /\ k <= Len(list) => Eligible(list[k])
        /\ sync' = [sync EXCEPT ![s] =
                        IF k > Len(list) THEN Idle
                        ELSE [pc |-> "send", todo |-> SubSeq(list, k, Len(list))]]
  BY DEF Goto
<1> DEFINE new == IF k > Len(list) THEN Idle
                  ELSE [pc |-> "send", todo |-> SubSeq(list, k, Len(list))]
<1>1. /\ new \in Sync
      /\ new.pc = "idle" <=> new.todo = <<>>
      /\ ListKnown(new.todo)
      /\ new.todo # <<>> => Eligible(Head(new.todo))
  <2>1. CASE k > Len(list)
    BY <2>1 DEF Idle, Sync, ListKnown
  <2>2. CASE ~(k > Len(list))
    <3>1. list \in Seq(Referendum) /\ k \in 1..Len(list)
      BY <2>2 DEF ListKnown
    <3>2. /\ SubSeq(list, k, Len(list)) # <<>>
          /\ ListKnown(SubSeq(list, k, Len(list)))
          /\ Eligible(Head(SubSeq(list, k, Len(list))))
      BY <3>1, RestKnown
    <3>3. SubSeq(list, k, Len(list)) \in Seq(Referendum)
      BY <3>2 DEF ListKnown
    <3>4. QED
      BY <2>2, <3>2, <3>3 DEF Sync
  <2>3. QED
    BY <2>1, <2>2
<1>2. /\ sync \in [Slot -> Sync]
      /\ \A t \in Slot : sync[t].pc = "idle" <=> sync[t].todo = <<>>
      /\ \A t \in Slot : SyncKnown(t)
  BY DEF SyncInv, SyncTypeOK
<1>3. sync' = [sync EXCEPT ![s] = new]
  OBVIOUS
<1> HIDE DEF new
<1>4. \A t \in Slot : sync'[t] = IF t = s THEN new ELSE sync[t]
  BY <1>2, <1>3
<1>5. ASSUME NEW t \in Slot
      PROVE  SyncKnown(t)'
  <2>1. \A ref : Known(ref) => Known(ref)'
    BY DEF Known
  <2>2. CASE t = s
    BY <1>1, <1>4, <2>1, <2>2 DEF SyncKnown, ListKnown
  <2>3. CASE t # s
    BY <1>2, <1>4, <2>1, <2>3 DEF SyncKnown, ListKnown
  <2>4. QED
    BY <2>2, <2>3
<1>6. QED
  BY <1>1, <1>2, <1>3, <1>4, <1>5

(* A step that sets no proposal's block and sends nothing.                 *)
LEMMA QuietKeeps ==
    ASSUME SyncInv, UNCHANGED <<registryVars, referenda, mempool>>,
           failures' \in 0..MaxFailures,
           sync' \in [Slot -> Sync],
           \A t \in Slot : sync'[t].pc = "idle" <=> sync'[t].todo = <<>>,
           \A t \in Slot : SyncKnown(t)'
    PROVE  SyncInv'
<1>1. UNCHANGED <<proposalBlock, referenda, mempool>>
  BY DEF registryVars
<1>2. SyncTypeOK'
  BY <1>1 DEF SyncInv, SyncTypeOK
<1>3. \A tx \in mempool' : Known(tx)'
  BY <1>1 DEF SyncInv, Known
<1>4. RegisteredAtItsBlock'
  BY <1>1 DEF SyncInv, RegisteredAtItsBlock
<1>5. QED
  BY <1>1, <1>2, <1>3, <1>4 DEF SyncInv

(* The referendum a slot has at hand, and those left after it, are known.  *)
LEMMA AtHand ==
    ASSUME SyncInv, NEW s \in Slot, sync[s].pc # "idle"
    PROVE  /\ Known(Head(sync[s].todo))
           /\ ListKnown(Tail(sync[s].todo))
<1>1. /\ sync[s].todo # <<>>
      /\ ListKnown(sync[s].todo)
      /\ Eligible(Head(sync[s].todo))
  BY DEF SyncInv, SyncTypeOK, SyncKnown
<1>2. ASSUME NEW list, list # <<>>, ListKnown(list), Eligible(Head(list))
      PROVE  Known(Head(list)) /\ ListKnown(Tail(list))
  <2>1. /\ Len(list) \in Nat \ {0}
        /\ Tail(list) \in Seq(Referendum)
        /\ Len(Tail(list)) = Len(list) - 1
        /\ Head(list) = list[1]
    BY <1>2 DEF ListKnown
  <2>2. \A k \in 1..Len(Tail(list)) : Tail(list)[k] = list[k + 1] /\ k + 1 \in 1..Len(list)
    BY <1>2, <2>1 DEF ListKnown
  <2>3. 1 \in 1..Len(list)
    BY <2>1
  <2>4. QED
    BY <1>2, <2>1, <2>2, <2>3 DEF ListKnown
<1>3. QED
  BY <1>1, <1>2

(* The latest referenda are listed with their blocks.                      *)
LEMMA LatestKnown ==
    ASSUME SyncInv
    PROVE  ListKnown(LatestReferenda)
<1> DEFINE n == IF Len(referenda) < PageSize THEN Len(referenda) ELSE PageSize
           i(k) == Len(referenda) + 1 - k
<1>1. /\ referenda \in Seq(Block \cup {0})
      /\ Len(referenda) \in Nat /\ Len(referenda) <= MaxReferenda
      /\ MaxReferenda \in Nat /\ PageSize \in Nat
  BY SyncAssumption DEF SyncInv, SyncTypeOK
<1>2. n \in Nat /\ n <= Len(referenda)
  BY <1>1
<1>3. \A k \in 1..n : i(k) \in 1..Len(referenda) /\ i(k) \in 1..MaxReferenda
  BY <1>1, <1>2
<1>4. LatestReferenda = [k \in 1..n |-> [referendum |-> i(k), block |-> referenda[i(k)]]]
  BY DEF LatestReferenda
<1> HIDE DEF n, i
<1>5. \A k \in 1..n : referenda[i(k)] \in Block \cup {0}
  BY <1>1, <1>3
<1>6. \A k \in 1..n : [referendum |-> i(k), block |-> referenda[i(k)]] \in Referendum
  BY <1>3, <1>5 DEF Referendum
<1>7. LatestReferenda \in [1..n -> Referendum]
  BY <1>4, <1>6
<1>8. LatestReferenda \in Seq(Referendum) /\ Len(LatestReferenda) = n
  BY <1>2, <1>7
<1>9. ASSUME NEW k \in 1..n, Eligible(LatestReferenda[k])
      PROVE  Known(LatestReferenda[k])
  <2>1. LatestReferenda[k] = [referendum |-> i(k), block |-> referenda[i(k)]]
    BY <1>4
  <2>2. i(k) <= Len(referenda)
    BY <1>1, <1>3
  <2>3. QED
    BY <1>6, <1>9, <2>1, <2>2 DEF Known, Eligible
<1>10. QED
  BY <1>8, <1>9 DEF ListKnown

(* A step of a slot, by what it goes on with.                              *)
LEMMA GoesOn ==
    ASSUME SyncInv, NEW s \in Slot, NEW list, ListKnown(list), Goto(s, list),
           UNCHANGED <<registryVars, referenda, mempool>>, failures' \in 0..MaxFailures
    PROVE  SyncInv'
<1>1. UNCHANGED referenda
  OBVIOUS
<1>2. QED
  BY <1>1, GotoKeeps, QuietKeeps

LEMMA RegisterNextKeeps ==
    ASSUME SyncInv, NEW s \in Slot, RegisterNext(s)
    PROVE  SyncInv'
<1> DEFINE ref == Head(sync[s].todo)
<1>1. /\ sync[s].pc = "send"
      /\ UNCHANGED <<registryVars, referenda, failures>>
  BY DEF RegisterNext
<1>2. Known(ref) /\ ListKnown(Tail(sync[s].todo))
  BY <1>1, AtHand
<1>3. failures' \in 0..MaxFailures
  BY <1>1 DEF SyncInv, SyncTypeOK
<1>4. CASE Goto(s, Tail(sync[s].todo)) /\ UNCHANGED mempool
  BY <1>1, <1>2, <1>3, <1>4, GoesOn
<1>5. CASE /\ mempool' = mempool \cup {ref}
           /\ sync' = [sync EXCEPT ![s].pc = "wait"]
  <2>1. UNCHANGED <<proposalBlock, referenda, failures>>
    BY <1>1 DEF registryVars
  <2>2. \A x : Known(x) <=> Known(x)'
    BY <2>1 DEF Known
  <2>3. ref \in Referendum
    BY <1>2 DEF Known
  <2>4. sync \in [Slot -> Sync]
    BY DEF SyncInv, SyncTypeOK
  <2>5. /\ sync' \in [Slot -> Sync]
        /\ \A t \in Slot : /\ sync'[t].todo = sync[t].todo
                           /\ sync'[t].pc = IF t = s THEN "wait" ELSE sync[t].pc
    BY <1>5, <2>4 DEF Sync
  <2>6. \A t \in Slot : sync'[t].pc = "idle" <=> sync'[t].todo = <<>>
    BY <1>1, <2>5 DEF SyncInv, SyncTypeOK
  <2> HIDE DEF ref
  <2>7. SyncTypeOK'
    BY <1>5, <2>1, <2>3, <2>5, <2>6 DEF SyncInv, SyncTypeOK
  <2>8. \A t \in Slot : SyncKnown(t)'
    BY <2>2, <2>5 DEF SyncInv, SyncKnown, ListKnown
  <2>9. \A tx \in mempool' : Known(tx)'
    BY <1>2, <1>5, <2>2 DEF SyncInv
  <2>10. RegisteredAtItsBlock'
    BY <2>1 DEF SyncInv, RegisteredAtItsBlock
  <2>11. QED
    BY <2>1, <2>7, <2>8, <2>9, <2>10 DEF SyncInv
<1>6. \/ Goto(s, Tail(sync[s].todo)) /\ UNCHANGED mempool
      \/ /\ mempool' = mempool \cup {ref}
         /\ sync' = [sync EXCEPT ![s].pc = "wait"]
  BY DEF RegisterNext
<1> QED
  BY <1>4, <1>5, <1>6

LEMMA SlotKeeps ==
    ASSUME SyncInv, NEW s \in Slot,
           SyncProposals(s) \/ RegisterNext(s) \/ SendFails(s) \/ Receipt(s)
    PROVE  SyncInv'
<1>1. failures \in 0..MaxFailures /\ MaxFailures \in Nat
  BY SyncAssumption DEF SyncInv, SyncTypeOK
<1>2. CASE SyncProposals(s)
  BY <1>1, <1>2, LatestKnown, GoesOn DEF SyncProposals
<1>3. CASE RegisterNext(s)
  BY <1>3, RegisterNextKeeps
<1>4. CASE SendFails(s)
  <2>1. failures' \in 0..MaxFailures /\ sync[s].pc # "idle"
    BY <1>1, <1>4 DEF SendFails
  <2>2. QED
    BY <1>4, <2>1, AtHand, GoesOn DEF SendFails
<1>5. CASE Receipt(s)
  <2>1. failures' \in 0..MaxFailures /\ sync[s].pc # "idle"
    BY <1>1, <1>5 DEF Receipt
  <2>2. QED
    BY <1>5, <2>1, AtHand, GoesOn DEF Receipt
<1>6. QED
  BY <1>2, <1>3, <1>4, <1>5

(* A restart forgets what is left to do and nothing else.                  *)
LEMMA CrashKeeps ==
    ASSUME SyncInv, Crash
    PROVE  SyncInv'
<1>1. Idle \in Sync /\ Idle.pc = "idle" /\ Idle.todo = <<>>
  BY DEF Idle, Sync
<1>2. /\ sync' = [s \in Slot |-> Idle]
      /\ UNCHANGED <<registryVars, referenda, mempool>>
      /\ failures' \in 0..MaxFailures
  BY SyncAssumption DEF Crash, SyncInv, SyncTypeOK
<1>3. ASSUME NEW s \in Slot
      PROVE  SyncKnown(s)'
  <2>1. (sync[s].todo = <<>>)'
    BY <1>1, <1>2
  <2>2. ListKnown(<<>>)'
    BY DEF ListKnown
  <2>3. QED
    BY <2>1, <2>2 DEF SyncKnown
<1>4. /\ sync' \in [Slot -> Sync]
      /\ \A s \in Slot : sync'[s].pc = "idle" <=> sync'[s].todo = <<>>
  BY <1>1, <1>2
<1>5. UNCHANGED <<registryVars, referenda, mempool>>
  BY <1>2
<1>6. QED
  BY <1>2, <1>3, <1>4, <1>5, QuietKeeps

(***************************************************************************)
(* The one step that records a block records that of a known referendum;   *)
(* that ids differ is what keeps it from being taken for another's.        *)
(***************************************************************************)
LEMMA MineKeeps ==
    ASSUME SyncInv, NEW tx \in mempool, Mine(tx)
    PROVE  SyncInv'
<1> DEFINE p == ProposalIdOf[tx.referendum]
<1>1. Known(tx)
  BY DEF SyncInv
<1>2. /\ tx.referendum \in 1..MaxReferenda /\ tx.block \in Block
      /\ tx.referendum <= Len(referenda) /\ referenda[tx.referendum] = tx.block
      /\ tx.block >= MinProposalBlock
  BY <1>1 DEF Known, Referendum
<1>3. mempool' \subseteq mempool /\ UNCHANGED <<referenda, sync, failures>>
  BY DEF Mine
<1>4. \A x : Known(x) <=> Known(x)'
  BY <1>3 DEF Known
<1>5. proposalBlock' = proposalBlock \/ proposalBlock' = [proposalBlock EXCEPT ![p] = tx.block]
  BY DEF Mine, registerProposal, registryVars
<1>6. p \in ProposalId
  BY <1>2, SyncAssumption
<1>7. proposalBlock \in [ProposalId -> Block \cup {0}]
  BY DEF SyncInv
<1>8. proposalBlock' \in [ProposalId -> Block \cup {0}]
  BY <1>2, <1>5, <1>6, <1>7
<1>9. SyncTypeOK'
  <2>1. mempool' \in SUBSET Referendum
    BY <1>3 DEF SyncInv, SyncTypeOK
  <2>2. QED
    BY <1>3, <2>1 DEF SyncInv, SyncTypeOK
<1>10. \A t \in mempool' : Known(t)'
  BY <1>3, <1>4 DEF SyncInv
<1>11. \A s \in Slot : SyncKnown(s)'
  BY <1>3, <1>4 DEF SyncInv, SyncKnown, ListKnown
<1>12. RegisteredAtItsBlock'
  <2> SUFFICES ASSUME NEW i \in 1..MaxReferenda, proposalBlock'[ProposalIdOf[i]] # 0
               PROVE  /\ i <= Len(referenda)
                      /\ proposalBlock'[ProposalIdOf[i]] = referenda[i]
                      /\ proposalBlock'[ProposalIdOf[i]] >= MinProposalBlock
    BY <1>3 DEF RegisteredAtItsBlock
  <2>1. CASE proposalBlock'[ProposalIdOf[i]] = proposalBlock[ProposalIdOf[i]]
    BY <2>1 DEF SyncInv, RegisteredAtItsBlock
  <2>2. CASE proposalBlock'[ProposalIdOf[i]] # proposalBlock[ProposalIdOf[i]]
    <3>1. ProposalIdOf[i] \in ProposalId
      BY SyncAssumption
    <3>2. /\ ProposalIdOf[i] = ProposalIdOf[tx.referendum]
          /\ proposalBlock'[ProposalIdOf[i]] = tx.block
      BY <1>5, <1>6, <1>7, <2>2, <3>1
    <3>3. i = tx.referendum
      BY <1>2, <3>2, SyncAssumption
    <3>4. QED
      BY <1>2, <3>2, <3>3
  <2>3. QED
    BY <2>1, <2>2
<1>13. QED
  BY <1>8, <1>9, <1>10, <1>11, <1>12 DEF SyncInv

-----------------------------------------------------------------------------
(* Theorems *)

LEMMA SyncInvStep == SyncInv /\ [Next]_vars => SyncInv'
<1> SUFFICES ASSUME SyncInv, [Next]_vars
             PROVE  SyncInv'
  OBVIOUS
<1>1. CASE Create
  BY <1>1, CreateKeeps
<1>2. CASE LearnBlock
  BY <1>2, LearnBlockKeeps
<1>3. CASE Crash
  BY <1>3, CrashKeeps
<1>4. ASSUME NEW tx \in mempool, Mine(tx)
      PROVE  SyncInv'
  BY <1>4, MineKeeps
<1>5. ASSUME NEW s \in Slot,
             SyncProposals(s) \/ RegisterNext(s) \/ SendFails(s) \/ Receipt(s)
      PROVE  SyncInv'
  BY <1>5, SlotKeeps
<1>6. CASE UNCHANGED vars
  <2>1. UNCHANGED <<proposalBlock, referenda, sync, mempool, failures>>
    BY <1>6 DEF vars, registryVars, syncVars
  <2>2. QED
    BY <2>1 DEF SyncInv, SyncTypeOK, SyncKnown, ListKnown, Known, RegisteredAtItsBlock
<1>7. QED
  BY <1>1, <1>2, <1>3, <1>4, <1>5, <1>6 DEF Next

(* The strengthened invariant the theorems below rest on.                  *)
THEOREM SyncInvariant == Spec => []SyncInv
BY SyncInvInit, SyncInvStep, PTL DEF Spec

(* Every reachable state of the sync is of its type, for any number of     *)
(* syncs at a time.                                                        *)
THEOREM SyncTypeCorrect == Spec => []SyncTypeOK
<1>1. SyncInv => SyncTypeOK
  BY DEF SyncInv
<1>2. QED
  BY <1>1, SyncInvariant, PTL

(* A proposal on chain has the block its referendum was created at, for    *)
(* any number of referenda, overlapping syncs, failures and restarts.      *)
THEOREM RegisteredAtOwnBlock == Spec => []RegisteredAtItsBlock
<1>1. SyncInv => RegisteredAtItsBlock
  BY DEF SyncInv
<1>2. QED
  BY <1>1, SyncInvariant, PTL

(***************************************************************************)
(* The registry sees steps it allows only, so what is proved of it holds   *)
(* here: the block of a registered proposal never changes.                 *)
(***************************************************************************)
THEOREM SyncImplementsRegistry == Spec => RegistrySpec
<1>1. Init => RegistryInit
  BY DEF Init
<1>2. ASSUME SyncInv, [Next]_vars
      PROVE  [RegistryNext]_registryVars
  <2>1. ASSUME NEW tx \in mempool, Mine(tx)
        PROVE  [RegistryNext]_registryVars
    <3>1. /\ TreeBuilderKey \in Account
          /\ ProposalIdOf[tx.referendum] \in ProposalId
          /\ tx.block \in Block \cup {0}
      <4>1. Known(tx)
        BY <1>2 DEF SyncInv
      <4>2. QED
        BY <4>1, SyncAssumption DEF Known, Referendum
    <3>2. QED
      BY <2>1, <3>1 DEF Mine, RegistryNext
  <2>2. CASE UNCHANGED registryVars
    BY <2>2
  <2>3. QED
    BY <1>2, <2>1, <2>2
       DEF Next, vars, Create, LearnBlock, Crash, SyncProposals, RegisterNext, SendFails, Receipt
<1>3. QED
  BY <1>1, <1>2, SyncInvariant, PTL DEF Spec, RegistrySpec

=============================================================================
