----------------------- MODULE OwnershipIndexerProofs ------------------------
(***************************************************************************)
(* Proofs about the ownership side of the indexer.  A root taken for a     *)
(* submission may have gone stale by the time the chain executes it; what  *)
(* holds all along is that if it has as many leaves as there are           *)
(* registrations, it is the root of exactly these.                         *)
(***************************************************************************)
EXTENDS OwnershipIndexer, FiniteSetTheorems, TLAPS

-----------------------------------------------------------------------------
(* The inductive invariant *)

(***************************************************************************)
(* The indices in memory are as dense as they can be: k events have an     *)
(* index of at least k - 1, and those after the k-th fit below the last    *)
(* one seen.                                                               *)
(***************************************************************************)
IndicesFit ==
    LET events == currentRegistrations
    IN  /\ Len(events) <= lastSeenIndex + 1
        /\ \A k \in 1..Len(events) :
              /\ k - 1 <= events[k].index
              /\ events[k].index + (Len(events) - k) <= lastSeenIndex

WholeIfFull(root) ==
    /\ Len(root) <= Len(registrations)
    /\ Len(root) = Len(registrations) => root = registrations

PendingWhole ==
    /\ \A tx \in mempool : tx.count = Len(tx.root) /\ WholeIfFull(tx.root)
    /\ \A s \in Slot : WholeIfFull(activity[s].root)

TodoOnChain ==
    \A s \in Slot : activity[s].todo \subseteq 0..(Len(registrations) - 1)

IndexerInv ==
    /\ IndexerTypeOK
    /\ TodoOnChain
    /\ EventsInOrder
    /\ IndicesFit
    /\ PendingWhole
    /\ treeBuilder = TreeBuilderKey

LEMMA IndexerInvInit == Init => IndexerInv
<1> SUFFICES ASSUME Init
             PROVE  IndexerInv
  OBVIOUS
<1> USE IndexerAssumption DEF Init, RegistryInit
<1>1. Idle \in Activity
  BY DEF Idle, Activity
<1>2. IndexerTypeOK
  <2>1. registrations \in Seq(Registration) /\ currentRegistrations \in Seq(RegistrationEvent)
    OBVIOUS
  <2>2. windowStart \in 0..Len(registrations) /\ lastSeenIndex \in Int
    OBVIOUS
  <2>3. failures \in 0..MaxFailures /\ crashes \in 0..MaxCrashes
    OBVIOUS
  <2>4. activity \in [Slot -> Activity] /\ mempool \in SUBSET Submission
    BY <1>1
  <2>5. QED
    BY <2>1, <2>2, <2>3, <2>4 DEF IndexerTypeOK
<1>3. TodoOnChain /\ PendingWhole
  BY DEF TodoOnChain, PendingWhole, WholeIfFull, Idle
<1>4. EventsInOrder /\ IndicesFit
  BY DEF EventsInOrder, IndicesFit
<1>5. QED
  BY <1>2, <1>3, <1>4 DEF IndexerInv

-----------------------------------------------------------------------------
(* What a step does *)

(* The registrations only grow, and by one at a time.                      *)
LEMMA RegistrationsAppended ==
    ASSUME IndexerTypeOK, [Next]_vars
    PROVE  /\ registrations' \in Seq(Registration)
           /\ \/ UNCHANGED registrations
              \/ /\ Len(registrations') = Len(registrations) + 1
                 /\ \A i \in 1..Len(registrations) : registrations'[i] = registrations[i]
                 /\ UNCHANGED indexerVars
<1>1. registrations \in Seq(Registration)
  BY DEF IndexerTypeOK
<1>2. CASE Register
  <2>1. PICK sender \in Account, c \in Commitment : register(sender, c)
    BY <1>2 DEF Register
  <2> DEFINE new == [account |-> sender, commitment |-> c]
  <2>2. registrations' = Append(registrations, new) /\ new \in Registration
    BY <2>1 DEF register, Registration
  <2>3. QED
    BY <1>1, <1>2, <2>2 DEF Register
<1>3. CASE UNCHANGED registrations
  BY <1>1, <1>3
<1>4. QED
  BY <1>2, <1>3
     DEF Next, vars, registryVars, BlocksPass, Mine, submitOwnershipRoot, Start, Listen, Crash,
         Poll, SubmitRoots, TakeRoot, Step, Uploaded, CheckCount, Send, Receipt, Fail, Return

(* A registration has the same event at any time.                          *)
LEMMA EventStays ==
    ASSUME IndexerTypeOK, [Next]_vars, NEW i \in 0..(Len(registrations) - 1)
    PROVE  EventAt(i)' = EventAt(i)
<1>1. i + 1 \in 1..Len(registrations)
  BY DEF IndexerTypeOK
<1>2. registrations'[i + 1] = registrations[i + 1]
  BY <1>1, RegistrationsAppended
<1>3. QED
  BY <1>2 DEF EventAt

LEMMA EventType ==
    ASSUME IndexerTypeOK, NEW i \in 0..(Len(registrations) - 1)
    PROVE  EventAt(i) \in RegistrationEvent
<1>1. i + 1 \in 1..Len(registrations) /\ i \in Nat
  BY DEF IndexerTypeOK
<1>2. registrations[i + 1] \in Registration
  BY <1>1 DEF IndexerTypeOK
<1>3. QED
  BY <1>1, <1>2 DEF EventAt, RegistrationEvent, Registration

LEMMA TreeType ==
    ASSUME currentRegistrations \in Seq(RegistrationEvent)
    PROVE  /\ TreeOf(currentRegistrations) \in Seq(Registration)
           /\ Len(TreeOf(currentRegistrations)) = Len(currentRegistrations)
<1> DEFINE events == currentRegistrations
<1>1. \A k \in 1..Len(events) : events[k] \in RegistrationEvent
  OBVIOUS
<1>2. \A k \in 1..Len(events) :
          [account |-> events[k].account, commitment |-> events[k].commitment] \in Registration
  BY <1>1 DEF RegistrationEvent, Registration
<1>3. QED
  BY <1>2 DEF TreeOf

(***************************************************************************)
(* An activity goes on: it takes up an event that is on chain, or becomes  *)
(* idle.  These are the effects of LookAt.                                 *)
(***************************************************************************)
LEMMA LookAtEffects ==
    ASSUME IndexerTypeOK, TodoOnChain, NEW s \in Slot,
           NEW todo \in SUBSET (0..(Len(registrations) - 1)), LookAt(s, todo)
    PROVE  /\ UNCHANGED <<running, listening>>
           /\ \E a \in Activity :
                 /\ a.todo \subseteq 0..(Len(registrations) - 1)
                 /\ a.root = <<>>
                 /\ activity' = [activity EXCEPT ![s] = a]
           /\ \/ UNCHANGED <<currentRegistrations, lastSeenIndex>>
              \/ \E i \in 0..(Len(registrations) - 1) :
                    /\ i > lastSeenIndex
                    /\ lastSeenIndex' = i
                    /\ currentRegistrations' = Append(currentRegistrations, EventAt(i))
<1>1. Len(registrations) \in Nat
  BY DEF IndexerTypeOK
<1>2. CASE HandleNewRegistration(s, todo)
  <2>1. PICK i \in todo :
            /\ i > lastSeenIndex
            /\ lastSeenIndex' = i
            /\ currentRegistrations' = Append(currentRegistrations, EventAt(i))
            /\ activity' = [activity EXCEPT ![s] =
                               [pc |-> "upload", todo |-> todo \ {i}, root |-> <<>>]]
            /\ UNCHANGED <<running, listening>>
    BY <1>2 DEF HandleNewRegistration
  <2> DEFINE a == [pc |-> "upload", todo |-> todo \ {i}, root |-> <<>>]
  <2>2. a \in Activity
    BY <1>1 DEF Activity
  <2>3. QED
    BY <2>1, <2>2
<1>3. CASE activity' = [activity EXCEPT ![s] = Idle] /\ UNCHANGED memoryVars
  <2>1. Idle \in Activity /\ Idle.todo = {} /\ Idle.root = <<>>
    BY DEF Idle, Activity
  <2>2. QED
    BY <1>3, <2>1 DEF memoryVars
<1>4. QED
  BY <1>2, <1>3 DEF LookAt

(***************************************************************************)
(* The heart of the matter: if the tree in memory has as many leaves as    *)
(* there are registrations, the indices of its events leave no gap.        *)
(***************************************************************************)
LEMMA TreeWhole ==
    ASSUME IndexerInv
    PROVE  WholeIfFull(TreeOf(currentRegistrations))
<1> DEFINE events == currentRegistrations
           n == Len(registrations)
<1>1. /\ registrations \in Seq(Registration) /\ n \in Nat
      /\ events \in Seq(RegistrationEvent) /\ Len(events) \in Nat
      /\ lastSeenIndex \in Int /\ lastSeenIndex < n
  BY DEF IndexerInv, IndexerTypeOK, EventsInOrder
<1>2. Len(TreeOf(events)) = Len(events)
  BY <1>1, TreeType
<1>3. Len(events) <= n
  BY <1>1 DEF IndexerInv, IndicesFit
<1>4. ASSUME Len(events) = n, NEW k \in 1..n
      PROVE  TreeOf(events)[k] = registrations[k]
  <2>1. events[k] \in RegistrationEvent
    BY <1>1, <1>4
  <2>2. events[k].index \in Nat
    BY <2>1 DEF RegistrationEvent
  <2>3. k - 1 <= events[k].index /\ events[k].index + (Len(events) - k) <= lastSeenIndex
    BY <1>4 DEF IndexerInv, IndicesFit
  <2>4. events[k].index = k - 1
    BY <1>1, <1>4, <2>2, <2>3
  <2>5. events[k] = EventAt(k - 1)
    <3>1. events[k] = EventAt(events[k].index)
      BY <1>4 DEF IndexerInv, EventsInOrder
    <3>2. QED
      BY <2>4, <3>1
  <2>6. events[k].account = registrations[k].account
        /\ events[k].commitment = registrations[k].commitment
    <3>1. k - 1 + 1 = k
      OBVIOUS
    <3>2. EventAt(k - 1).account = registrations[k].account
          /\ EventAt(k - 1).commitment = registrations[k].commitment
      BY <3>1 DEF EventAt
    <3>3. QED
      BY <2>5, <3>2
  <2>7. registrations[k] \in Registration
    BY <1>1
  <2>8. QED
    BY <1>4, <2>6, <2>7 DEF TreeOf, Registration
<1>5. ASSUME Len(events) = n
      PROVE  TreeOf(events) = registrations
  <2>1. TreeOf(events) \in Seq(Registration)
    BY <1>1, TreeType
  <2>2. QED
    BY <1>1, <1>2, <1>4, <1>5, <2>1
<1>6. QED
  BY <1>2, <1>3, <1>5 DEF WholeIfFull

(***************************************************************************)
(* The effects of a step of one activity.                                  *)
(***************************************************************************)
SlotEffect(s) ==
    /\ UNCHANGED <<registryVars, windowStart, running, listening, crashes>>
    /\ running
    /\ failures' \in 0..MaxFailures
    /\ \E a \in Activity :
          /\ a.todo \subseteq 0..(Len(registrations) - 1)
          /\ WholeIfFull(a.root)
          /\ activity' = [activity EXCEPT ![s] = a]
    /\ \/ UNCHANGED mempool
       \/ \E root \in Seq(Registration) :
             /\ WholeIfFull(root)
             /\ mempool' = mempool \cup {[root |-> root, count |-> Len(root)]}
    /\ \/ UNCHANGED <<currentRegistrations, lastSeenIndex>>
       \/ \E i \in 0..(Len(registrations) - 1) :
             /\ i > lastSeenIndex
             /\ lastSeenIndex' = i
             /\ currentRegistrations' = Append(currentRegistrations, EventAt(i))

LEMMA SlotEffects ==
    ASSUME IndexerInv, NEW s \in Slot, Poll(s) \/ SubmitRoots(s) \/ Step(s) \/ Fail(s)
    PROVE  SlotEffect(s)
<1> USE DEF IndexerInv
<1>1. /\ activity[s] \in Activity
      /\ activity[s].todo \in SUBSET (0..(Len(registrations) - 1))
      /\ activity[s].root \in Seq(Registration)
      /\ WholeIfFull(activity[s].root)
  BY DEF IndexerTypeOK, TodoOnChain, PendingWhole, Activity
<1>2. running
  BY DEF IndexerTypeOK, Poll, SubmitRoots, Step, Uploaded, CheckCount, Send, Receipt, Fail, Idle
<1>3. failures \in 0..MaxFailures /\ MaxFailures \in Nat
  BY IndexerAssumption DEF IndexerTypeOK
<1>4. WholeIfFull(<<>>)
  BY DEF WholeIfFull, IndexerTypeOK
<1>5. ASSUME NEW todo \in SUBSET (0..(Len(registrations) - 1)), LookAt(s, todo),
             UNCHANGED <<registryVars, windowStart, mempool, crashes>>,
             failures' \in 0..MaxFailures
      PROVE  SlotEffect(s)
  BY <1>2, <1>4, <1>5, LookAtEffects DEF SlotEffect
<1>6. ASSUME NEW todo \in SUBSET (0..(Len(registrations) - 1)), TakeRoot(s, todo)
      PROVE  SlotEffect(s)
  <2> DEFINE root == TreeOf(currentRegistrations)
             a == [pc |-> "check", todo |-> todo, root |-> root]
  <2>1. a \in Activity
    <3>1. root \in Seq(Registration) /\ todo \in SUBSET Nat
      BY TreeType DEF IndexerTypeOK
    <3>2. QED
      BY <3>1 DEF Activity
  <2>2. WholeIfFull(root)
    BY TreeWhole
  <2>3. QED
    BY <1>2, <1>3, <1>6, <2>1, <2>2 DEF SlotEffect, TakeRoot, memoryVars
<1>7. ASSUME NEW pc \in {"send", "wait"},
             activity' = [activity EXCEPT ![s].pc = pc],
             \/ UNCHANGED mempool
             \/ mempool' = mempool \cup {[root  |-> activity[s].root,
                                          count |-> Len(activity[s].root)]},
             UNCHANGED <<registryVars, windowStart, memoryVars, crashes, failures>>
      PROVE  SlotEffect(s)
  <2> DEFINE a == [activity[s] EXCEPT !.pc = pc]
  <2>1. a \in Activity /\ a.todo = activity[s].todo /\ a.root = activity[s].root
    BY <1>1 DEF Activity
  <2>2. activity' = [activity EXCEPT ![s] = a]
    BY <1>7
  <2>3. QED
    BY <1>1, <1>2, <1>3, <1>7, <2>1, <2>2 DEF SlotEffect, memoryVars
<1>8. CASE Poll(s)
  <2>1. windowStart..(Len(registrations) - 1) \in SUBSET (0..(Len(registrations) - 1))
    BY DEF IndexerTypeOK
  <2>2. QED
    BY <1>3, <1>5, <1>8, <2>1 DEF Poll
<1>9. CASE SubmitRoots(s)
  BY <1>6, <1>9 DEF SubmitRoots
<1>10. CASE Uploaded(s)
  BY <1>1, <1>6, <1>10 DEF Uploaded
<1>11. CASE CheckCount(s)
  BY <1>1, <1>3, <1>5, <1>7, <1>11 DEF CheckCount, Return
<1>12. CASE Send(s)
  BY <1>1, <1>3, <1>5, <1>7, <1>12 DEF Send, Return
<1>13. CASE Receipt(s)
  BY <1>1, <1>3, <1>5, <1>13 DEF Receipt, Return
<1>14. CASE Fail(s)
  BY <1>1, <1>3, <1>5, <1>14 DEF Fail, Return
<1>15. QED
  BY <1>8, <1>9, <1>10, <1>11, <1>12, <1>13, <1>14 DEF Step

-----------------------------------------------------------------------------
(* The invariant is preserved *)

LEMMA IndexerTypeStep ==
    ASSUME IndexerInv, [Next]_vars
    PROVE  IndexerTypeOK' /\ TodoOnChain'
<1> USE DEF IndexerInv
<1>1. /\ registrations' \in Seq(Registration)
      /\ Len(registrations) \in Nat /\ Len(registrations') \in Nat
      /\ Len(registrations) <= Len(registrations')
  BY RegistrationsAppended DEF IndexerTypeOK
<1>2. 0..(Len(registrations) - 1) \subseteq 0..(Len(registrations') - 1)
  BY <1>1
<1>3. CASE Register
  BY <1>1, <1>2, <1>3 DEF Register, indexerVars, memoryVars, IndexerTypeOK, TodoOnChain
<1>4. CASE BlocksPass
  BY <1>1, <1>4 DEF BlocksPass, registryVars, memoryVars, IndexerTypeOK, TodoOnChain
<1>5. CASE \E tx \in mempool : Mine(tx)
  BY <1>5 DEF Mine, submitOwnershipRoot, registryVars, memoryVars, IndexerTypeOK, TodoOnChain
<1>6. CASE Start
  <2>1. \A k \in 1..Len(registrations) : EventAt(k - 1) \in RegistrationEvent
    BY <1>1, EventType
  <2>2. currentRegistrations' \in Seq(RegistrationEvent)
    BY <1>1, <1>6, <2>1 DEF Start
  <2>3. QED
    BY <1>1, <1>6, <2>2 DEF Start, registryVars, IndexerTypeOK, TodoOnChain
<1>7. CASE Listen
  BY <1>7 DEF Listen, registryVars, IndexerTypeOK, TodoOnChain
<1>8. CASE Crash
  <2>1. Idle \in Activity /\ Idle.todo = {}
    BY DEF Idle, Activity
  <2>2. crashes' \in 0..MaxCrashes
    BY <1>8, IndexerAssumption DEF Crash, IndexerTypeOK
  <2>3. TodoOnChain'
    BY <1>8, <2>1 DEF Crash, TodoOnChain
  <2>4. /\ currentRegistrations' \in Seq(RegistrationEvent)
        /\ lastSeenIndex' \in Int
        /\ activity' \in [Slot -> Activity]
    BY <1>8, <2>1 DEF Crash
  <2>5. QED
    BY <1>8, <2>2, <2>3, <2>4 DEF Crash, registryVars, IndexerTypeOK
<1>9. CASE \E s \in Slot : Poll(s) \/ SubmitRoots(s) \/ Step(s) \/ Fail(s)
  <2>1. PICK s \in Slot : SlotEffect(s)
    BY <1>9, SlotEffects
  <2>2. activity' \in [Slot -> Activity] /\ TodoOnChain'
    BY <1>1, <2>1 DEF SlotEffect, registryVars, IndexerTypeOK, TodoOnChain
  <2>3. mempool' \in SUBSET Submission
    <3>1. \A root \in Seq(Registration) : [root |-> root, count |-> Len(root)] \in Submission
      BY DEF Submission
    <3>2. QED
      BY <2>1, <3>1 DEF SlotEffect, IndexerTypeOK
  <2>4. currentRegistrations' \in Seq(RegistrationEvent) /\ lastSeenIndex' \in Int
    <3>1. currentRegistrations \in Seq(RegistrationEvent) /\ lastSeenIndex \in Int
      BY DEF IndexerTypeOK
    <3>2. \A i \in 0..(Len(registrations) - 1) :
              Append(currentRegistrations, EventAt(i)) \in Seq(RegistrationEvent) /\ i \in Int
      BY <3>1, EventType
    <3>3. QED
      BY <2>1, <3>1, <3>2 DEF SlotEffect
  <2>5. QED
    BY <2>1, <2>2, <2>3, <2>4 DEF SlotEffect, registryVars, IndexerTypeOK
<1>10. CASE UNCHANGED vars
  BY <1>10 DEF vars, registryVars, indexerVars, memoryVars, IndexerTypeOK, TodoOnChain
<1>11. QED
  BY <1>3, <1>4, <1>5, <1>6, <1>7, <1>8, <1>9, <1>10 DEF Next

(* How a step changes the events in memory.                                *)
LEMMA MemoryEffects ==
    ASSUME IndexerInv, [Next]_vars
    PROVE  \/ UNCHANGED <<currentRegistrations, lastSeenIndex>>
           \/ /\ currentRegistrations' = <<>> /\ lastSeenIndex' = -1
           \/ /\ currentRegistrations' = [k \in 1..Len(registrations) |-> EventAt(k - 1)]
              /\ lastSeenIndex' = Len(registrations) - 1
              /\ UNCHANGED registrations
           \/ \E i \in 0..(Len(registrations) - 1) :
                 /\ i > lastSeenIndex
                 /\ lastSeenIndex' = i
                 /\ currentRegistrations' = Append(currentRegistrations, EventAt(i))
<1>1. CASE \E s \in Slot : Poll(s) \/ SubmitRoots(s) \/ Step(s) \/ Fail(s)
  BY <1>1, SlotEffects DEF SlotEffect
<1>2. CASE Start
  BY <1>2 DEF Start, registryVars
<1>3. CASE Crash
  BY <1>3 DEF Crash
<1>4. CASE UNCHANGED <<currentRegistrations, lastSeenIndex>>
  BY <1>4
<1>5. QED
  BY <1>1, <1>2, <1>3, <1>4
     DEF Next, vars, indexerVars, memoryVars, Register, BlocksPass, Mine, Listen

LEMMA EventsInOrderStep ==
    ASSUME IndexerInv, [Next]_vars
    PROVE  EventsInOrder' /\ IndicesFit'
<1> DEFINE events == currentRegistrations
           n == Len(registrations)
           NextEventAt(i) == [index      |-> i,
                              account    |-> registrations'[i + 1].account,
                              commitment |-> registrations'[i + 1].commitment]
<1>1. /\ n \in Nat /\ Len(registrations') \in Nat /\ n <= Len(registrations')
      /\ events \in Seq(RegistrationEvent)
      /\ lastSeenIndex \in Int /\ -1 <= lastSeenIndex /\ lastSeenIndex < n
  BY RegistrationsAppended DEF IndexerInv, IndexerTypeOK, EventsInOrder
<1>2. \A i \in 0..(n - 1) : NextEventAt(i) = EventAt(i) /\ EventAt(i).index = i
  <2>1. ASSUME NEW i \in 0..(n - 1)
        PROVE  EventAt(i)' = EventAt(i)
    BY EventStays DEF IndexerInv
  <2>2. QED
    BY <2>1 DEF EventAt
<1>3. ASSUME NEW k \in 1..Len(events)
      PROVE  /\ events[k].index \in 0..(n - 1)
             /\ events[k].index <= lastSeenIndex
             /\ events[k] = NextEventAt(events[k].index)
             /\ k - 1 <= events[k].index
             /\ events[k].index + (Len(events) - k) <= lastSeenIndex
  <2>1. events[k] \in RegistrationEvent
    BY <1>1
  <2>2. events[k].index \in Nat
    BY <2>1 DEF RegistrationEvent
  <2>3. events[k].index <= lastSeenIndex /\ events[k] = EventAt(events[k].index)
    BY DEF IndexerInv, EventsInOrder
  <2>4. events[k].index \in 0..(n - 1)
    BY <1>1, <2>2, <2>3
  <2> HIDE DEF NextEventAt
  <2>5. events[k] = NextEventAt(events[k].index)
    BY <1>2, <2>3, <2>4
  <2>6. QED
    BY <2>3, <2>4, <2>5 DEF IndexerInv, IndicesFit
<1>4. \A j, k \in 1..Len(events) : j < k => events[j].index < events[k].index
  BY DEF IndexerInv, EventsInOrder
<1>5. Len(events) \in Nat /\ Len(events) <= lastSeenIndex + 1
  BY <1>1 DEF IndexerInv, IndicesFit
<1>6. ASSUME -1 <= lastSeenIndex', lastSeenIndex' < Len(registrations'),
             \A k \in 1..Len(events') :
                 events'[k].index <= lastSeenIndex' /\ events'[k] = NextEventAt(events'[k].index),
             \A j, k \in 1..Len(events') : j < k => events'[j].index < events'[k].index
      PROVE  EventsInOrder'
  BY <1>6 DEF EventsInOrder, EventAt
<1> HIDE DEF NextEventAt
<1>7. CASE UNCHANGED <<currentRegistrations, lastSeenIndex>>
  <2>1. EventsInOrder'
    BY <1>1, <1>3, <1>4, <1>6, <1>7
  <2>2. IndicesFit'
    BY <1>3, <1>5, <1>7 DEF IndicesFit
  <2>3. QED
    BY <2>1, <2>2
<1>8. CASE currentRegistrations' = <<>> /\ lastSeenIndex' = -1
  BY <1>1, <1>6, <1>8 DEF IndicesFit
<1>9. CASE /\ currentRegistrations' = [k \in 1..n |-> EventAt(k - 1)]
           /\ lastSeenIndex' = n - 1
           /\ UNCHANGED registrations
  <2>1. Len(events') = n
    BY <1>1, <1>9
  <2>2. ASSUME NEW k \in 1..n
        PROVE  events'[k] = NextEventAt(k - 1) /\ events'[k].index = k - 1
    <3>1. k - 1 \in 0..(n - 1)
      BY <1>1
    <3>2. events'[k] = EventAt(k - 1)
      BY <1>9
    <3>3. QED
      BY <1>2, <3>1, <3>2
  <2>3. EventsInOrder'
    BY <1>1, <1>6, <1>9, <2>1, <2>2
  <2>4. IndicesFit'
    BY <1>1, <1>9, <2>1, <2>2 DEF IndicesFit
  <2>5. QED
    BY <2>3, <2>4
<1>10. CASE \E i \in 0..(n - 1) : /\ i > lastSeenIndex
                                  /\ lastSeenIndex' = i
                                  /\ currentRegistrations' = Append(events, EventAt(i))
  <2>1. PICK i \in 0..(n - 1) : /\ i > lastSeenIndex
                                /\ lastSeenIndex' = i
                                /\ currentRegistrations' = Append(events, EventAt(i))
    BY <1>10
  <2> DEFINE m == Len(events)
  <2>2. /\ Len(events') = m + 1
        /\ \A k \in 1..m : events'[k] = events[k]
        /\ events'[m + 1] = EventAt(i)
    <3>1. EventAt(i) \in RegistrationEvent
      BY EventType DEF IndexerInv
    <3>2. QED
      BY <1>1, <2>1, <3>1
  <2>3. events'[m + 1] = NextEventAt(i) /\ events'[m + 1].index = i
    BY <1>2, <2>2
  <2>4. ASSUME NEW k \in 1..(m + 1)
        PROVE  /\ events'[k].index <= i
               /\ events'[k] = NextEventAt(events'[k].index)
               /\ k - 1 <= events'[k].index
               /\ events'[k].index + (m + 1 - k) <= i
    <3>1. CASE k \in 1..m
      <4>1. events'[k] = events[k]
        BY <2>2, <3>1
      <4>2. /\ events[k].index \in Int /\ events[k].index <= lastSeenIndex
            /\ events[k] = NextEventAt(events[k].index)
            /\ k - 1 <= events[k].index
            /\ events[k].index + (m - k) <= lastSeenIndex
        BY <1>1, <1>3, <3>1
      <4>3. m \in Nat /\ i \in Int /\ lastSeenIndex \in Int /\ lastSeenIndex + 1 <= i
        BY <1>1, <1>5, <2>1
      <4>4. events[k].index <= i /\ events[k].index + (m + 1 - k) <= i
        <5> HIDE DEF m, events
        <5> QED BY <4>2, <4>3, <3>1
      <4>5. QED
        BY <4>1, <4>2, <4>4
    <3>2. CASE k = m + 1
      BY <1>1, <1>5, <2>1, <2>3, <3>2
    <3>3. QED
      BY <1>5, <3>1, <3>2
  <2>5. ASSUME NEW j \in 1..(m + 1), NEW k \in 1..(m + 1), j < k
        PROVE  events'[j].index < events'[k].index
    <3>1. j \in 1..m /\ events'[j] = events[j] /\ events[j].index <= lastSeenIndex
      BY <1>3, <1>5, <2>2, <2>5
    <3>2. CASE k \in 1..m
      BY <1>4, <2>2, <2>5, <3>1, <3>2
    <3>3. CASE k = m + 1
      BY <1>1, <1>3, <2>1, <2>3, <3>1, <3>3
    <3>4. QED
      BY <1>5, <3>2, <3>3
  <2>6. EventsInOrder'
    BY <1>1, <1>6, <2>1, <2>2, <2>4, <2>5
  <2>7. IndicesFit'
    BY <1>1, <1>5, <2>1, <2>2, <2>4 DEF IndicesFit
  <2>8. QED
    BY <2>6, <2>7
<1>11. QED
  BY <1>7, <1>8, <1>9, <1>10, MemoryEffects

(***************************************************************************)
(* A pending root stays whole if full: once the registrations outnumber    *)
(* its leaves they always will.                                            *)
(***************************************************************************)
LEMMA PendingStep ==
    ASSUME IndexerInv, [Next]_vars
    PROVE  PendingWhole'
<1> USE DEF IndexerInv
<1>1. ASSUME NEW root, Len(root) \in Nat, WholeIfFull(root)
      PROVE  WholeIfFull(root)'
  <2>1. Len(registrations) \in Nat
    BY DEF IndexerTypeOK
  <2>2. QED
    BY <1>1, <2>1, RegistrationsAppended DEF WholeIfFull
<1>2. \A tx \in mempool : Len(tx.root) \in Nat
  BY DEF IndexerTypeOK, Submission
<1>3. \A s \in Slot : Len(activity[s].root) \in Nat
  BY DEF IndexerTypeOK, Activity
<1>4. CASE \E s \in Slot : Poll(s) \/ SubmitRoots(s) \/ Step(s) \/ Fail(s)
  <2>1. PICK s \in Slot : SlotEffect(s)
    BY <1>4, SlotEffects
  <2>2. registrations' = registrations
    BY <2>1 DEF SlotEffect, registryVars
  <2>3. \A root : WholeIfFull(root)' <=> WholeIfFull(root)
    BY <2>2 DEF WholeIfFull
  <2>4. \A tx \in mempool' : tx.count = Len(tx.root) /\ WholeIfFull(tx.root)
    BY <2>1 DEF SlotEffect, PendingWhole
  <2>5. \A r \in Slot : WholeIfFull(activity'[r].root)
    BY <2>1 DEF SlotEffect, PendingWhole, IndexerTypeOK
  <2>6. QED
    BY <2>2, <2>4, <2>5 DEF PendingWhole, WholeIfFull
<1>5. CASE Crash
  <2>1. Idle.root = <<>>
    BY DEF Idle
  <2>2. mempool' = mempool /\ registrations' = registrations
        /\ activity' = [s \in Slot |-> Idle]
    BY <1>5 DEF Crash, registryVars
  <2>3. QED
    BY <2>1, <2>2 DEF PendingWhole, WholeIfFull, IndexerTypeOK
<1>6. CASE mempool' \subseteq mempool /\ UNCHANGED activity
  <2>1. \A tx \in mempool' : tx.count = Len(tx.root) /\ WholeIfFull(tx.root)'
    BY <1>1, <1>2, <1>6 DEF PendingWhole
  <2>2. \A s \in Slot : WholeIfFull(activity[s].root)'
    <3>1. ASSUME NEW s \in Slot, NEW root, root = activity[s].root
          PROVE  WholeIfFull(root)'
      BY <1>1, <1>3, <3>1 DEF PendingWhole
    <3>2. QED
      BY <1>6, <3>1 DEF WholeIfFull
  <2>3. QED
    BY <1>6, <2>1, <2>2 DEF PendingWhole, WholeIfFull
<1>7. QED
  BY <1>4, <1>5, <1>6
     DEF Next, vars, indexerVars, Register, BlocksPass, Mine, Start, Listen

LEMMA IndexerInvStep == IndexerInv /\ [Next]_vars => IndexerInv'
<1> SUFFICES ASSUME IndexerInv, [Next]_vars
             PROVE  IndexerInv'
  OBVIOUS
<1>1. treeBuilder' = treeBuilder
  <2>1. ASSUME NEW s \in Slot, Poll(s) \/ SubmitRoots(s) \/ Step(s) \/ Fail(s)
        PROVE  treeBuilder' = treeBuilder
    BY <2>1, SlotEffects DEF SlotEffect, registryVars
  <2>2. QED
    BY <2>1 DEF Next, vars, registryVars, Register, register, BlocksPass, Mine,
                submitOwnershipRoot, Start, Listen, Crash
<1>2. QED
  BY <1>1, IndexerTypeStep, EventsInOrderStep, PendingStep DEF IndexerInv

THEOREM IndexerInvariant == Spec => []IndexerInv
BY IndexerInvInit, IndexerInvStep, PTL DEF Spec

-----------------------------------------------------------------------------
(* What follows from it *)

(* Every variable of the indexer keeps its type.                           *)
THEOREM IndexerTypeCorrect == Spec => []IndexerTypeOK
<1>1. IndexerInv => IndexerTypeOK
  BY DEF IndexerInv
<1>2. QED
  BY <1>1, IndexerInvariant, PTL

(***************************************************************************)
(* The events in memory are those of distinct registrations in the order   *)
(* of the chain, however many polls append to them.                        *)
(***************************************************************************)
THEOREM EventsStayInOrder == Spec => []EventsInOrder
<1>1. IndexerInv => EventsInOrder
  BY DEF IndexerInv
<1>2. QED
  BY <1>1, IndexerInvariant, PTL

(***************************************************************************)
(* What the indexer publishes is always the root of all registrations,     *)
(* which is what PrivateVoting has the tree builder do.                    *)
(***************************************************************************)
THEOREM PublishesCorrectly == Spec => PublishesAllRegistrations
<1>1. ASSUME IndexerInv, [Next]_vars
      PROVE  \/ UNCHANGED ownershipVars
             \/ submitOwnershipRoot(treeBuilder, registrations, Len(registrations))
  <2>1. CASE \E tx \in mempool : Mine(tx)
    <3>1. PICK tx \in mempool : Mine(tx)
      BY <2>1
    <3>2. CASE submitOwnershipRoot(TreeBuilderKey, tx.root, tx.count)
      <4>1. tx.count = Len(registrations)
        BY <3>2 DEF submitOwnershipRoot
      <4>2. tx.root = registrations
        BY <1>1, <4>1 DEF IndexerInv, PendingWhole, WholeIfFull
      <4>3. QED
        BY <1>1, <3>2, <4>1, <4>2 DEF IndexerInv
    <3>3. CASE UNCHANGED registryVars
      BY <3>3 DEF registryVars
    <3>4. QED
      BY <3>1, <3>2, <3>3 DEF Mine
  <2>2. CASE \E s \in Slot : Poll(s) \/ SubmitRoots(s) \/ Step(s) \/ Fail(s)
    BY <1>1, <2>2, SlotEffects DEF SlotEffect, registryVars
  <2>3. CASE UNCHANGED ownershipVars
    BY <2>3
  <2>4. QED
    BY <1>1, <2>1, <2>2, <2>3
       DEF Next, vars, registryVars, Register, register, BlocksPass, Start, Listen, Crash
<1>2. QED
  BY <1>1, IndexerInvariant, PTL DEF Spec, PublishesAllRegistrations

-----------------------------------------------------------------------------
(* The registry's specification *)

(* No account registers twice, whatever the indexer does.                  *)
LEMMA OneRegistrationStep ==
    IndexerInv /\ OneRegistrationPerAccount /\ [Next]_vars => OneRegistrationPerAccount'
<1> SUFFICES ASSUME IndexerInv, OneRegistrationPerAccount, [Next]_vars
             PROVE  OneRegistrationPerAccount'
  OBVIOUS
<1>1. CASE Register
  <2>1. PICK sender \in Account, c \in Commitment : register(sender, c)
    BY <1>1 DEF Register
  <2> DEFINE r == [account |-> sender, commitment |-> c]
             n == Len(registrations)
  <2>2. /\ registrations \in Seq(Registration) /\ n \in Nat
        /\ r \in Registration /\ r.account = sender
    BY DEF IndexerInv, IndexerTypeOK, Registration
  <2>3. /\ sender \notin isRegistered
        /\ registrations' = Append(registrations, r)
        /\ isRegistered' = isRegistered \cup {sender}
    BY <2>1 DEF register
  <2>4. /\ Len(registrations') = n + 1
        /\ \A i \in 1..n : registrations'[i] = registrations[i]
        /\ registrations'[n + 1] = r
    BY <2>2, <2>3
  <2> HIDE DEF r, n
  <2>5. \A i \in 1..n : registrations[i].account # sender
    BY <2>3 DEF OneRegistrationPerAccount, n
  <2>6. \A i \in 1..(n + 1) : i \in 1..n \/ i = n + 1
    BY <2>2
  <2>7. \A i, j \in 1..Len(registrations') :
           registrations'[i].account = registrations'[j].account => i = j
    BY <2>2, <2>4, <2>5, <2>6 DEF OneRegistrationPerAccount, n
  <2>8. isRegistered' = {registrations'[i].account : i \in 1..Len(registrations')}
    <3>1. isRegistered = {registrations[i].account : i \in 1..n}
      BY DEF OneRegistrationPerAccount, n
    <3>2. 1..n \subseteq 1..(n + 1) /\ n + 1 \in 1..(n + 1)
      BY <2>2
    <3>3. QED
      BY <2>2, <2>3, <2>4, <2>6, <3>1, <3>2
  <2>9. QED
    BY <2>7, <2>8 DEF OneRegistrationPerAccount
<1>2. CASE UNCHANGED <<registrations, isRegistered>>
  BY <1>2 DEF OneRegistrationPerAccount
<1>3. ASSUME NEW s \in Slot, Poll(s) \/ SubmitRoots(s) \/ Step(s) \/ Fail(s)
      PROVE  UNCHANGED <<registrations, isRegistered>>
  BY <1>3, SlotEffects DEF SlotEffect, registryVars
<1>4. QED
  BY <1>1, <1>2, <1>3
     DEF Next, vars, registryVars, BlocksPass, Mine, submitOwnershipRoot, Start, Listen, Crash

(* There are no more registrations than accounts, so their tree is one.    *)
LEMMA RegistrationsAreATree ==
    ASSUME IndexerInv, OneRegistrationPerAccount
    PROVE  registrations \in OwnershipRoot
<1> DEFINE n == Len(registrations)
           f == [i \in 1..n |-> registrations[i].account]
<1>1. n \in Nat /\ registrations \in [1..n -> Registration]
  BY DEF IndexerInv, IndexerTypeOK
<1>2. \A i, j \in 1..n : registrations[i].account = registrations[j].account => i = j
  BY DEF OneRegistrationPerAccount
<1>3. f \in Injection(1..n, Account)
  <2>1. \A i \in 1..n : registrations[i].account \in Account
    BY <1>1 DEF Registration
  <2>2. f \in [1..n -> Account]
    BY <2>1
  <2>3. \A i, j \in 1..n : f[i] = f[j] => i = j
    BY <1>2
  <2>4. QED
    BY <2>2, <2>3 DEF Injection, IsInjective
<1>4. Cardinality(1..n) <= Cardinality(Account)
  BY <1>3, FS_Injection, RegistryAssumption
<1> HIDE DEF n
<1>5. Cardinality(1..n) = n
  BY <1>1, FS_Interval
<1>6. n \in 0..Cardinality(Account)
  <2>1. Cardinality(Account) \in Nat
    BY FS_CardinalityType, RegistryAssumption
  <2>2. QED
    BY <1>1, <1>4, <1>5, <2>1
<1>7. QED
  BY <1>1, <1>2, <1>6, TreeAssumption

(***************************************************************************)
(* The registry sees steps it allows only, so what is proved of it holds   *)
(* here: a registration covered by a published tree stays covered.         *)
(***************************************************************************)
THEOREM IndexerImplementsRegistry == Spec => RegistrySpec
<1>1. Init => RegistryInit /\ OneRegistrationPerAccount
  BY DEF Init, RegistryInit, OneRegistrationPerAccount
<1>2. ASSUME IndexerInv, OneRegistrationPerAccount, [Next]_vars
      PROVE  [RegistryNext]_registryVars
  <2>1. CASE Register
    BY <2>1 DEF Register, RegistryNext
  <2>2. ASSUME NEW tx \in mempool, Mine(tx)
        PROVE  [RegistryNext]_registryVars
    <3>1. CASE submitOwnershipRoot(TreeBuilderKey, tx.root, tx.count)
      <4>1. tx.count = Len(registrations) /\ Len(registrations) \in Nat
        BY <1>2, <3>1 DEF submitOwnershipRoot, IndexerInv, IndexerTypeOK
      <4>2. tx.root = registrations
        BY <1>2, <4>1 DEF IndexerInv, PendingWhole, WholeIfFull
      <4>3. tx.root \in OwnershipRoot /\ tx.count \in 0..(Len(registrations) + 1)
        BY <1>2, <4>1, <4>2, RegistrationsAreATree
      <4>4. QED
        BY <3>1, <4>3, IndexerAssumption DEF RegistryNext
    <3>2. CASE UNCHANGED registryVars
      BY <3>2
    <3>3. QED
      BY <2>2, <3>1, <3>2 DEF Mine
  <2>3. ASSUME NEW s \in Slot, Poll(s) \/ SubmitRoots(s) \/ Step(s) \/ Fail(s)
        PROVE  UNCHANGED registryVars
    BY <1>2, <2>3, SlotEffects DEF SlotEffect
  <2>4. QED
    BY <1>2, <2>1, <2>2, <2>3 DEF Next, vars, BlocksPass, Start, Listen, Crash
<1>3. Spec => [](IndexerInv /\ OneRegistrationPerAccount)
  BY <1>1, IndexerInvariant, OneRegistrationStep, PTL DEF Spec
<1>4. QED
  BY <1>1, <1>2, <1>3, PTL DEF Spec, RegistrySpec

=============================================================================
